------------------------- MODULE MCPSession_proofs -------------------------
(***************************************************************************)
(* The session of an MCP server, for any number and any mix of concurrent  *)
(* invocations: its type, and who owns its generation and its clients.     *)
(***************************************************************************)
EXTENDS MCPSession, TLAPS

\* What stands for the absence of a session has the type of one.
LEMMA AbsentType == Absent \in Session
  BY DEF Absent, Session, Status

\* The updates of the session record the actions make keep its type.
LEMMA SessionUpdates ==
    ASSUME NEW s \in Session, NEW st \in Status, NEW g \in Nat, NEW n \in Nat,
           NEW k \in BOOLEAN
    PROVE  /\ [s EXCEPT !.status = st] \in Session
           /\ [s EXCEPT !.status = st, !.gen = g] \in Session
           /\ [s EXCEPT !.status = st, !.gen = g, !.client = NoOp, !.snap = n] \in Session
           /\ [s EXCEPT !.status = st, !.snap = n] \in Session
           /\ [s EXCEPT !.known = k] \in Session
  BY DEF Session

\* A snapshot that is retained is a revision.
LEMMA RetainedType == ASSUME session \in Session PROVE Retained \subseteq Nat
  BY DEF Retained, Session

\* Recording an error keeps the session's type.
LEMMA WithErrorType ==
    ASSUME TypeOK, NEW g \in Nat PROVE WithError(g) \in Session
<1>1. "error" \in Status /\ session \in Session
  BY DEF TypeOK, Status
<1>2. /\ [Absent EXCEPT !.status = "error", !.gen = g] \in Session
      /\ [session EXCEPT !.status = "error"] \in Session
  BY <1>1, AbsentType, SessionUpdates
<1>3. QED
  BY <1>1, <1>2 DEF WithError

\* Taking over what the manager held keeps the types of the local variables.
LEMMA TakeOverType ==
    ASSUME TypeOK, NEW o \in Ops, TakeOver(o)
    PROVE  /\ closing' \in [Ops -> Ops \cup {NoOp}]
           /\ cancelling' \in [Ops -> Ops \cup {NoOp}]
           /\ stopping' \in [Ops -> Ops \cup {NoOp}]
           /\ timer' \in Ops \cup {NoOp}
           /\ pc' \in [Ops -> PC]
<1>1. session.client \in Ops \cup {NoOp}
  BY DEF TypeOK, Session
<1>2. QED
  BY <1>1 DEF TypeOK, TakeOver, Goto, PC

\* The initial state is of its types.
LEMMA TypeInit == Init => TypeOK
<1> SUFFICES ASSUME Init PROVE TypeOK
  OBVIOUS
<1>1. closed \in BOOLEAN
  BY DEF Init
<1>2. session \in Session
  BY AbsentType DEF Init
<1>3. pc \in [Ops -> PC]
  BY DEF Init, PC
<1>4. /\ seen \in [Ops -> Ops \cup {NoOp}]
      /\ closing \in [Ops -> Ops \cup {NoOp}]
      /\ cancelling \in [Ops -> Ops \cup {NoOp}]
      /\ stopping \in [Ops -> Ops \cup {NoOp}]
  BY DEF Init
<1>5. gen \in [Ops -> Nat] /\ ver \in [Ops -> Nat] /\ rev \in [Ops -> Nat]
  BY DEF Init
<1>6. QED
  BY <1>1, <1>2, <1>3, <1>4, <1>5 DEF Init, TypeOK

-----------------------------------------------------------------------------
\* Every variable keeps its type.
LEMMA TypeStep == TypeOK /\ [Next]_vars => TypeOK'
<1> SUFFICES ASSUME TypeOK, [Next]_vars PROVE TypeOK'
  OBVIOUS
<1> USE DEF TypeOK, PC, managerVars, worldVars, localVars
<1>1. ASSUME NEW o \in Ops, BeginConnection(o) PROVE TypeOK'
  <2>1. CASE closed
    BY <1>1, <2>1 DEF BeginConnection, Goto, At
  <2>2. CASE ~closed
    <3>1. PICK snap \in Retained :
            session' = [status |-> "connecting", gen |-> generation + 1,
                        client |-> NoOp, ver |-> 0, known |-> session.known, snap |-> snap]
      BY <1>1, <2>2 DEF BeginConnection
    <3>2. session.known \in BOOLEAN /\ snap \in Nat
      BY RetainedType DEF Session
    <3>3. session' \in Session
      BY <3>1, <3>2 DEF Session, Status
    <3>4. /\ TakeOver(o)
          /\ gen' = [gen EXCEPT ![o] = generation + 1]
          /\ generation' = generation + 1
          /\ attempt' = o
          /\ attached' = {}
          /\ UNCHANGED <<closed, openClients, cancelled, armed, worldVars, ver, rev, seen>>
      BY <1>1, <2>2 DEF BeginConnection
    <3>5. QED
      BY <3>3, <3>4, TakeOverType
  <2>3. QED
    BY <2>1, <2>2
<1>2. ASSUME NEW o \in Ops, Disconnect(o) PROVE TypeOK'
  <2>1. session' \in Session
    <3>1. CASE session.status = "absent"
      BY <1>2, <3>1 DEF Disconnect
    <3>2. CASE session.status # "absent"
      <4>1. PICK snap \in Retained :
              session' = [session EXCEPT !.status = "disconnected", !.gen = generation + 1,
                                         !.client = NoOp, !.snap = snap]
        BY <1>2, <3>2 DEF Disconnect
      <4>2. "disconnected" \in Status /\ generation + 1 \in Nat /\ snap \in Nat
        BY RetainedType DEF Status
      <4>3. session \in Session
        OBVIOUS
      <4>4. QED
        BY ONLY <4>1, <4>2, <4>3, SessionUpdates
    <3>3. QED
      BY <3>1, <3>2
  <2>2. gen' \in [Ops -> Nat] /\ seen' \in [Ops -> Ops \cup {NoOp}]
    <3>1. PICK newGen, newClient \in SUBSET attached :
            /\ gen' = [r \in Ops |-> IF r \in newGen THEN generation + 1 ELSE gen[r]]
            /\ seen' = [r \in Ops |-> IF r \in newClient THEN NoOp ELSE seen[r]]
      BY <1>2 DEF Disconnect
    <3>2. QED
      BY <3>1
  <2>3. /\ TakeOver(o)
        /\ generation' = generation + 1
        /\ attempt' = NoOp
        /\ UNCHANGED <<closed, openClients, cancelled, armed, worldVars, ver, rev, attached>>
    BY <1>2 DEF Disconnect
  <2>4. QED
    BY <2>1, <2>2, <2>3, TakeOverType
<1>3. ASSUME NEW o \in Ops, CloseManager(o) PROVE TypeOK'
  <2>1. CASE closed
    BY <1>3, <2>1 DEF CloseManager, Goto
  <2>2. CASE ~closed
    <3>1. TakeOver(o) /\ session' \in Session
      BY <1>3, <2>2, AbsentType DEF CloseManager
    <3>2. generation' \in Nat
      BY <1>3, <2>2 DEF CloseManager
    <3>3. QED
      BY <1>3, <2>2, <3>1, <3>2, TakeOverType DEF CloseManager
  <2>3. QED
    BY <2>1, <2>2
<1>4. ASSUME NEW o \in Ops, StartRefresh(o) PROVE TypeOK'
  BY <1>4 DEF StartRefresh, LookUp, Goto, At, Session
<1>5. ASSUME NEW o \in Ops, ListsChange(o) PROVE TypeOK'
  BY <1>5 DEF ListsChange, Goto, At
<1>6. ASSUME NEW o \in Ops, PrepareUpdate(o) PROVE TypeOK'
  BY <1>6 DEF PrepareUpdate, Goto, At
<1>7. ASSUME NEW o \in Ops, TimerFires(o) PROVE TypeOK'
  BY <1>7 DEF TimerFires, Goto, At
<1>8. ASSUME NEW o \in Ops, Detach(o) PROVE TypeOK'
  BY <1>8 DEF Detach, Cancels, Goto, At
<1>9. ASSUME NEW o \in Ops, CloseClient(o) PROVE TypeOK'
  BY <1>9 DEF CloseClient, Goto, At
<1>10. ASSUME NEW o \in Ops, Resolve(o) PROVE TypeOK'
  BY <1>10 DEF Resolve, Goto, At
<1>11. ASSUME NEW o \in Ops, Announce(o) PROVE TypeOK'
  BY <1>11 DEF Announce, Current, Goto, At, Session
<1>12. ASSUME NEW o \in Ops, CheckCurrent(o) PROVE TypeOK'
  BY <1>12 DEF CheckCurrent, Current, Goto, At
<1>13. ASSUME NEW o \in Ops, Dial(o) PROVE TypeOK'
  BY <1>13 DEF Dial, Goto, At
<1>14. ASSUME NEW o \in Ops, Discover(o) PROVE TypeOK'
  BY <1>14 DEF Discover, Lists, Goto, At
<1>15. ASSUME NEW o \in Ops, DiscoverFails(o) PROVE TypeOK'
  BY <1>15 DEF DiscoverFails, Goto, At
<1>16. ASSUME NEW o \in Ops, AttemptFails(o) PROVE TypeOK'
  BY <1>16, WithErrorType DEF AttemptFails, Goto, At
<1>17. ASSUME NEW o \in Ops, CommitConnection(o) PROVE TypeOK'
  <2>1. CASE Current(gen[o])
    <3>1. session' = [status |-> "ready", gen |-> gen[o], client |-> o,
                      ver |-> ver[o], known |-> TRUE, snap |-> rev[o]]
      BY <1>17, <2>1 DEF CommitConnection
    <3>2. session' \in Session
      BY <3>1 DEF Session, Status
    <3>3. QED
      BY <1>17, <2>1, <3>2 DEF CommitConnection, Goto
  <2>2. CASE ~Current(gen[o])
    BY <1>17, <2>2 DEF CommitConnection, Goto
  <2>3. QED
    BY <2>1, <2>2
<1>18. ASSUME NEW o \in Ops, CloseOwn(o) PROVE TypeOK'
  BY <1>18 DEF CloseOwn, Goto, At
<1>19. ASSUME NEW o \in Ops, Finish(o) PROVE TypeOK'
  BY <1>19 DEF Finish, Goto, At
<1>20. ASSUME NEW o \in Ops, RemoveSession(o) PROVE TypeOK'
  <2>1. TakeOver(o) /\ session' \in Session
    BY <1>20, AbsentType DEF RemoveSession
  <2>2. QED
    BY <1>20, <2>1, TakeOverType DEF RemoveSession
<1>21. ASSUME NEW o \in Ops, TimerRuns(o) PROVE TypeOK'
  BY <1>21 DEF TimerRuns, Goto, At
<1>22. ASSUME NEW o \in Ops, TimerRefreshes(o) PROVE TypeOK'
  BY <1>22 DEF TimerRefreshes, LookUp, Goto, At, Session
<1>23. ASSUME NEW o \in Ops, RefreshCopied(o) PROVE TypeOK'
  BY <1>23 DEF RefreshCopied, Goto, At
<1>24. ASSUME NEW o \in Ops, RefreshResolves(o) PROVE TypeOK'
  BY <1>24 DEF RefreshResolves, Goto, At
<1>25. ASSUME NEW o \in Ops, RefreshDiscovers(o) PROVE TypeOK'
  BY <1>25 DEF RefreshDiscovers, Lists, Goto, At
<1>26. ASSUME NEW o \in Ops, RefreshFails(o) PROVE TypeOK'
  BY <1>26, WithErrorType DEF RefreshFails, Goto, At
<1>27. ASSUME NEW o \in Ops, RefreshCommits(o) PROVE TypeOK'
  BY <1>27 DEF RefreshCommits, SameSession, Status, Goto, At, Session
<1>28. ASSUME NEW o \in Ops, ScheduleRefresh(o) PROVE TypeOK'
  BY <1>28 DEF ScheduleRefresh, Goto, At
<1>29. ASSUME NEW o \in Ops, ScanCollection(o) PROVE TypeOK'
  BY <1>29 DEF ScanCollection, Goto, At
<1>30. ASSUME NEW o \in Ops, CommitUpdate(o) PROVE TypeOK'
  BY <1>30 DEF CommitUpdate, Goto, At
<1>31. CASE UNCHANGED vars
  BY <1>31 DEF vars
<1>32. QED
  BY <1>1, <1>2, <1>3, <1>4, <1>5, <1>6, <1>7, <1>8, <1>9, <1>10, <1>11,
     <1>12, <1>13, <1>14, <1>15, <1>16, <1>17, <1>18, <1>19, <1>20, <1>21,
     <1>22, <1>23, <1>24, <1>25, <1>26, <1>27, <1>28, <1>29, <1>30, <1>31
     DEF Next, Start, Continue

\* Every variable keeps its type, for any set of concurrent invocations.
THEOREM TypeCorrect == Spec => []TypeOK
  BY TypeInit, TypeStep, PTL DEF Spec

-----------------------------------------------------------------------------
\* The steps only a connection attempt takes, and those it never takes.
ConnectPC == {"resolve", "announce", "check", "dial", "discover", "discoverFailed",
              "commit", "closeOwn", "finish"}
OtherPC   == {"fired", "read", "cloning", "resolveAgain", "rediscover", "recommit",
              "remove", "scan"}

\* Which operation stands where; only a refresh that is copying may see a torn
\* session, and one that goes on has a client.
PlaceInv ==
    /\ \A o \in Ops : pc[o] \in ConnectPC => Kind[o] = "connect"
    /\ \A o \in Ops : pc[o] \in OtherPC => Kind[o] # "connect"
    /\ \A o \in attached : pc[o] = "cloning"
    /\ \A o \in Ops : pc[o] \in {"resolveAgain", "rediscover", "recommit"} => seen[o] # NoOp

\* Every step keeps the sessions in their places.
LEMMA PlaceStep == TypeOK /\ PlaceInv /\ [Next]_vars => PlaceInv'
<1> SUFFICES ASSUME TypeOK, PlaceInv, [Next]_vars PROVE PlaceInv'
  OBVIOUS
<1> USE DEF PlaceInv, ConnectPC, OtherPC, TypeOK, managerVars, worldVars, localVars
<1>1. ASSUME NEW o \in Ops, BeginConnection(o) PROVE PlaceInv'
  <2>1. /\ Kind[o] = "connect" /\ pc[o] = "idle"
        /\ pc' = [pc EXCEPT ![o] = "detach"] \/ pc' = [pc EXCEPT ![o] = "done"]
        /\ attached' = attached \/ attached' = {}
        /\ UNCHANGED seen
    BY <1>1 DEF BeginConnection, TakeOver, Goto, At
  <2>2. QED
    BY <2>1
<1>2. ASSUME NEW o \in Ops, Disconnect(o) PROVE PlaceInv'
  BY <1>2 DEF Disconnect, TakeOver, Goto, At
<1>3. ASSUME NEW o \in Ops, CloseManager(o) PROVE PlaceInv'
  BY <1>3 DEF CloseManager, TakeOver, Goto, At
<1>4. ASSUME NEW o \in Ops, StartRefresh(o) PROVE PlaceInv'
  BY <1>4 DEF StartRefresh, LookUp, Goto, At
<1>5. ASSUME NEW o \in Ops, ListsChange(o) PROVE PlaceInv'
  BY <1>5 DEF ListsChange, Goto, At
<1>6. ASSUME NEW o \in Ops, PrepareUpdate(o) PROVE PlaceInv'
  BY <1>6 DEF PrepareUpdate, Goto, At
<1>7. ASSUME NEW o \in Ops, TimerFires(o) PROVE PlaceInv'
  BY <1>7 DEF TimerFires, Goto, At
<1>8. ASSUME NEW o \in Ops, Detach(o) PROVE PlaceInv'
  BY <1>8 DEF Detach, Cancels, Goto, At
<1>9. ASSUME NEW o \in Ops, CloseClient(o) PROVE PlaceInv'
  BY <1>9 DEF CloseClient, Goto, At
<1>10. ASSUME NEW o \in Ops, Resolve(o) PROVE PlaceInv'
  BY <1>10 DEF Resolve, Goto, At
<1>11. ASSUME NEW o \in Ops, Announce(o) PROVE PlaceInv'
  BY <1>11 DEF Announce, Goto, At
<1>12. ASSUME NEW o \in Ops, CheckCurrent(o) PROVE PlaceInv'
  BY <1>12 DEF CheckCurrent, Goto, At
<1>13. ASSUME NEW o \in Ops, Dial(o) PROVE PlaceInv'
  BY <1>13 DEF Dial, Goto, At
<1>14. ASSUME NEW o \in Ops, Discover(o) PROVE PlaceInv'
  BY <1>14 DEF Discover, Goto, At
<1>15. ASSUME NEW o \in Ops, DiscoverFails(o) PROVE PlaceInv'
  BY <1>15 DEF DiscoverFails, Goto, At
<1>16. ASSUME NEW o \in Ops, AttemptFails(o) PROVE PlaceInv'
  BY <1>16 DEF AttemptFails, Goto, At
<1>17. ASSUME NEW o \in Ops, CommitConnection(o) PROVE PlaceInv'
  BY <1>17 DEF CommitConnection, Goto, At
<1>18. ASSUME NEW o \in Ops, CloseOwn(o) PROVE PlaceInv'
  BY <1>18 DEF CloseOwn, Goto, At
<1>19. ASSUME NEW o \in Ops, Finish(o) PROVE PlaceInv'
  BY <1>19 DEF Finish, Goto, At
<1>20. ASSUME NEW o \in Ops, RemoveSession(o) PROVE PlaceInv'
  BY <1>20 DEF RemoveSession, TakeOver, Goto, At
<1>21. ASSUME NEW o \in Ops, TimerRuns(o) PROVE PlaceInv'
  BY <1>21 DEF TimerRuns, Goto, At
<1>22. ASSUME NEW o \in Ops, TimerRefreshes(o) PROVE PlaceInv'
  BY <1>22 DEF TimerRefreshes, LookUp, Goto, At
<1>23. ASSUME NEW o \in Ops, RefreshCopied(o) PROVE PlaceInv'
  BY <1>23 DEF RefreshCopied, Goto, At
<1>24. ASSUME NEW o \in Ops, RefreshResolves(o) PROVE PlaceInv'
  BY <1>24 DEF RefreshResolves, Goto, At
<1>25. ASSUME NEW o \in Ops, RefreshDiscovers(o) PROVE PlaceInv'
  BY <1>25 DEF RefreshDiscovers, Goto, At
<1>26. ASSUME NEW o \in Ops, RefreshFails(o) PROVE PlaceInv'
  BY <1>26 DEF RefreshFails, Goto, At
<1>27. ASSUME NEW o \in Ops, RefreshCommits(o) PROVE PlaceInv'
  BY <1>27 DEF RefreshCommits, Goto, At
<1>28. ASSUME NEW o \in Ops, ScheduleRefresh(o) PROVE PlaceInv'
  BY <1>28 DEF ScheduleRefresh, Goto, At
<1>29. ASSUME NEW o \in Ops, ScanCollection(o) PROVE PlaceInv'
  BY <1>29 DEF ScanCollection, Goto, At
<1>30. ASSUME NEW o \in Ops, CommitUpdate(o) PROVE PlaceInv'
  BY <1>30 DEF CommitUpdate, Goto, At
<1>31. CASE UNCHANGED vars
  BY <1>31 DEF vars
<1>32. QED
  BY <1>1, <1>2, <1>3, <1>4, <1>5, <1>6, <1>7, <1>8, <1>9, <1>10, <1>11,
     <1>12, <1>13, <1>14, <1>15, <1>16, <1>17, <1>18, <1>19, <1>20, <1>21,
     <1>22, <1>23, <1>24, <1>25, <1>26, <1>27, <1>28, <1>29, <1>30, <1>31
     DEF Next, Start, Continue

-----------------------------------------------------------------------------
\* Attempts under way.
Begun(c) == Kind[c] = "connect" /\ pc[c] \notin {"idle", "done"}

\* Generations only grow, and every attempt has one of its own.
GenInv ==
    /\ SessionIsCurrent
    /\ \A o \in Ops : gen[o] <= generation
    /\ \A c, d \in Ops : Begun(c) /\ Begun(d) /\ gen[c] = gen[d] => c = d

\* Every step keeps what is known of the generations.
LEMMA GenStep == TypeOK /\ PlaceInv /\ GenInv /\ [Next]_vars => GenInv'
<1> SUFFICES ASSUME TypeOK, PlaceInv, GenInv, [Next]_vars PROVE GenInv'
  OBVIOUS
<1> USE DEF GenInv, SessionIsCurrent, Begun, TypeOK, managerVars, worldVars, localVars
<1>1. ASSUME NEW o \in Ops, BeginConnection(o) PROVE GenInv'
  BY <1>1 DEF BeginConnection, TakeOver, Goto, At, Absent
<1>2. ASSUME NEW o \in Ops, Disconnect(o) PROVE GenInv'
  <2>1. PICK newGen \in SUBSET attached :
          gen' = [r \in Ops |-> IF r \in newGen THEN generation + 1 ELSE gen[r]]
    BY <1>2 DEF Disconnect
  <2>2. \A c \in Ops : Begun(c) => c \notin newGen
    BY DEF PlaceInv, OtherPC
  <2>3. /\ generation' = generation + 1
        /\ Kind[o] = "disconnect" /\ pc' = [pc EXCEPT ![o] = "detach"]
        /\ UNCHANGED closed
    BY <1>2 DEF Disconnect, TakeOver, Goto
  <2>4. SessionIsCurrent'
    <3>1. CASE session.status = "absent"
      BY <1>2, <3>1 DEF Disconnect
    <3>2. CASE session.status # "absent"
      <4>1. PICK snap \in Retained :
              session' = [session EXCEPT !.status = "disconnected", !.gen = generation + 1,
                                         !.client = NoOp, !.snap = snap]
        BY <1>2, <3>2 DEF Disconnect
      <4>2. session'.gen = generation + 1
        BY <4>1 DEF Session
      <4>3. QED
        BY <2>3, <3>2, <4>2
    <3>3. QED
      BY <3>1, <3>2
  <2>5. \A c \in Ops : Begun(c)' => Begun(c) /\ gen'[c] = gen[c]
    BY <2>1, <2>2, <2>3
  <2>6. QED
    BY <2>1, <2>3, <2>4, <2>5
<1>3. ASSUME NEW o \in Ops, CloseManager(o) PROVE GenInv'
  BY <1>3 DEF CloseManager, TakeOver, Goto, At, Absent
<1>4. ASSUME NEW o \in Ops, StartRefresh(o) PROVE GenInv'
  BY <1>4 DEF StartRefresh, LookUp, Goto, At
<1>5. ASSUME NEW o \in Ops, ListsChange(o) PROVE GenInv'
  BY <1>5 DEF ListsChange, Goto, At
<1>6. ASSUME NEW o \in Ops, PrepareUpdate(o) PROVE GenInv'
  BY <1>6 DEF PrepareUpdate, Goto, At
<1>7. ASSUME NEW o \in Ops, TimerFires(o) PROVE GenInv'
  BY <1>7 DEF TimerFires, Goto, At
<1>8. ASSUME NEW o \in Ops, Detach(o) PROVE GenInv'
  BY <1>8 DEF Detach, Cancels, Goto, At
<1>9. ASSUME NEW o \in Ops, CloseClient(o) PROVE GenInv'
  BY <1>9 DEF CloseClient, Goto, At
<1>10. ASSUME NEW o \in Ops, Resolve(o) PROVE GenInv'
  BY <1>10 DEF Resolve, Goto, At
<1>11. ASSUME NEW o \in Ops, Announce(o) PROVE GenInv'
  BY <1>11 DEF Announce, Current, Goto, At
<1>12. ASSUME NEW o \in Ops, CheckCurrent(o) PROVE GenInv'
  BY <1>12 DEF CheckCurrent, Current, Goto, At
<1>13. ASSUME NEW o \in Ops, Dial(o) PROVE GenInv'
  BY <1>13 DEF Dial, Goto, At
<1>14. ASSUME NEW o \in Ops, Discover(o) PROVE GenInv'
  BY <1>14 DEF Discover, Goto, At
<1>15. ASSUME NEW o \in Ops, DiscoverFails(o) PROVE GenInv'
  BY <1>15 DEF DiscoverFails, Goto, At
<1>16. ASSUME NEW o \in Ops, AttemptFails(o) PROVE GenInv'
  BY <1>16 DEF AttemptFails, WithError, Absent, Goto, At
<1>17. ASSUME NEW o \in Ops, CommitConnection(o) PROVE GenInv'
  BY <1>17 DEF CommitConnection, Current, Goto, At
<1>18. ASSUME NEW o \in Ops, CloseOwn(o) PROVE GenInv'
  BY <1>18 DEF CloseOwn, Goto, At
<1>19. ASSUME NEW o \in Ops, Finish(o) PROVE GenInv'
  BY <1>19 DEF Finish, Goto, At
<1>20. ASSUME NEW o \in Ops, RemoveSession(o) PROVE GenInv'
  BY <1>20 DEF RemoveSession, TakeOver, Absent, Goto, At
<1>21. ASSUME NEW o \in Ops, TimerRuns(o) PROVE GenInv'
  BY <1>21 DEF TimerRuns, Goto, At
<1>22. ASSUME NEW o \in Ops, TimerRefreshes(o) PROVE GenInv'
  BY <1>22 DEF TimerRefreshes, LookUp, Goto, At, PlaceInv, OtherPC
<1>23. ASSUME NEW o \in Ops, RefreshCopied(o) PROVE GenInv'
  BY <1>23 DEF RefreshCopied, Goto, At
<1>24. ASSUME NEW o \in Ops, RefreshResolves(o) PROVE GenInv'
  BY <1>24 DEF RefreshResolves, Goto, At
<1>25. ASSUME NEW o \in Ops, RefreshDiscovers(o) PROVE GenInv'
  BY <1>25 DEF RefreshDiscovers, Goto, At
<1>26. ASSUME NEW o \in Ops, RefreshFails(o) PROVE GenInv'
  BY <1>26 DEF RefreshFails, WithError, Absent, Goto, At
<1>27. ASSUME NEW o \in Ops, RefreshCommits(o) PROVE GenInv'
  BY <1>27 DEF RefreshCommits, SameSession, Goto, At
<1>28. ASSUME NEW o \in Ops, ScheduleRefresh(o) PROVE GenInv'
  BY <1>28 DEF ScheduleRefresh, Goto, At
<1>29. ASSUME NEW o \in Ops, ScanCollection(o) PROVE GenInv'
  BY <1>29 DEF ScanCollection, Goto, At
<1>30. ASSUME NEW o \in Ops, CommitUpdate(o) PROVE GenInv'
  BY <1>30 DEF CommitUpdate, Goto, At
<1>31. CASE UNCHANGED vars
  BY <1>31 DEF vars
<1>32. QED
  BY <1>1, <1>2, <1>3, <1>4, <1>5, <1>6, <1>7, <1>8, <1>9, <1>10, <1>11,
     <1>12, <1>13, <1>14, <1>15, <1>16, <1>17, <1>18, <1>19, <1>20, <1>21,
     <1>22, <1>23, <1>24, <1>25, <1>26, <1>27, <1>28, <1>29, <1>30, <1>31
     DEF Next, Start, Continue

-----------------------------------------------------------------------------
\* A client belongs to the attempt that opened it until the attempt commits or
\* closes it, then to the session, then to the invocation that takes it over.
OwnInv ==
    /\ \A c \in Ops : Begun(c) /\ pc[c] # "finish" /\ session.gen = gen[c]
                        => session.client = NoOp
    /\ session.client # NoOp =>
         /\ Kind[session.client] = "connect"
         /\ pc[session.client] \in {"finish", "done"}
         /\ session.client \in openClients
    /\ \A o \in Ops : pc[o] \in {"detach", "close"} /\ closing[o] # NoOp =>
         /\ session.client # closing[o]
         /\ Kind[closing[o]] = "connect"
         /\ pc[closing[o]] \in {"finish", "done"}
    /\ \A c \in Ops : OwnedByAttempt(c) => c \in openClients
    /\ session.status = "ready" => session.client # NoOp
    /\ session.status = "absent" => session.client = NoOp
    /\ OpenClientsAreOwned

\* An error changes the session's status and nothing else that matters here.
LEMMA WithErrorEffect ==
    ASSUME session \in Session, NEW g \in Nat,
           session.status = "absent" => session.client = NoOp
    PROVE  /\ WithError(g).client = session.client
           /\ WithError(g).gen = session.gen \/ WithError(g).client = NoOp
           /\ WithError(g).status \in {session.status, "error"}
  BY DEF WithError, Absent, Session

\* Every step keeps what is known of the clients' owners.
LEMMA OwnStep == TypeOK /\ PlaceInv /\ GenInv /\ OwnInv /\ [Next]_vars => OwnInv'
<1> SUFFICES ASSUME TypeOK, PlaceInv, GenInv, OwnInv, [Next]_vars PROVE OwnInv'
  OBVIOUS
<1> USE NoOpOutside DEF OwnInv, OpenClientsAreOwned, OwnedByAttempt, AboutToClose, Begun, TypeOK,
        managerVars, worldVars, localVars
<1>1. ASSUME NEW o \in Ops, BeginConnection(o) PROVE OwnInv'
  BY <1>1 DEF BeginConnection, TakeOver, Goto, At, Absent, PlaceInv, ConnectPC, OtherPC
<1>2. ASSUME NEW o \in Ops, Disconnect(o) PROVE OwnInv'
  <2>1. /\ closing' = [closing EXCEPT ![o] = session.client]
        /\ pc[o] = "idle" /\ Kind[o] = "disconnect"
        /\ pc' = [pc EXCEPT ![o] = "detach"]
        /\ UNCHANGED openClients
    BY <1>2 DEF Disconnect, TakeOver, Goto, At
  <2>2. session'.client = NoOp /\ session'.status # "ready"
    <3>1. CASE session.status = "absent"
      BY <1>2, <3>1 DEF Disconnect
    <3>2. CASE session.status # "absent"
      <4>1. PICK snap \in Retained :
              session' = [session EXCEPT !.status = "disconnected", !.gen = generation + 1,
                                         !.client = NoOp, !.snap = snap]
        BY <1>2, <3>2 DEF Disconnect
      <4>2. QED
        BY <4>1 DEF Session
    <3>3. QED
      BY <3>1, <3>2
  <2>3. QED
    BY <2>1, <2>2
<1>3. ASSUME NEW o \in Ops, CloseManager(o) PROVE OwnInv'
  BY <1>3 DEF CloseManager, TakeOver, Goto, At, Absent, PlaceInv, ConnectPC, OtherPC
<1>4. ASSUME NEW o \in Ops, StartRefresh(o) PROVE OwnInv'
  BY <1>4 DEF StartRefresh, LookUp, Goto, At, PlaceInv, ConnectPC, OtherPC
<1>5. ASSUME NEW o \in Ops, ListsChange(o) PROVE OwnInv'
  BY <1>5 DEF ListsChange, Goto, At, PlaceInv, ConnectPC, OtherPC
<1>6. ASSUME NEW o \in Ops, PrepareUpdate(o) PROVE OwnInv'
  BY <1>6 DEF PrepareUpdate, Goto, At, PlaceInv, ConnectPC, OtherPC
<1>7. ASSUME NEW o \in Ops, TimerFires(o) PROVE OwnInv'
  BY <1>7 DEF TimerFires, Goto, At, PlaceInv, ConnectPC, OtherPC
<1>8. ASSUME NEW o \in Ops, Detach(o) PROVE OwnInv'
  BY <1>8 DEF Detach, Cancels, Goto, At, PlaceInv, ConnectPC, OtherPC
<1>9. ASSUME NEW o \in Ops, CloseClient(o) PROVE OwnInv'
  BY <1>9 DEF CloseClient, Goto, At, PlaceInv, ConnectPC, OtherPC
<1>10. ASSUME NEW o \in Ops, Resolve(o) PROVE OwnInv'
  BY <1>10 DEF Resolve, Goto, At, PlaceInv, ConnectPC, OtherPC
<1>11. ASSUME NEW o \in Ops, Announce(o) PROVE OwnInv'
  BY <1>11 DEF Announce, Current, Goto, At, PlaceInv, ConnectPC, OtherPC
<1>12. ASSUME NEW o \in Ops, CheckCurrent(o) PROVE OwnInv'
  BY <1>12 DEF CheckCurrent, Current, Goto, At, PlaceInv, ConnectPC, OtherPC
<1>13. ASSUME NEW o \in Ops, Dial(o) PROVE OwnInv'
  BY <1>13 DEF Dial, Goto, At, PlaceInv, ConnectPC, OtherPC
<1>14. ASSUME NEW o \in Ops, Discover(o) PROVE OwnInv'
  BY <1>14 DEF Discover, Goto, At, PlaceInv, ConnectPC, OtherPC
<1>15. ASSUME NEW o \in Ops, DiscoverFails(o) PROVE OwnInv'
  BY <1>15 DEF DiscoverFails, Goto, At, PlaceInv, ConnectPC, OtherPC
<1>16. ASSUME NEW o \in Ops, AttemptFails(o) PROVE OwnInv'
  <2>1. /\ session'.client = session.client
        /\ session'.gen = session.gen \/ session'.client = NoOp
        /\ session'.status \in {session.status, "error"}
    BY <1>16, WithErrorEffect DEF AttemptFails
  <2>2. /\ pc[o] \in {"resolve", "dial", "discoverFailed"}
        /\ pc' = [pc EXCEPT ![o] = "finish"]
        /\ UNCHANGED <<gen, closing, openClients>>
    BY <1>16 DEF AttemptFails, Goto
  <2>3. QED
    BY <2>1, <2>2
<1>17. ASSUME NEW o \in Ops, CommitConnection(o) PROVE OwnInv'
  <2>1. CASE Current(gen[o])
    <3>1. session.client = NoOp
      BY <1>17, <2>1 DEF CommitConnection, At, Current, PlaceInv, ConnectPC
    <3>2. /\ session'.status = "ready"
          /\ session'.gen = gen[o]
          /\ session'.client = o
      BY <1>17, <2>1 DEF CommitConnection
    <3>3. /\ pc[o] = "commit" /\ Kind[o] = "connect"
          /\ pc' = [pc EXCEPT ![o] = "finish"]
          /\ UNCHANGED <<gen, closing, openClients>>
      BY <1>17, <2>1 DEF CommitConnection, At, Goto, PlaceInv, ConnectPC
    <3>4. o \in openClients
      BY <3>3 DEF PlaceInv
    <3>5. QED
      BY <3>1, <3>2, <3>3, <3>4 DEF GenInv
  <2>2. CASE ~Current(gen[o])
    BY <1>17, <2>2 DEF CommitConnection, Goto, At
  <2>3. QED
    BY <2>1, <2>2
<1>18. ASSUME NEW o \in Ops, CloseOwn(o) PROVE OwnInv'
  BY <1>18 DEF CloseOwn, Goto, At, PlaceInv, ConnectPC, OtherPC
<1>19. ASSUME NEW o \in Ops, Finish(o) PROVE OwnInv'
  BY <1>19 DEF Finish, Goto, At, PlaceInv, ConnectPC, OtherPC
<1>20. ASSUME NEW o \in Ops, RemoveSession(o) PROVE OwnInv'
  BY <1>20 DEF RemoveSession, TakeOver, Absent, Goto, At, PlaceInv, ConnectPC, OtherPC
<1>21. ASSUME NEW o \in Ops, TimerRuns(o) PROVE OwnInv'
  BY <1>21 DEF TimerRuns, Goto, At, PlaceInv, ConnectPC, OtherPC
<1>22. ASSUME NEW o \in Ops, TimerRefreshes(o) PROVE OwnInv'
  BY <1>22 DEF TimerRefreshes, LookUp, Goto, At, PlaceInv, ConnectPC, OtherPC
<1>23. ASSUME NEW o \in Ops, RefreshCopied(o) PROVE OwnInv'
  BY <1>23 DEF RefreshCopied, Goto, At, PlaceInv, ConnectPC, OtherPC
<1>24. ASSUME NEW o \in Ops, RefreshResolves(o) PROVE OwnInv'
  BY <1>24 DEF RefreshResolves, Goto, At, PlaceInv, ConnectPC, OtherPC
<1>25. ASSUME NEW o \in Ops, RefreshDiscovers(o) PROVE OwnInv'
  BY <1>25 DEF RefreshDiscovers, Goto, At, PlaceInv, ConnectPC, OtherPC
<1>26. ASSUME NEW o \in Ops, RefreshFails(o) PROVE OwnInv'
  <2>1. /\ session'.client = session.client
        /\ session'.gen = session.gen \/ session'.client = NoOp
        /\ session'.status \in {session.status, "error"}
    BY <1>26, WithErrorEffect DEF RefreshFails
  <2>2. /\ pc[o] \in {"resolveAgain", "rediscover"}
        /\ pc' = [pc EXCEPT ![o] = "done"]
        /\ UNCHANGED <<gen, closing, openClients>>
    BY <1>26 DEF RefreshFails, Goto
  <2>3. QED
    BY <2>1, <2>2 DEF PlaceInv, OtherPC
<1>27. ASSUME NEW o \in Ops, RefreshCommits(o) PROVE OwnInv'
  BY <1>27 DEF RefreshCommits, SameSession, Goto, At, PlaceInv, ConnectPC, OtherPC
<1>28. ASSUME NEW o \in Ops, ScheduleRefresh(o) PROVE OwnInv'
  BY <1>28 DEF ScheduleRefresh, Goto, At, PlaceInv, ConnectPC, OtherPC
<1>29. ASSUME NEW o \in Ops, ScanCollection(o) PROVE OwnInv'
  BY <1>29 DEF ScanCollection, Goto, At, PlaceInv, ConnectPC, OtherPC
<1>30. ASSUME NEW o \in Ops, CommitUpdate(o) PROVE OwnInv'
  BY <1>30 DEF CommitUpdate, Goto, At, PlaceInv, ConnectPC, OtherPC
<1>31. CASE UNCHANGED vars
  BY <1>31 DEF vars
<1>32. QED
  BY <1>1, <1>2, <1>3, <1>4, <1>5, <1>6, <1>7, <1>8, <1>9, <1>10, <1>11,
     <1>12, <1>13, <1>14, <1>15, <1>16, <1>17, <1>18, <1>19, <1>20, <1>21,
     <1>22, <1>23, <1>24, <1>25, <1>26, <1>27, <1>28, <1>29, <1>30, <1>31
     DEF Next, Start, Continue

-----------------------------------------------------------------------------
\* An attempt before its last step.
Active(c) == Kind[c] = "connect" /\ pc[c] \notin {"idle", "finish", "done"}

\* Its context is cancelled, or somebody is about to cancel it.
Cancelling(c) == c \in cancelled \/ \E o \in Ops : At(o, "detach") /\ c \in Cancels(o)

\* An attempt that still owns the session is the registered one: whoever takes
\* the session over finds it there to cancel.  A shutdown needs no registration,
\* and does nothing but take over, detach and close.
CancelInv ==
    /\ \A c \in Ops : Active(c) /\ ~closed /\ gen[c] = generation => attempt = c
    /\ \A o \in Ops : Kind[o] = "close" => pc[o] \in {"idle", "detach", "close", "done"}
    /\ SupersededIsCancelled

\* Taking the session over makes every attempt but the new one cancelled or
\* about to be.
LEMMA TakingOverCancels ==
    ASSUME TypeOK, CancelInv, ~closed, NEW o \in Ops, NEW c \in Ops,
           Kind[o] # "close", pc[o] \in {"idle", "remove"},
           pc' = [pc EXCEPT ![o] = "detach"],
           cancelling' = [cancelling EXCEPT ![o] = attempt],
           UNCHANGED cancelled,
           c # o, Active(c)
    PROVE  Cancelling(c)'
<1>1. CASE gen[c] = generation
  <2>1. attempt = c
    BY <1>1 DEF CancelInv
  <2>2. At(o, "detach")' /\ c \in Cancels(o)'
    BY <2>1, NoOpOutside DEF At, Cancels, TypeOK
  <2>3. QED
    BY <2>2 DEF Cancelling
<1>2. CASE gen[c] # generation
  <2>1. c \in cancelled \/ \E r \in Ops : At(r, "detach") /\ c \in Cancels(r)
    BY <1>2 DEF CancelInv, SupersededIsCancelled, Active
  <2>2. ASSUME NEW r \in Ops, At(r, "detach"), c \in Cancels(r)
        PROVE  At(r, "detach")' /\ c \in Cancels(r)'
    <3>1. r # o
      BY <2>2 DEF At
    <3>2. pc'[r] = pc[r] /\ cancelling'[r] = cancelling[r]
      BY <3>1 DEF TypeOK
    <3>3. c \in Cancels(r)'
      BY <2>2, <3>2 DEF Cancels, Active, TypeOK
    <3>4. QED
      BY <2>2, <3>2, <3>3 DEF At
  <2>3. QED
    BY <2>1, <2>2 DEF Cancelling
<1>3. QED
  BY <1>1, <1>2

\* Every step keeps what is known of cancelled attempts.
LEMMA CancelStep == TypeOK /\ PlaceInv /\ GenInv /\ CancelInv /\ [Next]_vars => CancelInv'
<1> SUFFICES ASSUME TypeOK, PlaceInv, GenInv, CancelInv, [Next]_vars PROVE CancelInv'
  OBVIOUS
<1> USE NoOpOutside DEF CancelInv, SupersededIsCancelled, Active, TypeOK, Cancels, Goto, At,
        PlaceInv, ConnectPC, OtherPC, managerVars, worldVars, localVars
<1>1. ASSUME NEW o \in Ops, BeginConnection(o) PROVE CancelInv'
  <2>1. CASE closed
    BY <1>1, <2>1 DEF BeginConnection
  <2>2. CASE ~closed
    <3>1. /\ Kind[o] = "connect" /\ pc[o] = "idle"
          /\ pc' = [pc EXCEPT ![o] = "detach"]
          /\ cancelling' = [cancelling EXCEPT ![o] = attempt]
          /\ generation' = generation + 1
          /\ gen' = [gen EXCEPT ![o] = generation + 1]
          /\ attempt' = o
          /\ UNCHANGED <<closed, cancelled>>
      BY <1>1, <2>2 DEF BeginConnection, TakeOver
    <3>2. \A c \in Ops : Active(c)' /\ c # o => Active(c) /\ gen'[c] = gen[c]
      BY <3>1
    <3>3. \A c \in Ops : Active(c)' /\ gen'[c] = generation' => attempt' = c
      BY <3>1, <3>2 DEF GenInv
    <3>4. \A r \in Ops : Kind[r] = "close" => pc'[r] \in {"idle", "detach", "close", "done"}
      BY <3>1
    <3>5. \A c \in Ops : Active(c)' /\ gen'[c] # generation' => Cancelling(c)'
      <4> SUFFICES ASSUME NEW c \in Ops, Active(c)', gen'[c] # generation'
                   PROVE  Cancelling(c)'
        OBVIOUS
      <4>1. c # o /\ Active(c)
        BY <3>1, <3>2
      <4>2. QED
        BY ONLY TypeOK, CancelInv, <2>2, <3>1, <4>1, TakingOverCancels
    <3>6. QED
      BY <2>2, <3>1, <3>3, <3>4, <3>5 DEF Cancelling
  <2>3. QED
    BY <2>1, <2>2
<1>2. ASSUME NEW o \in Ops, Disconnect(o) PROVE CancelInv'
  <2>1. PICK newGen \in SUBSET attached :
          gen' = [r \in Ops |-> IF r \in newGen THEN generation + 1 ELSE gen[r]]
    BY <1>2 DEF Disconnect
  <2>2. /\ Kind[o] = "disconnect" /\ pc[o] = "idle"
        /\ pc' = [pc EXCEPT ![o] = "detach"]
        /\ cancelling' = [cancelling EXCEPT ![o] = attempt]
        /\ generation' = generation + 1
        /\ UNCHANGED <<closed, cancelled>>
    BY <1>2 DEF Disconnect, TakeOver
  <2>3. \A c \in Ops : Active(c)' => c # o /\ Active(c) /\ gen'[c] = gen[c]
    BY <2>1, <2>2
  <2>4. \A c \in Ops : Active(c)' => gen'[c] # generation'
    BY <2>2, <2>3 DEF GenInv
  <2>5. \A r \in Ops : Kind[r] = "close" => pc'[r] \in {"idle", "detach", "close", "done"}
    BY <2>2
  <2>6. \A c \in Ops : Active(c)' => Cancelling(c)'
    <3>1. CASE ~closed
      BY ONLY TypeOK, CancelInv, <3>1, <2>2, <2>3, TakingOverCancels
    <3>2. CASE closed
      BY <3>2, <2>2, <2>3 DEF Cancelling
    <3>3. QED
      BY <3>1, <3>2
  <2>7. QED
    BY <2>4, <2>5, <2>6 DEF Cancelling
<1>3. ASSUME NEW o \in Ops, CloseManager(o) PROVE CancelInv'
  BY <1>3 DEF CloseManager, TakeOver, GenInv
<1>4. ASSUME NEW o \in Ops, StartRefresh(o) PROVE CancelInv'
  BY <1>4 DEF StartRefresh, LookUp
<1>5. ASSUME NEW o \in Ops, ListsChange(o) PROVE CancelInv'
  BY <1>5 DEF ListsChange
<1>6. ASSUME NEW o \in Ops, PrepareUpdate(o) PROVE CancelInv'
  BY <1>6 DEF PrepareUpdate
<1>7. ASSUME NEW o \in Ops, TimerFires(o) PROVE CancelInv'
  BY <1>7 DEF TimerFires
<1>8. ASSUME NEW o \in Ops, Detach(o) PROVE CancelInv'
  BY <1>8 DEF Detach
<1>9. ASSUME NEW o \in Ops, CloseClient(o) PROVE CancelInv'
  BY <1>9 DEF CloseClient
<1>10. ASSUME NEW o \in Ops, Resolve(o) PROVE CancelInv'
  BY <1>10 DEF Resolve
<1>11. ASSUME NEW o \in Ops, Announce(o) PROVE CancelInv'
  BY <1>11 DEF Announce
<1>12. ASSUME NEW o \in Ops, CheckCurrent(o) PROVE CancelInv'
  BY <1>12 DEF CheckCurrent
<1>13. ASSUME NEW o \in Ops, Dial(o) PROVE CancelInv'
  BY <1>13 DEF Dial
<1>14. ASSUME NEW o \in Ops, Discover(o) PROVE CancelInv'
  BY <1>14 DEF Discover
<1>15. ASSUME NEW o \in Ops, DiscoverFails(o) PROVE CancelInv'
  BY <1>15 DEF DiscoverFails
<1>16. ASSUME NEW o \in Ops, AttemptFails(o) PROVE CancelInv'
  BY <1>16 DEF AttemptFails
<1>17. ASSUME NEW o \in Ops, CommitConnection(o) PROVE CancelInv'
  BY <1>17 DEF CommitConnection
<1>18. ASSUME NEW o \in Ops, CloseOwn(o) PROVE CancelInv'
  BY <1>18 DEF CloseOwn
<1>19. ASSUME NEW o \in Ops, Finish(o) PROVE CancelInv'
  BY <1>19 DEF Finish
<1>20. ASSUME NEW o \in Ops, RemoveSession(o) PROVE CancelInv'
  <2>1. /\ Kind[o] \notin {"connect", "close"} /\ pc[o] = "remove"
        /\ pc' = [pc EXCEPT ![o] = "detach"]
        /\ cancelling' = [cancelling EXCEPT ![o] = attempt]
        /\ generation' = generation + 1
        /\ UNCHANGED <<closed, cancelled, gen>>
    BY <1>20 DEF RemoveSession, TakeOver
  <2>2. \A c \in Ops : Active(c)' => c # o /\ Active(c)
    BY <2>1
  <2>3. \A c \in Ops : Active(c)' => gen'[c] # generation'
    BY <2>1 DEF GenInv
  <2>4. \A r \in Ops : Kind[r] = "close" => pc'[r] \in {"idle", "detach", "close", "done"}
    BY <2>1
  <2>5. \A c \in Ops : Active(c)' => Cancelling(c)'
    <3>1. CASE ~closed
      BY ONLY TypeOK, CancelInv, <3>1, <2>1, <2>2, TakingOverCancels
    <3>2. CASE closed
      BY <3>2, <2>1, <2>2 DEF Cancelling
    <3>3. QED
      BY <3>1, <3>2
  <2>6. QED
    BY <2>3, <2>4, <2>5 DEF Cancelling
<1>21. ASSUME NEW o \in Ops, TimerRuns(o) PROVE CancelInv'
  BY <1>21 DEF TimerRuns
<1>22. ASSUME NEW o \in Ops, TimerRefreshes(o) PROVE CancelInv'
  BY <1>22 DEF TimerRefreshes, LookUp
<1>23. ASSUME NEW o \in Ops, RefreshCopied(o) PROVE CancelInv'
  BY <1>23 DEF RefreshCopied
<1>24. ASSUME NEW o \in Ops, RefreshResolves(o) PROVE CancelInv'
  BY <1>24 DEF RefreshResolves
<1>25. ASSUME NEW o \in Ops, RefreshDiscovers(o) PROVE CancelInv'
  BY <1>25 DEF RefreshDiscovers
<1>26. ASSUME NEW o \in Ops, RefreshFails(o) PROVE CancelInv'
  BY <1>26 DEF RefreshFails
<1>27. ASSUME NEW o \in Ops, RefreshCommits(o) PROVE CancelInv'
  BY <1>27 DEF RefreshCommits
<1>28. ASSUME NEW o \in Ops, ScheduleRefresh(o) PROVE CancelInv'
  BY <1>28 DEF ScheduleRefresh
<1>29. ASSUME NEW o \in Ops, ScanCollection(o) PROVE CancelInv'
  BY <1>29 DEF ScanCollection
<1>30. ASSUME NEW o \in Ops, CommitUpdate(o) PROVE CancelInv'
  BY <1>30 DEF CommitUpdate
<1>31. CASE UNCHANGED vars
  BY <1>31 DEF vars
<1>32. QED
  BY <1>1, <1>2, <1>3, <1>4, <1>5, <1>6, <1>7, <1>8, <1>9, <1>10, <1>11, <1>12, <1>13, <1>14, <1>15, <1>16, <1>17, <1>18, <1>19, <1>20, <1>21, <1>22, <1>23, <1>24, <1>25, <1>26, <1>27, <1>28, <1>29, <1>30, <1>31
     DEF Next, Start, Continue

-----------------------------------------------------------------------------
\* The whole inductive invariant.
SessionInv == TypeOK /\ PlaceInv /\ GenInv /\ OwnInv /\ CancelInv

\* The manager begins with its invariant.
LEMMA SessionInvInit == Init => SessionInv
<1> SUFFICES ASSUME Init PROVE SessionInv
  OBVIOUS
<1>1. TypeOK
  BY TypeInit
<1>2. \A o \in Ops : pc[o] = "idle" /\ gen[o] = 0
  BY DEF Init
<1>3. session.status = "absent" /\ session.client = NoOp
  BY DEF Init, Absent
<1>4. PlaceInv
  BY <1>2 DEF Init, PlaceInv, ConnectPC, OtherPC
<1>5. GenInv
  BY <1>2, <1>3 DEF Init, GenInv, SessionIsCurrent, Begun
<1>6. OwnInv
  BY <1>2, <1>3 DEF Init, OwnInv, OpenClientsAreOwned, OwnedByAttempt, Begun
<1>7. CancelInv
  BY <1>2 DEF CancelInv, SupersededIsCancelled, Active
<1>8. QED
  BY <1>1, <1>4, <1>5, <1>6, <1>7 DEF SessionInv

\* Every step keeps the invariant.
LEMMA SessionInvStep == SessionInv /\ [Next]_vars => SessionInv'
  BY TypeStep, PlaceStep, GenStep, OwnStep, CancelStep DEF SessionInv

\* The inductive invariant of the session manager.
LEMMA SessionInvAlways == Spec => []SessionInv
  BY SessionInvInit, SessionInvStep, PTL DEF Spec

\* For any number and any mix of concurrent invocations, the session in the map
\* is never one that something newer has replaced or removed.
THEOREM SessionCorrect == Spec => []SessionIsCurrent
<1>1. SessionInv => SessionIsCurrent
  BY DEF SessionInv, GenInv
<1>2. QED
  BY <1>1, SessionInvAlways, PTL

\* No open client is forgotten, whichever of the invocations closes it.
THEOREM NoClientLeaks == Spec => []OpenClientsAreOwned
<1>1. SessionInv => OpenClientsAreOwned
  BY DEF SessionInv, OwnInv
<1>2. QED
  BY <1>1, SessionInvAlways, PTL

\* A ready session has a client and nobody has closed it.
THEOREM ReadyClientIsOpen == Spec => []ReadySessionIsOpen
<1>1. SessionInv => ReadySessionIsOpen
  BY DEF SessionInv, OwnInv, ReadySessionIsOpen
<1>2. QED
  BY <1>1, SessionInvAlways, PTL

\* An attempt that has lost the session is cancelled, or whoever took the session
\* from it, a newer attempt, a disconnect, a mutation or Close, is about to.
THEOREM NoAttemptGoesOnUnnoticed == Spec => []SupersededIsCancelled
<1>1. SessionInv => SupersededIsCancelled
  BY DEF SessionInv, CancelInv
<1>2. QED
  BY <1>1, SessionInvAlways, PTL
=============================================================================
