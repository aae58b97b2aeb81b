----------------------------- MODULE MCPSession -----------------------------
(***************************************************************************)
(* The runtime session of one MCP server: MCPRuntimeManager of             *)
(* internal/mcp/runtime/connection/session_manager.go, and the store       *)
(* mutations of internal/mcp/aggregate/lifecycle.go that invalidate it.    *)
(*                                                                         *)
(* The manager keys all its maps by server and no operation on a server    *)
(* reads another one's entries, so the model follows one server.  Ops are  *)
(* the invocations of the manager's operations; Kind says which operation  *)
(* each one is.  An invocation runs once, in a goroutine of its own, and   *)
(* every critical section of the mutex, every network call and every call  *)
(* into the store is one action: anything may happen between two of them.  *)
(*                                                                         *)
(* A connect invocation owns at most one client, so its name is also the   *)
(* client's, and the name of its entry in the attempts map; a timer is     *)
(* named after the notification that created it.  Clearing the server's    *)
(* approvals touches none of these variables and is part of MCPApproval.   *)
(***************************************************************************)
EXTENDS Naturals

CONSTANTS
    Ops,    \* invocations
    Kind,   \* the operation each invocation is
    NoOp    \* no client, no attempt, no timer

Kinds == {"connect", "disconnect", "refresh", "timer", "notify",
          "updateServer", "updateBundle", "close"}

ASSUME KindType == Kind \in [Ops -> Kinds]
ASSUME NoOpOutside == NoOp \notin Ops

VARIABLES
    \* Fields of the manager, all guarded by its mutex.
    closed,         \* Close has run
    generation,     \* generations[ref]
    session,        \* *sessions[ref], or Absent
    attempt,        \* attempts[ref]: the registered connection attempt
    timer,          \* timers[ref]: the registered debounce timer
    \* What the manager's fields refer to.
    openClients,    \* clients whose connection is open
    cancelled,      \* attempts whose context has been cancelled
    armed,          \* timers that will fire
    \* The world around it.
    storeVersion,   \* version the store resolves the server to
    serverRev,      \* revision of the tool, resource and prompt lists
    \* Local variables of the invocations.
    pc,             \* where each stands
    gen,            \* generation it was given or read
    ver,            \* version it resolved or read
    rev,            \* list revision its discovery returned
    seen,           \* client it read from the session
    closing,        \* client it took out of the session and must close
    cancelling,     \* attempt it must cancel
    stopping,       \* timer it must stop, or that runs it
    attached        \* refreshes still copying the session they looked up

managerVars == <<closed, generation, session, attempt, timer>>
worldVars   == <<storeVersion, serverRev>>
localVars   == <<gen, ver, rev, seen, closing, cancelling, stopping>>
vars == <<managerVars, openClients, cancelled, armed, worldVars, pc, localVars, attached>>

Status == {"absent", "connecting", "ready", "error", "disconnected"}

\* snap is the revision of the discovery snapshot, 0 when it lists nothing; known
\* says whether the session's collection is set; ver is 0 before the commit.
Absent == [status |-> "absent", gen |-> 0, client |-> NoOp, ver |-> 0,
           known |-> FALSE, snap |-> 0]

Session == [status : Status, gen : Nat, client : Ops \cup {NoOp}, ver : Nat,
            known : BOOLEAN, snap : Nat]

PC == {"idle", "detach", "close", "resolve", "announce", "check", "dial",
       "discover", "discoverFailed", "commit", "closeOwn", "finish",
       "fired", "read", "cloning", "resolveAgain", "rediscover", "recommit",
       "remove", "scan", "commitUpdate", "notify", "done"}

TypeOK ==
    /\ closed \in BOOLEAN
    /\ generation \in Nat
    /\ session \in Session
    /\ attempt \in Ops \cup {NoOp}
    /\ timer \in Ops \cup {NoOp}
    /\ openClients \subseteq Ops
    /\ cancelled \subseteq Ops
    /\ armed \subseteq Ops
    /\ storeVersion \in Nat
    /\ serverRev \in Nat
    /\ pc \in [Ops -> PC]
    /\ gen \in [Ops -> Nat]
    /\ ver \in [Ops -> Nat]
    /\ rev \in [Ops -> Nat]
    /\ seen \in [Ops -> Ops \cup {NoOp}]
    /\ closing \in [Ops -> Ops \cup {NoOp}]
    /\ cancelling \in [Ops -> Ops \cup {NoOp}]
    /\ stopping \in [Ops -> Ops \cup {NoOp}]
    /\ attached \subseteq Ops

Init ==
    /\ closed = FALSE
    /\ generation = 0
    /\ session = Absent
    /\ attempt = NoOp
    /\ timer = NoOp
    /\ openClients = {}
    /\ cancelled = {}
    /\ armed = {}
    /\ storeVersion = 1
    /\ serverRev = 1
    /\ pc = [o \in Ops |-> "idle"]
    /\ gen = [o \in Ops |-> 0]
    /\ ver = [o \in Ops |-> 0]
    /\ rev = [o \in Ops |-> 0]
    /\ seen = [o \in Ops |-> NoOp]
    /\ closing = [o \in Ops |-> NoOp]
    /\ cancelling = [o \in Ops |-> NoOp]
    /\ stopping = [o \in Ops |-> NoOp]
    /\ attached = {}

-----------------------------------------------------------------------------
(* Helpers.  The definitions named ..._X are slips a change of the code    *)
(* could make; no action uses them.                                        *)

At(o, here) == pc[o] = here
Goto(o, there) == pc' = [pc EXCEPT ![o] = there]

\* The attempt with generation g still owns the session.
Current(g) == ~closed /\ session.status # "absent" /\ session.gen = g /\ generation = g

WithError_X1(g) ==
    IF session.status = "absent"
      THEN [Absent EXCEPT !.status = "error", !.gen = g]
      ELSE [session EXCEPT !.status = "error"]

WithError_X2(g) == session

\* setErrorIfCurrent.
WithError(g) ==
    IF closed \/ generation # g THEN session
    ELSE IF session.status = "absent"
         THEN [Absent EXCEPT !.status = "error", !.gen = g]
    ELSE IF session.gen = g THEN [session EXCEPT !.status = "error"]
    ELSE session

\* A snapshot outlives its session only until its time to live is over.
Retained == {0, session.snap}

TakeOver_X1(o) ==
    /\ closing' = [closing EXCEPT ![o] = NoOp]
    /\ cancelling' = [cancelling EXCEPT ![o] = attempt]
    /\ stopping' = [stopping EXCEPT ![o] = timer]
    /\ timer' = NoOp
    /\ Goto(o, "detach")

TakeOver_X2(o) ==
    /\ closing' = [closing EXCEPT ![o] = session.client]
    /\ cancelling' = [cancelling EXCEPT ![o] = NoOp]
    /\ stopping' = [stopping EXCEPT ![o] = timer]
    /\ timer' = NoOp
    /\ Goto(o, "detach")

\* The lock section takes the client, the attempt and the timer out of the
\* manager; the invocation disposes of them after the unlock.
TakeOver(o) ==
    /\ closing' = [closing EXCEPT ![o] = session.client]
    /\ cancelling' = [cancelling EXCEPT ![o] = attempt]
    /\ stopping' = [stopping EXCEPT ![o] = timer]
    /\ timer' = NoOp
    /\ Goto(o, "detach")

-----------------------------------------------------------------------------
(* Connect and StartConnect.                                               *)

\* beginConnection: the new attempt replaces the session and keeps its snapshot.
BeginConnection(o) ==
    /\ Kind[o] = "connect"
    /\ At(o, "idle")
    /\ IF closed
         THEN /\ Goto(o, "done")
              /\ UNCHANGED <<managerVars, gen, closing, cancelling, stopping, attached>>
         ELSE /\ generation' = generation + 1
              /\ gen' = [gen EXCEPT ![o] = generation + 1]
              /\ TakeOver(o)
              /\ attempt' = o
              /\ \E snap \in Retained :
                     session' = [status |-> "connecting", gen |-> generation + 1,
                                 client |-> NoOp, ver |-> 0,
                                 known |-> session.known, snap |-> snap]
              /\ attached' = {}
              /\ UNCHANGED closed
    /\ UNCHANGED <<openClients, cancelled, armed, worldVars, ver, rev, seen>>

\* Close cancels the lifecycle context, from which every attempt's derives.
Cancels(o) ==
    IF Kind[o] = "close"
      THEN {c \in Ops : Kind[c] = "connect" /\ pc[c] \notin {"idle", "done"}}
      ELSE {cancelling[o]} \ {NoOp}

\* The attempt and the timer taken over are cancelled and stopped.
Detach(o) ==
    /\ At(o, "detach")
    /\ cancelled' = cancelled \cup Cancels(o)
    /\ armed' = armed \ {stopping[o]}
    /\ Goto(o, "close")
    /\ UNCHANGED <<managerVars, openClients, worldVars, localVars, attached>>

\* The client taken over is closed.  A mutation gives up when that fails.
CloseClient(o) ==
    /\ At(o, "close")
    /\ openClients' = openClients \ {closing[o]}
    /\ CASE Kind[o] = "connect" -> Goto(o, "resolve")
         [] Kind[o] \in {"updateServer", "updateBundle"} ->
                Goto(o, "commitUpdate") \/ Goto(o, "done")
         [] OTHER -> Goto(o, "done")
    /\ UNCHANGED <<managerVars, cancelled, armed, worldVars, localVars, attached>>

\* resolveForConnection reads the store and prepares the authorization.
Resolve(o) ==
    /\ At(o, "resolve")
    /\ ver' = [ver EXCEPT ![o] = storeVersion]
    /\ Goto(o, "announce")
    /\ UNCHANGED <<managerVars, openClients, cancelled, armed, worldVars, attached,
                   gen, rev, seen, closing, cancelling, stopping>>

\* setConnectingCollectionIfCurrent.
Announce(o) ==
    /\ At(o, "announce")
    /\ session' = IF Current(gen[o]) THEN [session EXCEPT !.known = TRUE] ELSE session
    /\ Goto(o, "check")
    /\ UNCHANGED <<closed, generation, attempt, timer, openClients, cancelled, armed,
                   worldVars, localVars, attached>>

\* connectionCurrent.
CheckCurrent(o) ==
    /\ At(o, "check")
    /\ Goto(o, IF Current(gen[o]) THEN "dial" ELSE "finish")
    /\ UNCHANGED <<managerVars, openClients, cancelled, armed, worldVars, localVars, attached>>

\* factory.Connect.
Dial(o) ==
    /\ At(o, "dial")
    /\ openClients' = openClients \cup {o}
    /\ Goto(o, "discover")
    /\ UNCHANGED <<managerVars, cancelled, armed, worldVars, localVars, attached>>

\* Session.Discover logs a list that cannot be read and leaves it empty, as all are
\* when the client has been closed meanwhile: 0 stands for a snapshot of such lists.
Lists(client) == {0} \cup IF client \in openClients THEN {serverRev} ELSE {}

\* client.Discover lists what the server offers now.
Discover(o) ==
    /\ At(o, "discover")
    /\ \E listed \in Lists(o) : rev' = [rev EXCEPT ![o] = listed]
    /\ Goto(o, "commit")
    /\ UNCHANGED <<managerVars, openClients, cancelled, armed, worldVars, attached,
                   gen, ver, seen, closing, cancelling, stopping>>

\* A failed or timed-out discovery closes the attempt's own client first.
DiscoverFails(o) ==
    /\ At(o, "discover")
    /\ openClients' = openClients \ {o}
    /\ Goto(o, "discoverFailed")
    /\ UNCHANGED <<managerVars, cancelled, armed, worldVars, localVars, attached>>

\* Resolution, dialling or discovery failed: the error is recorded on the session
\* if it is still this attempt's.
AttemptFails(o) ==
    /\ pc[o] \in {"resolve", "dial", "discoverFailed"}
    /\ session' = WithError(gen[o])
    /\ Goto(o, "finish")
    /\ UNCHANGED <<closed, generation, attempt, timer, openClients, cancelled, armed,
                   worldVars, localVars, attached>>

\* commitConnection: the session becomes ready unless it was superseded.
CommitConnection(o) ==
    /\ At(o, "commit")
    /\ IF Current(gen[o])
         THEN /\ session' = [status |-> "ready", gen |-> gen[o], client |-> o,
                             ver |-> ver[o], known |-> TRUE, snap |-> rev[o]]
              /\ attached' = {}
              /\ Goto(o, "finish")
         ELSE /\ Goto(o, "closeOwn")
              /\ UNCHANGED <<session, attached>>
    /\ UNCHANGED <<closed, generation, attempt, timer, openClients, cancelled, armed,
                   worldVars, localVars>>

\* A superseded attempt closes the client it opened.
CloseOwn(o) ==
    /\ At(o, "closeOwn")
    /\ openClients' = openClients \ {o}
    /\ Goto(o, "finish")
    /\ UNCHANGED <<managerVars, cancelled, armed, worldVars, localVars, attached>>

\* finishConnectionAttempt.
Finish(o) ==
    /\ At(o, "finish")
    /\ attempt' = IF attempt = o THEN NoOp ELSE attempt
    /\ Goto(o, "done")
    /\ UNCHANGED <<closed, generation, session, timer, openClients, cancelled, armed,
                   worldVars, localVars, attached>>

-----------------------------------------------------------------------------
(* Disconnect, Invalidate and Close.                                       *)

\* disconnectSession changes the session object in place.  A refresh that has
\* looked the object up but not finished copying it (the copy is made outside
\* the lock) may see each field before or after the change.
Disconnect(o) ==
    /\ Kind[o] = "disconnect"
    /\ At(o, "idle")
    /\ generation' = generation + 1
    /\ TakeOver(o)
    /\ attempt' = NoOp
    /\ IF session.status = "absent"
         THEN UNCHANGED session
         ELSE \E snap \in Retained :
                  session' = [session EXCEPT !.status = "disconnected",
                                             !.gen = generation + 1,
                                             !.client = NoOp,
                                             !.snap = snap]
    /\ \E newGen, newClient \in SUBSET attached :
         /\ gen' = [r \in Ops |-> IF r \in newGen THEN generation + 1 ELSE gen[r]]
         /\ seen' = [r \in Ops |-> IF r \in newClient THEN NoOp ELSE seen[r]]
    /\ UNCHANGED <<closed, openClients, cancelled, armed, worldVars, ver, rev, attached>>

\* removeSession, for a mutation and for a refresh that found a new version.
RemoveSession(o) ==
    /\ At(o, "remove")
    /\ generation' = generation + 1
    /\ TakeOver(o)
    /\ attempt' = NoOp
    /\ session' = Absent
    /\ attached' = {}
    /\ UNCHANGED <<closed, openClients, cancelled, armed, worldVars, gen, ver, rev, seen>>

\* Close.
CloseManager(o) ==
    /\ Kind[o] = "close"
    /\ At(o, "idle")
    /\ IF closed
         THEN /\ Goto(o, "done")
              /\ UNCHANGED <<managerVars, closing, cancelling, stopping, attached>>
         ELSE /\ closed' = TRUE
              /\ generation' = IF session.status = "absent" THEN generation ELSE generation + 1
              /\ TakeOver(o)
              /\ attempt' = NoOp
              /\ session' = Absent
              /\ attached' = {}
    /\ UNCHANGED <<openClients, cancelled, armed, worldVars, gen, ver, rev, seen>>

-----------------------------------------------------------------------------
(* Refresh, explicit or run by the debounce timer.                         *)

\* A notification timer fires and starts a goroutine.
TimerFires(o) ==
    /\ Kind[o] = "timer"
    /\ At(o, "idle")
    /\ \E t \in armed :
         /\ armed' = armed \ {t}
         /\ stopping' = [stopping EXCEPT ![o] = t]
    /\ Goto(o, "fired")
    /\ UNCHANGED <<managerVars, openClients, cancelled, worldVars, attached,
                   gen, ver, rev, seen, closing, cancelling>>

\* The goroutine unregisters the timer unless another one took its place.
TimerRuns(o) ==
    /\ At(o, "fired")
    /\ timer' = IF timer = stopping[o] THEN NoOp ELSE timer
    /\ Goto(o, "read")
    /\ UNCHANGED <<closed, generation, session, attempt, openClients, cancelled, armed,
                   worldVars, localVars, attached>>

\* session(ref): the pointer is read under the lock.
LookUp(o) ==
    /\ IF session.status = "absent"
         THEN /\ Goto(o, "done")
              /\ UNCHANGED <<gen, ver, seen, attached>>
         ELSE /\ gen' = [gen EXCEPT ![o] = session.gen]
              /\ ver' = [ver EXCEPT ![o] = session.ver]
              /\ seen' = [seen EXCEPT ![o] = session.client]
              /\ attached' = attached \cup {o}
              /\ Goto(o, "cloning")
    /\ UNCHANGED <<managerVars, openClients, cancelled, armed, worldVars,
                   rev, closing, cancelling, stopping>>

StartRefresh(o) == Kind[o] = "refresh" /\ At(o, "idle") /\ LookUp(o)

TimerRefreshes(o) == At(o, "read") /\ LookUp(o)

\* The copy is complete; a session without a client cannot be refreshed.
RefreshCopied(o) ==
    /\ At(o, "cloning")
    /\ attached' = attached \ {o}
    /\ Goto(o, IF seen[o] = NoOp THEN "done" ELSE "resolveAgain")
    /\ UNCHANGED <<managerVars, openClients, cancelled, armed, worldVars, localVars>>

\* The server is resolved in full again; a new version makes the session obsolete.
RefreshResolves(o) ==
    /\ At(o, "resolveAgain")
    /\ Goto(o, IF storeVersion = ver[o] THEN "rediscover" ELSE "remove")
    /\ UNCHANGED <<managerVars, openClients, cancelled, armed, worldVars, localVars, attached>>

RefreshDiscovers(o) ==
    /\ At(o, "rediscover")
    /\ \E listed \in Lists(seen[o]) : rev' = [rev EXCEPT ![o] = listed]
    /\ Goto(o, "recommit")
    /\ UNCHANGED <<managerVars, openClients, cancelled, armed, worldVars, attached,
                   gen, ver, seen, closing, cancelling, stopping>>

RefreshFails(o) ==
    /\ pc[o] \in {"resolveAgain", "rediscover"}
    /\ session' = WithError(gen[o])
    /\ Goto(o, "done")
    /\ UNCHANGED <<closed, generation, attempt, timer, openClients, cancelled, armed,
                   worldVars, localVars, attached>>

SameSession_X(o) == session.status # "absent"

\* The session is still the one the refresh read.
SameSession(o) ==
    /\ session.status # "absent"
    /\ generation = gen[o]
    /\ session.gen = gen[o]
    /\ session.client = seen[o]
    /\ session.ver = ver[o]

\* The result replaces the snapshot of that session only.
RefreshCommits(o) ==
    /\ At(o, "recommit")
    /\ session' = IF SameSession(o)
                    THEN [session EXCEPT !.status = "ready", !.snap = rev[o]]
                    ELSE session
    /\ Goto(o, "done")
    /\ UNCHANGED <<closed, generation, attempt, timer, openClients, cancelled, armed,
                   worldVars, localVars, attached>>

-----------------------------------------------------------------------------
(* Notifications and store mutations.                                      *)

\* The MCP server changes its lists and notifies its connected clients.
ListsChange(o) ==
    /\ Kind[o] = "notify"
    /\ At(o, "idle")
    /\ serverRev' = serverRev + 1
    /\ Goto(o, IF openClients = {} THEN "done" ELSE "notify")
    /\ UNCHANGED <<managerVars, openClients, cancelled, armed, storeVersion, localVars, attached>>

\* scheduleRefresh: one timer per server, restarted by further notifications.
ScheduleRefresh(o) ==
    /\ At(o, "notify")
    /\ Goto(o, "done")
    /\ IF closed THEN UNCHANGED <<timer, armed>>
       ELSE /\ timer' = IF timer = NoOp THEN o ELSE timer
            /\ armed' = armed \cup {timer'}
    /\ UNCHANGED <<closed, generation, session, attempt, openClients, cancelled, worldVars,
                   localVars, attached>>

\* A mutation is prepared against the version it read...
PrepareUpdate(o) ==
    /\ Kind[o] \in {"updateServer", "updateBundle"}
    /\ At(o, "idle")
    /\ ver' = [ver EXCEPT ![o] = storeVersion]
    /\ Goto(o, IF Kind[o] = "updateServer" THEN "remove" ELSE "scan")
    /\ UNCHANGED <<managerVars, openClients, cancelled, armed, worldVars, attached,
                   gen, rev, seen, closing, cancelling, stopping>>

\* ... InvalidateCollection looks for sessions that name the collection ...
ScanCollection(o) ==
    /\ At(o, "scan")
    /\ Goto(o, IF session.known THEN "remove" ELSE "commitUpdate")
    /\ UNCHANGED <<managerVars, openClients, cancelled, armed, worldVars, localVars, attached>>

\* ... and the commit comes last; it fails when the version has moved on.
CommitUpdate(o) ==
    /\ At(o, "commitUpdate")
    /\ \/ storeVersion = ver[o] /\ storeVersion' = storeVersion + 1
       \/ UNCHANGED storeVersion
    /\ Goto(o, "done")
    /\ UNCHANGED <<managerVars, openClients, cancelled, armed, serverRev, localVars, attached>>

-----------------------------------------------------------------------------
Start(o) ==
    \/ BeginConnection(o) \/ Disconnect(o) \/ CloseManager(o)
    \/ StartRefresh(o)
    \/ ListsChange(o) \/ PrepareUpdate(o)

Continue(o) ==
    \/ Detach(o) \/ CloseClient(o)
    \/ Resolve(o) \/ Announce(o) \/ CheckCurrent(o) \/ Dial(o)
    \/ Discover(o) \/ DiscoverFails(o) \/ AttemptFails(o)
    \/ CommitConnection(o) \/ CloseOwn(o) \/ Finish(o)
    \/ RemoveSession(o)
    \/ TimerRuns(o) \/ TimerRefreshes(o)
    \/ RefreshCopied(o) \/ RefreshResolves(o) \/ RefreshDiscovers(o)
    \/ RefreshFails(o) \/ RefreshCommits(o)
    \/ ScheduleRefresh(o) \/ ScanCollection(o) \/ CommitUpdate(o)

Next == \E o \in Ops : Start(o) \/ TimerFires(o) \/ Continue(o)

Spec == Init /\ [][Next]_vars

\* A goroutine that has started goes on: network calls end, by their result or by
\* their timeout.  An armed timer fires.  Nobody has to call the manager.
Fairness ==
    /\ \A o \in Ops : WF_vars(Continue(o))
    /\ WF_vars(\E o \in Ops : TimerFires(o))

-----------------------------------------------------------------------------
(* Properties.                                                             *)

\* The session in the map always carries the latest generation, and a closed
\* manager has none: no late step of a superseded attempt, refresh or error has
\* put back a session that something newer replaced or removed.
SessionIsCurrent ==
    session.status # "absent" => ~closed /\ session.gen = generation

\* A client still owned by the attempt that opened it.
OwnedByAttempt(c) == pc[c] \in {"discover", "commit", "closeOwn"}

\* A client some invocation has taken out of the session and is about to close.
AboutToClose(c) == \E o \in Ops : pc[o] \in {"detach", "close"} /\ closing[o] = c

\* No connection leaks: every open client is the session's, belongs to an attempt
\* still running, or is about to be closed.
OpenClientsAreOwned ==
    \A c \in openClients : session.client = c \/ OwnedByAttempt(c) \/ AboutToClose(c)

\* A ready session's client is open: nobody closes a client and leaves it in use.
ReadySessionIsOpen ==
    /\ session.status = "ready" => session.client # NoOp
    /\ session.client # NoOp => session.client \in openClients

\* An attempt that lost the session does not go on unnoticed: its context has
\* been cancelled, or the invocation that took over is about to cancel it.
SupersededIsCancelled ==
    \A c \in Ops :
        /\ Kind[c] = "connect"
        /\ pc[c] \notin {"idle", "finish", "done"}
        /\ closed \/ gen[c] # generation
        => \/ c \in cancelled
           \/ \E o \in Ops : At(o, "detach") /\ c \in Cancels(o)

\* A session does not stay in the connecting state.
ConnectingEnds ==
    session.status = "connecting" ~> session.status # "connecting"

\* Once Close has been called every client is closed and none is opened for good,
\* whatever attempts were under way.
ClosedManagerReleasesClients ==
    closed ~> [](openClients = {})
=============================================================================
