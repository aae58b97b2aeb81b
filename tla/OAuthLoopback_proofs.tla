------------------------ MODULE OAuthLoopback_proofs ------------------------
(***************************************************************************)
(* The broker's maps, for any fetches, servers and states: they agree, and *)
(* no fetch waits in vain.                                                 *)
(***************************************************************************)
EXTENDS OAuthLoopback, TLAPS

\* Only waiting and leaving fetches are registered, a registered fetch has no
\* result yet, and neither has one that is not yet registered.
PlaceInv ==
    \A f \in Fetches :
        /\ Pending(f) => pc[f] \in {"waiting", "leaving"} /\ resultCh[f] = "empty"
        /\ pc[f] \in {"idle", "checked"} => resultCh[f] = "empty"

LoopbackInv == TypeOK /\ PendingMapsAgree /\ WaiterIsServed /\ PlaceInv

\* The broker begins with its invariant.
LEMMA LoopbackInit == Init => LoopbackInv
<1> SUFFICES ASSUME Init PROVE LoopbackInv
  OBVIOUS
<1>1. TypeOK
  BY DEF Init, TypeOK, Answers
<1>2. \A f \in Fetches : ~Pending(f) /\ pc[f] = "idle" /\ resultCh[f] = "empty"
  BY ServerOfType, NoFetchOutside DEF Init, Pending
<1>3. PendingMapsAgree
  BY DEF Init, PendingMapsAgree
<1>4. QED
  BY <1>1, <1>2, <1>3 DEF LoopbackInv, WaiterIsServed, PlaceInv

\* Taking out registered fetches, and them only, keeps the maps in agreement.
LEMMA RemovalKeepsAgreement ==
    ASSUME TypeOK, PendingMapsAgree, NEW done \in SUBSET AllPending,
           pendingByServer' = ServersWithout(done), pendingByState' = StatesWithout(done)
    PROVE  /\ PendingMapsAgree'
           /\ \A f \in Fetches : Pending(f)' <=> Pending(f) /\ f \notin done
           /\ pendingByServer' \in [Servers -> Fetches \cup {NoFetch}]
           /\ pendingByState' \in [States -> Fetches \cup {NoFetch}]
<1> USE ServerOfType, StateOfType, NoFetchOutside
<1>1. /\ pendingByServer' \in [Servers -> Fetches \cup {NoFetch}]
      /\ pendingByState' \in [States -> Fetches \cup {NoFetch}]
  BY DEF TypeOK, ServersWithout, StatesWithout
<1>2. \A f \in done : f \in Fetches /\ Pending(f) /\ pendingByState[StateOf[f]] = f
  BY DEF AllPending, Pending, PendingMapsAgree
<1>3. \A s \in Servers : pendingByServer'[s] # NoFetch =>
         pendingByServer'[s] = pendingByServer[s] /\ pendingByServer[s] \notin done
  BY <1>2 DEF ServersWithout, PendingMapsAgree, TypeOK
<1>4. \A t \in States : pendingByState'[t] # NoFetch =>
         pendingByState'[t] = pendingByState[t] /\ pendingByState[t] \notin done
  BY <1>2 DEF StatesWithout, PendingMapsAgree, TypeOK
<1>5. \A f \in Fetches : Pending(f) /\ f \notin done =>
         pendingByServer'[ServerOf[f]] = f /\ pendingByState'[StateOf[f]] = f
  BY <1>2 DEF ServersWithout, StatesWithout, Pending, PendingMapsAgree, TypeOK
<1>6. \A f \in Fetches : Pending(f)' <=> Pending(f) /\ f \notin done
  BY <1>3, <1>5 DEF Pending
<1>7. PendingMapsAgree'
  BY <1>1, <1>3, <1>4, <1>5 DEF PendingMapsAgree, Pending, TypeOK
<1>8. QED
  BY <1>1, <1>6, <1>7

\* Completing registered fetches preserves the invariant.
LEMMA CompleteKeeps ==
    ASSUME LoopbackInv, NEW done \in SUBSET AllPending, NEW answer \in Answers,
           Complete(done, answer),
           UNCHANGED <<pc, outcome>>, closed' \in BOOLEAN, serveErr' \in BOOLEAN,
           UNCHANGED <<listener, expired>>
    PROVE  LoopbackInv'
<1>1. /\ PendingMapsAgree'
      /\ \A f \in Fetches : Pending(f)' <=> Pending(f) /\ f \notin done
      /\ pendingByServer' \in [Servers -> Fetches \cup {NoFetch}]
      /\ pendingByState' \in [States -> Fetches \cup {NoFetch}]
  BY RemovalKeepsAgreement DEF LoopbackInv, Complete
<1>2. resultCh' \in [Fetches -> Answers \cup {"empty"}]
  BY DEF LoopbackInv, TypeOK, Complete, Sent
<1>3. \A f \in Fetches :
         /\ f \in done => Pending(f) /\ resultCh'[f] = answer /\ resultCh[f] = "empty"
         /\ f \notin done => resultCh'[f] = resultCh[f]
  BY DEF LoopbackInv, PlaceInv, Complete, Sent, AllPending
<1>4. answer # "empty"
  BY DEF Answers
<1>5. WaiterIsServed' /\ PlaceInv'
  BY <1>1, <1>3, <1>4 DEF LoopbackInv, WaiterIsServed, PlaceInv
<1>6. QED
  BY <1>1, <1>2, <1>5 DEF LoopbackInv, TypeOK

-----------------------------------------------------------------------------
\* Registering replaces exactly the registered fetches it completes.
LEMMA RegisterKeeps ==
    ASSUME LoopbackInv, NEW f \in Fetches, Register(f) PROVE LoopbackInv'
<1> USE ServerOfType, StateOfType, NoFetchOutside DEF LoopbackInv
<1>1. PICK purged \in SUBSET (expired \cap AllPending) :
        /\ pendingByServer' = [ServersWithout(purged \cup Superseded(f)) EXCEPT ![ServerOf[f]] = f]
        /\ pendingByState' = [StatesWithout(purged \cup Superseded(f)) EXCEPT ![StateOf[f]] = f]
        /\ resultCh' = Sent(purged \cup Superseded(f), "error")
  BY DEF Register
<1> DEFINE done == purged \cup Superseded(f)
<1>2. /\ pc[f] = "checked" /\ pc' = [pc EXCEPT ![f] = "waiting"]
      /\ UNCHANGED <<closed, serveErr, listener, expired, outcome>>
  BY DEF Register
<1>3. done \subseteq AllPending /\ AllPending \subseteq Fetches
  BY DEF Superseded, AllPending
<1>4. f \notin done /\ resultCh[f] = "empty" /\ ~Pending(f)
  BY <1>2, <1>3 DEF PlaceInv, AllPending
<1>5. \A g \in AllPending : g \notin done => ServerOf[g] # ServerOf[f] /\ StateOf[g] # StateOf[f]
  BY DEF Superseded
<1>6. \A g \in Fetches :
        /\ g \in done => resultCh'[g] = "error" /\ resultCh[g] = "empty"
        /\ g \notin done => resultCh'[g] = resultCh[g]
  BY <1>1, <1>3 DEF Sent, PlaceInv, AllPending
<1>7. /\ pendingByServer' \in [Servers -> Fetches \cup {NoFetch}]
      /\ pendingByState' \in [States -> Fetches \cup {NoFetch}]
      /\ pendingByServer'[ServerOf[f]] = f
      /\ pendingByState'[StateOf[f]] = f
  BY <1>1 DEF ServersWithout, StatesWithout, TypeOK
<1>8. \A g \in Fetches \ {f} : Pending(g)' <=> Pending(g) /\ g \notin done
  <2> SUFFICES ASSUME NEW g \in Fetches \ {f} PROVE Pending(g)' <=> Pending(g) /\ g \notin done
    OBVIOUS
  <2>1. CASE ServerOf[g] = ServerOf[f]
    BY <1>5, <1>7, <2>1 DEF Pending, AllPending
  <2>2. CASE ServerOf[g] # ServerOf[f]
    <3>1. pendingByServer'[ServerOf[g]] = ServersWithout(done)[ServerOf[g]]
      BY <1>1, <2>2 DEF ServersWithout
    <3>2. \A h \in done : ServerOf[h] = ServerOf[g] => pendingByServer[ServerOf[g]] = h
      BY <1>3 DEF AllPending, Pending
    <3>3. QED
      BY <3>1, <3>2 DEF ServersWithout, Pending
  <2>3. QED
    BY <2>1, <2>2
<1>9. PendingMapsAgree'
  <2>1. \A s \in Servers : pendingByServer'[s] \notin {f, NoFetch} =>
           pendingByServer'[s] = pendingByServer[s] /\ pendingByServer[s] \notin done
    BY <1>1, <1>3, <1>7 DEF ServersWithout, PendingMapsAgree, TypeOK
  <2>2. \A t \in States : pendingByState'[t] \notin {f, NoFetch} =>
           /\ pendingByState'[t] = pendingByState[t]
           /\ pendingByState[t] \notin done
           /\ pendingByState[t] \in AllPending
    BY <1>1, <1>3, <1>7 DEF StatesWithout, PendingMapsAgree, TypeOK, AllPending, Pending
  <2>3. \A g \in AllPending : g \notin done =>
           pendingByServer'[ServerOf[g]] = g /\ pendingByState'[StateOf[g]] = g
    <3> SUFFICES ASSUME NEW g \in AllPending, g \notin done
                 PROVE  pendingByServer'[ServerOf[g]] = g /\ pendingByState'[StateOf[g]] = g
      OBVIOUS
    <3>1. pendingByState[StateOf[g]] = g /\ g \in Fetches /\ Pending(g)
      BY DEF AllPending, Pending, PendingMapsAgree
    <3>2. \A h \in done : StateOf[h] # StateOf[g] /\ ServerOf[h] # ServerOf[g]
      BY <1>3, <3>1 DEF AllPending, Pending, PendingMapsAgree
    <3>3. StateOf[g] # StateOf[f] /\ ServerOf[g] # ServerOf[f]
      BY <1>5
    <3>4. QED
      BY <1>1, <3>1, <3>2, <3>3 DEF ServersWithout, StatesWithout, Pending, TypeOK
  <2>4. \A s \in Servers : pendingByServer'[s] = f => s = ServerOf[f]
    BY <1>1, <1>4 DEF ServersWithout, PendingMapsAgree, Pending, TypeOK
  <2>5. \A t \in States : pendingByState'[t] = f => t = StateOf[f]
    BY <1>1, <1>4 DEF StatesWithout, PendingMapsAgree, Pending, TypeOK
  <2>6. \A s \in Servers : pendingByServer[s] # NoFetch => pendingByServer[s] \in AllPending
    BY DEF PendingMapsAgree, AllPending, Pending, TypeOK
  <2>7. QED
    BY <1>7, <2>1, <2>2, <2>3, <2>4, <2>5, <2>6 DEF PendingMapsAgree, TypeOK
<1>10. TypeOK'
  BY <1>1, <1>2, <1>7 DEF TypeOK, Sent, Answers
<1>11. WaiterIsServed' /\ PlaceInv'
  <2>1. Pending(f)' /\ pc'[f] = "waiting" /\ resultCh'[f] = "empty"
    BY <1>2, <1>4, <1>6, <1>7 DEF Pending, TypeOK
  <2>2. \A g \in Fetches \ {f} : pc'[g] = pc[g]
    BY <1>2 DEF TypeOK
  <2>3. \A g \in done : Pending(g)
    BY <1>3 DEF AllPending
  <2>4. \A g \in Fetches \ {f} :
          /\ pc'[g] = "waiting" => (Pending(g)' <=> resultCh'[g] = "empty")
          /\ Pending(g)' => pc'[g] \in {"waiting", "leaving"} /\ resultCh'[g] = "empty"
          /\ pc'[g] \in {"idle", "checked"} => resultCh'[g] = "empty"
    BY <1>6, <1>8, <2>2, <2>3 DEF WaiterIsServed, PlaceInv
  <2>5. QED
    BY <2>1, <2>4 DEF WaiterIsServed, PlaceInv
<1>12. QED
  BY <1>9, <1>10, <1>11

\* Every step preserves the invariant.
LEMMA LoopbackStep == LoopbackInv /\ [Next]_vars => LoopbackInv'
<1> SUFFICES ASSUME LoopbackInv, [Next]_vars PROVE LoopbackInv'
  OBVIOUS
<1> USE DEF LoopbackInv, TypeOK, PendingMapsAgree, WaiterIsServed, PlaceInv, Pending
<1>1. ASSUME NEW f \in Fetches, CheckReadiness(f) PROVE LoopbackInv'
  BY <1>1 DEF CheckReadiness, Returns, Answers
<1>2. ASSUME NEW f \in Fetches, Register(f) PROVE LoopbackInv'
  BY <1>2, RegisterKeeps
<1>3. ASSUME NEW f \in Fetches, ReceiveResult(f) PROVE LoopbackInv'
  BY <1>3 DEF ReceiveResult, Returns
<1>4. ASSUME NEW f \in Fetches, ContextEnds(f) PROVE LoopbackInv'
  BY <1>4 DEF ContextEnds
<1>5. ASSUME NEW f \in Fetches, RemoveIfCurrent(f) PROVE LoopbackInv'
  <2>1. Leavers(f) \in SUBSET AllPending
    BY DEF Leavers
  <2>2. /\ pendingByServer' = ServersWithout(Leavers(f))
        /\ pendingByState' = StatesWithout(Leavers(f))
    BY <1>5 DEF RemoveIfCurrent
  <2>3. /\ PendingMapsAgree'
        /\ \A g \in Fetches : Pending(g)' <=> Pending(g) /\ g \notin Leavers(f)
        /\ pendingByServer' \in [Servers -> Fetches \cup {NoFetch}]
        /\ pendingByState' \in [States -> Fetches \cup {NoFetch}]
    BY ONLY LoopbackInv, <2>1, <2>2, RemovalKeepsAgreement DEF LoopbackInv
  <2>4. /\ pc[f] = "leaving" /\ pc' = [pc EXCEPT ![f] = "done"]
        /\ outcome' = [outcome EXCEPT ![f] = "error"]
        /\ UNCHANGED <<closed, serveErr, listener, resultCh, expired>>
    BY <1>5 DEF RemoveIfCurrent, Returns
  <2>5. \A g \in Fetches : g \in Leavers(f) <=> g = f /\ Pending(f)
    BY DEF Leavers, AllPending
  <2>6. WaiterIsServed' /\ PlaceInv'
    BY <2>3, <2>4, <2>5
  <2>7. QED
    BY <2>3, <2>4, <2>6 DEF Answers
<1>6. ASSUME NEW t \in States, NEW answer \in Answers, Callback(t, answer) PROVE LoopbackInv'
  <2>1. pendingByState[t] \in AllPending
    BY <1>6 DEF Callback, AllPending
  <2>2. PICK done \in SUBSET AllPending, given \in Answers : Complete(done, given)
    BY <1>6, <2>1 DEF Callback, Answers
  <2>3. UNCHANGED <<closed, serveErr, listener, expired, pc, outcome>>
    BY <1>6 DEF Callback
  <2>4. QED
    BY <2>2, <2>3, CompleteKeeps
<1>7. ASSUME NEW s \in Servers, Cancel(s) PROVE LoopbackInv'
  <2>1. {pendingByServer[s]} \in SUBSET AllPending /\ "error" \in Answers
    BY <1>7 DEF Cancel, AllPending, Answers
  <2>2. QED
    BY <1>7, <2>1, CompleteKeeps DEF Cancel
<1>8. ASSUME ListPending PROVE LoopbackInv'
  <2>1. PICK purged \in SUBSET AllPending : Complete(purged, "error")
    BY <1>8 DEF ListPending
  <2>2. "error" \in Answers
    BY DEF Answers
  <2>3. QED
    BY <1>8, <2>1, <2>2, CompleteKeeps DEF ListPending
<1>9. ASSUME Close \/ RecordServeError PROVE LoopbackInv'
  <2>1. AllPending \in SUBSET AllPending /\ "error" \in Answers
    BY DEF Answers
  <2>2. QED
    BY <1>9, <2>1, CompleteKeeps DEF Close, RecordServeError
<1>10. ASSUME Shutdown \/ ListenerFails PROVE LoopbackInv'
  BY <1>10 DEF Shutdown, ListenerFails
<1>11. ASSUME NEW f \in Fetches, Expire(f) PROVE LoopbackInv'
  BY <1>11 DEF Expire
<1>12. CASE UNCHANGED vars
  BY <1>12 DEF vars
<1>13. QED
  BY <1>1, <1>2, <1>3, <1>4, <1>5, <1>6, <1>7, <1>8, <1>9, <1>10, <1>11, <1>12
     DEF Next, Fetch, Broker, TimerFires

\* The inductive invariant of the broker.
LEMMA LoopbackInvAlways == Spec => []LoopbackInv
  BY LoopbackInit, LoopbackStep, PTL DEF Spec

\* Every variable of the broker keeps its type.
THEOREM TypeCorrect == Spec => []TypeOK
<1>1. LoopbackInv => TypeOK
  BY DEF LoopbackInv
<1>2. QED
  BY <1>1, LoopbackInvAlways, PTL

\* For any number of fetches, servers and states, colliding or not, the broker's
\* two maps list the same fetches between any two critical sections.
THEOREM MapsAgree == Spec => []PendingMapsAgree
<1>1. LoopbackInv => PendingMapsAgree
  BY DEF LoopbackInv
<1>2. QED
  BY <1>1, LoopbackInvAlways, PTL

\* No fetch waits in vain, and none is answered twice.
THEOREM LoopbackCorrect == Spec => []WaiterIsServed
<1>1. LoopbackInv => WaiterIsServed
  BY DEF LoopbackInv
<1>2. QED
  BY <1>1, LoopbackInvAlways, PTL

\* Nothing in the broker refers to a fetch that has returned: a late callback, a
\* cancellation or a purge finds nothing to answer.
THEOREM NothingRefersToReturned == Spec => []ReturnedIsForgotten
<1>1. LoopbackInv => ReturnedIsForgotten
  BY NoFetchOutside, ServerOfType, StateOfType
     DEF LoopbackInv, PlaceInv, ReturnedIsForgotten, PendingMapsAgree, Pending, TypeOK
<1>2. QED
  BY <1>1, LoopbackInvAlways, PTL
=============================================================================
