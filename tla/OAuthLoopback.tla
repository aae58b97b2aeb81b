---------------------------- MODULE OAuthLoopback ----------------------------
(***************************************************************************)
(* The loopback broker of the MCP OAuth flow: OAuthLoopbackBroker of       *)
(* internal/mcp/runtime/auth/oauth_loopback_broker.go.                     *)
(*                                                                         *)
(* A fetch is one call of FetchAuthorizationCode.  It registers itself     *)
(* under its server and under the state parameter of its authorization     *)
(* URL, and waits for the browser's callback, a cancellation, its context  *)
(* or its time to live.  Each section of the broker's mutex is one action; *)
(* the select of a waiting fetch and what it does afterwards are two.      *)
(***************************************************************************)
CONSTANTS
    Fetches,    \* calls of FetchAuthorizationCode
    Servers,    \* MCP servers
    States,     \* values of the state parameter
    ServerOf,   \* the server a fetch is for
    StateOf,    \* the state in its authorization URL
    NoFetch

ASSUME ServerOfType == ServerOf \in [Fetches -> Servers]
ASSUME StateOfType == StateOf \in [Fetches -> States]
ASSUME NoFetchOutside == NoFetch \notin Fetches

VARIABLES
    pendingByServer,    \* fields of the broker, guarded by its mutex
    pendingByState,
    closed,
    serveErr,           \* the listener has failed and this is recorded
    listener,           \* the HTTP server: "serving", "failed" or "stopped"
    resultCh,           \* the fetch's result channel, which holds one result
    expired,            \* fetches whose ExpiresAt has passed
    pc,                 \* where each fetch stands
    outcome             \* what it returned

vars == <<pendingByServer, pendingByState, closed, serveErr, listener,
          resultCh, expired, pc, outcome>>

Answers == {"code", "error"}

TypeOK ==
    /\ pendingByServer \in [Servers -> Fetches \cup {NoFetch}]
    /\ pendingByState \in [States -> Fetches \cup {NoFetch}]
    /\ closed \in BOOLEAN
    /\ serveErr \in BOOLEAN
    /\ listener \in {"serving", "failed", "stopped"}
    /\ resultCh \in [Fetches -> Answers \cup {"empty"}]
    /\ expired \subseteq Fetches
    /\ pc \in [Fetches -> {"idle", "checked", "waiting", "leaving", "done"}]
    /\ outcome \in [Fetches -> Answers \cup {"none"}]

Init ==
    /\ pendingByServer = [s \in Servers |-> NoFetch]
    /\ pendingByState = [t \in States |-> NoFetch]
    /\ closed = FALSE
    /\ serveErr = FALSE
    /\ listener = "serving"
    /\ resultCh = [f \in Fetches |-> "empty"]
    /\ expired = {}
    /\ pc = [f \in Fetches |-> "idle"]
    /\ outcome = [f \in Fetches |-> "none"]

-----------------------------------------------------------------------------
Pending(f) == pendingByServer[ServerOf[f]] = f

AllPending == {f \in Fetches : Pending(f)}

\* removeLocked deletes by key, whoever the entries belong to.
ServersWithout(done) ==
    [s \in Servers |-> IF \E f \in done : ServerOf[f] = s THEN NoFetch ELSE pendingByServer[s]]
StatesWithout(done) ==
    [t \in States |-> IF \E f \in done : StateOf[f] = t THEN NoFetch ELSE pendingByState[t]]

\* The channel takes one result; another one is dropped.
Sent(done, answer) ==
    [f \in Fetches |-> IF f \in done /\ resultCh[f] = "empty" THEN answer ELSE resultCh[f]]

\* completeLocked, for each fetch of a set.
Complete(done, answer) ==
    /\ pendingByServer' = ServersWithout(done)
    /\ pendingByState' = StatesWithout(done)
    /\ resultCh' = Sent(done, answer)

Returns(f, result) ==
    /\ pc' = [pc EXCEPT ![f] = "done"]
    /\ outcome' = [outcome EXCEPT ![f] = result]

-----------------------------------------------------------------------------
(* FetchAuthorizationCode.  A definition named ..._X is a slip a change of *)
(* the code could make; no action uses it.                                 *)

\* The broker must be ready and the URL must name a state; the lock is released
\* after the first question.
CheckReadiness(f) ==
    /\ pc[f] = "idle"
    /\ \/ Returns(f, "error")
       \/ /\ ~closed /\ ~serveErr
          /\ pc' = [pc EXCEPT ![f] = "checked"]
          /\ UNCHANGED outcome
    /\ UNCHANGED <<pendingByServer, pendingByState, closed, serveErr, listener,
                   resultCh, expired>>

Superseded_X(f) == {g \in AllPending : ServerOf[g] = ServerOf[f]}

\* Fetches the new one replaces: of the same server, or with the same state.
Superseded(f) ==
    {g \in AllPending : ServerOf[g] = ServerOf[f] \/ StateOf[g] = StateOf[f]}

\* Expired fetches are purged first, as of a time read before the lock was taken.
Register(f) ==
    /\ pc[f] = "checked"
    /\ \E purged \in SUBSET (expired \cap AllPending) :
         LET done == purged \cup Superseded(f)
         IN  /\ pendingByServer' = [ServersWithout(done) EXCEPT ![ServerOf[f]] = f]
             /\ pendingByState' = [StatesWithout(done) EXCEPT ![StateOf[f]] = f]
             /\ resultCh' = Sent(done, "error")
    /\ pc' = [pc EXCEPT ![f] = "waiting"]
    /\ UNCHANGED <<closed, serveErr, listener, expired, outcome>>

\* The select: a result is received ...
ReceiveResult(f) ==
    /\ pc[f] = "waiting"
    /\ resultCh[f] # "empty"
    /\ Returns(f, resultCh[f])
    /\ UNCHANGED <<pendingByServer, pendingByState, closed, serveErr, listener,
                   resultCh, expired>>

\* ... or the caller's context ends, or the timer fires; each may be chosen when
\* a result is there as well.
ContextEnds(f) ==
    /\ pc[f] = "waiting"
    /\ pc' = [pc EXCEPT ![f] = "leaving"]
    /\ UNCHANGED <<pendingByServer, pendingByState, closed, serveErr, listener,
                   resultCh, expired, outcome>>

Overdue_X(f) == FALSE

Overdue(f) == f \in expired

TimerFires(f) == Overdue(f) /\ ContextEnds(f)

Leavers_X1(f) == {f}

\* What a leaving fetch takes out of the maps: itself, if it is still the one
\* registered for its server.
Leavers(f) == {f} \cap AllPending

\* removeIfCurrent.
RemoveIfCurrent(f) ==
    /\ pc[f] = "leaving"
    /\ pendingByServer' = ServersWithout(Leavers(f))
    /\ pendingByState' = StatesWithout(Leavers(f))
    /\ Returns(f, "error")
    /\ UNCHANGED <<closed, serveErr, listener, resultCh, expired>>

-----------------------------------------------------------------------------
(* The other operations of the broker, and the clock.                      *)

\* ServeHTTP: a callback with a code or an error for a state that is pending.
\* Callbacks with an unknown state or without a code change nothing.  A request
\* accepted before the listener stopped may be handled after it.
Callback(t, answer) ==
    /\ pendingByState[t] # NoFetch
    /\ LET f == pendingByState[t]
       IN  Complete({f}, IF f \in expired THEN "error" ELSE answer)
    /\ UNCHANGED <<closed, serveErr, listener, expired, pc, outcome>>

Cancel(s) ==
    /\ pendingByServer[s] # NoFetch
    /\ Complete({pendingByServer[s]}, "error")
    /\ UNCHANGED <<closed, serveErr, listener, expired, pc, outcome>>

\* Pending lists the authorizations after purging the expired ones.
ListPending ==
    /\ \E purged \in SUBSET (expired \cap AllPending) : Complete(purged, "error")
    /\ UNCHANGED <<closed, serveErr, listener, expired, pc, outcome>>

Close ==
    /\ ~closed
    /\ closed' = TRUE
    /\ Complete(AllPending, "error")
    /\ UNCHANGED <<serveErr, listener, expired, pc, outcome>>

\* Close shuts the HTTP server down after the unlock.
Shutdown ==
    /\ closed
    /\ listener = "serving"
    /\ listener' = "stopped"
    /\ UNCHANGED <<pendingByServer, pendingByState, closed, serveErr,
                   resultCh, expired, pc, outcome>>

ListenerFails ==
    /\ listener = "serving"
    /\ listener' = "failed"
    /\ UNCHANGED <<pendingByServer, pendingByState, closed, serveErr,
                   resultCh, expired, pc, outcome>>

\* The goroutine that served records the failure and fails what is pending.
RecordServeError ==
    /\ listener = "failed"
    /\ ~serveErr
    /\ serveErr' = TRUE
    /\ Complete(AllPending, "error")
    /\ UNCHANGED <<closed, listener, expired, pc, outcome>>

\* A fetch's deadline is fixed before it registers.
Expire(f) ==
    /\ pc[f] \in {"checked", "waiting"}
    /\ f \notin expired
    /\ expired' = expired \cup {f}
    /\ UNCHANGED <<pendingByServer, pendingByState, closed, serveErr, listener,
                   resultCh, pc, outcome>>

Fetch(f) ==
    \/ CheckReadiness(f) \/ Register(f)
    \/ ReceiveResult(f) \/ ContextEnds(f) \/ TimerFires(f) \/ RemoveIfCurrent(f)

Broker ==
    \/ \E t \in States, answer \in Answers : Callback(t, answer)
    \/ \E s \in Servers : Cancel(s)
    \/ ListPending \/ Close \/ Shutdown \/ ListenerFails \/ RecordServeError

Next == (\E f \in Fetches : Fetch(f) \/ Expire(f)) \/ Broker

Spec == Init /\ [][Next]_vars

\* Goroutines that can go on do, and time passes.  Nobody has to open the URL,
\* cancel, list or close, and no context has to end.
Fairness ==
    \A f \in Fetches :
        /\ WF_vars(Register(f))
        /\ WF_vars(ReceiveResult(f) \/ TimerFires(f))
        /\ WF_vars(RemoveIfCurrent(f))
        /\ WF_vars(Expire(f))

FairSpec == Spec /\ Fairness

-----------------------------------------------------------------------------
(* Properties.                                                             *)

\* The two maps list the same fetches, each under its own server and state: a
\* callback and a cancellation find the same fetch, and neither map keeps one
\* that the other has forgotten.
PendingMapsAgree ==
    /\ \A s \in Servers : pendingByServer[s] # NoFetch =>
          LET f == pendingByServer[s]
          IN  ServerOf[f] = s /\ pendingByState[StateOf[f]] = f
    /\ \A t \in States : pendingByState[t] # NoFetch =>
          LET f == pendingByState[t]
          IN  StateOf[f] = t /\ pendingByServer[ServerOf[f]] = f

\* A waiting fetch is registered or has its answer, never neither and never
\* both: it does not wait in vain, and a result is never dropped because the
\* channel is full.
WaiterIsServed ==
    \A f \in Fetches : pc[f] = "waiting" => (Pending(f) <=> resultCh[f] = "empty")

\* Nothing refers to a fetch that has returned.
ReturnedIsForgotten ==
    \A f \in Fetches : pc[f] = "done" =>
        ~Pending(f) /\ pendingByState[StateOf[f]] # f

\* Every fetch that waits returns, though nobody answers, and also when it
\* registered after the broker was closed or its listener failed.
FetchReturns ==
    \A f \in Fetches : pc[f] = "waiting" ~> pc[f] = "done"

\* A closed broker ends with no authorization pending.
ClosedBrokerDrains ==
    closed ~> [](AllPending = {})
=============================================================================
