------------------------- MODULE CompletionRegistry -------------------------
(***************************************************************************)
(* One completion request, from the fetchCompletion() promise of the       *)
(* frontend to the goroutine of the Go process that runs the provider, and *)
(* its cancellation.                                                       *)
(*                                                                         *)
(* The frontend (frontend/app/apis/wailsapi/aggregate.ts) sends two kinds  *)
(* of bridge calls, FetchCompletion and CancelCompletion; each runs in a   *)
(* goroutine of its own, so they may arrive in either order.  The backend  *)
(* (cmd/agentgo/wrapper_aggregate.go) keeps two maps under one mutex: the  *)
(* cancel functions of the running requests, and the request IDs whose     *)
(* cancellation arrived before the request did.                            *)
(*                                                                         *)
(* A call is one invocation of fetchCompletion; IdOf gives its request ID. *)
(* Every critical section of the mutex, and every block of JavaScript      *)
(* between two awaits, is one action.                                      *)
(*                                                                         *)
(* The names of the specification are its own (RegistryInit, RegistryNext, *)
(* ...), so that Completion_proofs can extend this module and StreamRuntime.*)
(***************************************************************************)
EXTENDS Naturals, FiniteSets

CONSTANTS
    Calls,      \* invocations of fetchCompletion
    Ids,        \* request IDs
    IdOf,       \* the request ID each call passes
    NoCall      \* absence of a call in completionCancels

ASSUME IdOfType == IdOf \in [Calls -> Ids]
ASSUME NoCallOutside == NoCall \notin Calls

VARIABLES
    promise,            \* frontend: where the promise of each call stands
    aborted,            \* frontend: calls whose AbortSignal has fired
    activeIds,          \* frontend: activeCompletionRequestIDs
    fetchSent,          \* bridge: FetchCompletion calls not yet handled
    cancelSent,         \* bridge: CancelCompletion calls not yet handled
    replySent,          \* bridge: replies not yet delivered
    goroutine,          \* backend: where FetchCompletion of each call stands
    ctxDone,            \* backend: calls whose context has been cancelled
    completionCancels,  \* backend: request ID -> the call its cancel func stops
    preCanceled,        \* backend: request IDs cancelled before they arrived
    retained            \* backend: those still within preCanceledRetention

frontendVars == <<promise, aborted, activeIds>>
bridgeVars   == <<fetchSent, cancelSent, replySent>>
backendVars  == <<goroutine, ctxDone, completionCancels, preCanceled, retained>>
registryVars == <<frontendVars, bridgeVars, backendVars>>

PromiseState   == {"idle", "awaiting", "settled"}
GoroutineState == {"none", "provider", "returned", "done", "refused"}

RegistryTypeOK ==
    /\ promise \in [Calls -> PromiseState]
    /\ aborted \subseteq Calls
    /\ activeIds \subseteq Ids
    /\ fetchSent \subseteq Calls
    /\ cancelSent \subseteq Calls
    /\ replySent \subseteq Calls
    /\ goroutine \in [Calls -> GoroutineState]
    /\ ctxDone \subseteq Calls
    /\ completionCancels \in [Ids -> Calls \cup {NoCall}]
    /\ preCanceled \subseteq Ids
    /\ retained \subseteq preCanceled

RegistryInit ==
    /\ promise = [c \in Calls |-> "idle"]
    /\ aborted = {}
    /\ activeIds = {}
    /\ fetchSent = {}
    /\ cancelSent = {}
    /\ replySent = {}
    /\ goroutine = [c \in Calls |-> "none"]
    /\ ctxDone = {}
    /\ completionCancels = [i \in Ids |-> NoCall]
    /\ preCanceled = {}
    /\ retained = {}

-----------------------------------------------------------------------------
(* Frontend.                                                               *)

\* The caller calls fetchCompletion.  A signal that has already fired, or a
\* request ID in use, rejects it before anything reaches the bridge.
CallFetch(c) ==
    /\ promise[c] = "idle"
    /\ IF c \in aborted \/ IdOf[c] \in activeIds
         THEN /\ promise' = [promise EXCEPT ![c] = "settled"]
              /\ UNCHANGED <<activeIds, fetchSent>>
         ELSE /\ promise' = [promise EXCEPT ![c] = "awaiting"]
              /\ activeIds' = activeIds \cup {IdOf[c]}
              /\ fetchSent' = fetchSent \cup {c}
    /\ UNCHANGED <<aborted, cancelSent, replySent, backendVars>>

\* The signal fires.  While the promise is pending, abortHandler asks the
\* backend to cancel and rejects the promise; the finally block then frees the
\* request ID although the backend has not answered.
Abort(c) ==
    /\ c \notin aborted
    /\ promise[c] \in {"idle", "awaiting"}
    /\ aborted' = aborted \cup {c}
    /\ IF promise[c] = "awaiting"
         THEN /\ promise' = [promise EXCEPT ![c] = "settled"]
              /\ activeIds' = activeIds \ {IdOf[c]}
              /\ cancelSent' = cancelSent \cup {c}
         ELSE UNCHANGED <<promise, activeIds, cancelSent>>
    /\ UNCHANGED <<fetchSent, replySent, backendVars>>

\* The backend's answer settles the promise, unless an abort already has.
ReceiveReply(c) ==
    /\ c \in replySent
    /\ replySent' = replySent \ {c}
    /\ IF promise[c] = "awaiting"
         THEN /\ promise' = [promise EXCEPT ![c] = "settled"]
              /\ activeIds' = activeIds \ {IdOf[c]}
         ELSE UNCHANGED <<promise, activeIds>>
    /\ UNCHANGED <<aborted, fetchSent, cancelSent, backendVars>>

-----------------------------------------------------------------------------
(* Backend.  The definitions named ..._X are slips a change of the code could *)
(* make; no action uses them.                                              *)

\* prunePreCanceledLocked: what is left of preCanceled.
Pruned == preCanceled \cap retained

EarlyCancelled_X(i) == Pruned # {}

\* A cancellation of this ID arrived before the request.
EarlyCancelled(i) == i \in Pruned

Taken_X(i) == FALSE

\* The ID belongs to a call in flight.
Taken(i) == completionCancels[i] # NoCall

\* The first critical section of FetchCompletion: an early cancel is consumed,
\* an ID in flight is refused, otherwise the cancel function is registered.
FetchArrives(c) ==
    LET i == IdOf[c]
        refuse == EarlyCancelled(i) \/ Taken(i)
    IN
    /\ c \in fetchSent
    /\ fetchSent' = fetchSent \ {c}
    /\ preCanceled' = Pruned \ {i}
    /\ retained' = preCanceled'
    /\ goroutine' = [goroutine EXCEPT ![c] = IF refuse THEN "refused" ELSE "provider"]
    /\ IF refuse
         THEN /\ replySent' = replySent \cup {c}
              /\ ctxDone' = ctxDone \cup {c}
              /\ UNCHANGED completionCancels
         ELSE /\ completionCancels' = [completionCancels EXCEPT ![i] = c]
              /\ UNCHANGED <<replySent, ctxDone>>
    /\ UNCHANGED <<frontendVars, cancelSent>>

\* The provider call returns: an answer, an error, or, once the context is
\* cancelled, the partial response.
ProviderReturns(c) ==
    /\ goroutine[c] = "provider"
    /\ goroutine' = [goroutine EXCEPT ![c] = "returned"]
    /\ UNCHANGED <<frontendVars, bridgeVars, ctxDone, completionCancels,
                   preCanceled, retained>>

\* The deferred critical section removes the entry, the deferred cancel() ends
\* the context, and the reply is handed to the bridge.
FetchExits(c) ==
    /\ goroutine[c] = "returned"
    /\ goroutine' = [goroutine EXCEPT ![c] = "done"]
    /\ completionCancels' = [completionCancels EXCEPT ![IdOf[c]] = NoCall]
    /\ ctxDone' = ctxDone \cup {c}
    /\ replySent' = replySent \cup {c}
    /\ UNCHANGED <<frontendVars, fetchSent, cancelSent, preCanceled, retained>>

\* The calls whose context CancelCompletion cancels: the registered one, if any.
Stopped(i) == {completionCancels[i]} \ {NoCall}

Remembered_X(i) == Pruned

\* preCanceled after CancelCompletion: the ID is remembered unless it is in flight.
Remembered(i) == IF Taken(i) THEN Pruned ELSE Pruned \cup {i}

\* CancelCompletion: stop the registered call and keep its entry, or remember
\* that the request ID is cancelled.
CancelArrives(c) ==
    /\ c \in cancelSent
    /\ cancelSent' = cancelSent \ {c}
    /\ ctxDone' = ctxDone \cup Stopped(IdOf[c])
    /\ preCanceled' = Remembered(IdOf[c])
    /\ retained' = preCanceled'
    /\ UNCHANGED <<frontendVars, fetchSent, replySent, goroutine, completionCancels>>

\* preCanceledRetention (two minutes) passes for an early cancel.  A bridge call
\* is delivered in far less than that, so its request is no longer in transit.
RetentionEnds(i) ==
    /\ i \in retained
    /\ \A c \in fetchSent : IdOf[c] # i
    /\ retained' = retained \ {i}
    /\ UNCHANGED <<frontendVars, bridgeVars, goroutine, ctxDone,
                   completionCancels, preCanceled>>

-----------------------------------------------------------------------------
RegistryNext ==
    \/ \E c \in Calls :
        \/ CallFetch(c) \/ Abort(c) \/ ReceiveReply(c)
        \/ FetchArrives(c) \/ ProviderReturns(c) \/ FetchExits(c)
        \/ CancelArrives(c)
    \/ \E i \in Ids : RetentionEnds(i)

\* The bridge delivers every call and every reply, a goroutine that can run does,
\* and a provider call returns once its context is cancelled.  Nothing makes a
\* provider return before that, and nothing makes a user act.
RegistryFairness ==
    \A c \in Calls :
        /\ WF_registryVars(ReceiveReply(c))
        /\ WF_registryVars(FetchArrives(c))
        /\ WF_registryVars(CancelArrives(c))
        /\ WF_registryVars(c \in ctxDone /\ ProviderReturns(c))
        /\ WF_registryVars(FetchExits(c))

RegistrySpec == RegistryInit /\ [][RegistryNext]_registryVars
FairRegistrySpec == RegistrySpec /\ RegistryFairness

-----------------------------------------------------------------------------
(* Properties.                                                             *)

\* A call is in flight from its registration to its deferred clean-up.
InFlight(c) == goroutine[c] \in {"provider", "returned"}

\* completionCancels is exactly the set of calls in flight: no call in flight
\* has lost its entry (a cancel would be filed as an early one and never reach
\* it), and no entry outlives its call (the ID would be refused for ever).
\* Hence at most one call per request ID is in flight.  And no registered ID is
\* marked as cancelled in advance: a mark left behind a registered call would
\* cancel a later call instead of this one.
RegistryIsExact ==
    /\ \A c \in Calls, i \in Ids :
          completionCancels[i] = c <=> (IdOf[c] = i /\ InFlight(c))
    /\ \A i \in preCanceled : completionCancels[i] = NoCall

\* No other call uses the request ID of c: use_send_message.ts makes an ID for
\* each call.
OwnsId(c) == \A d \in Calls : IdOf[d] = IdOf[c] => d = c

\* A call with a request ID of its own is stopped or refused by a cancellation
\* only if its own signal has fired, whatever calls with other IDs do.
OnlyAbortedCallsAreCancelled ==
    \A c \in Calls :
        /\ OwnsId(c)
        /\ c \in ctxDone
        /\ goroutine[c] \in {"provider", "returned", "refused"}
        => c \in aborted

\* An aborted call with a request ID of its own never keeps its provider running:
\* whatever the order in which the request and its cancel reach the backend, the
\* goroutine ends.
AbortReachesBackend ==
    \A c \in Calls :
        (OwnsId(c) /\ c \in aborted /\ promise[c] = "settled") ~>
            (c \notin fetchSent /\ ~InFlight(c))
=============================================================================
