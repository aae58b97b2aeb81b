--------------------------- MODULE ComposerTools ---------------------------
(***************************************************************************)
(* The tool calls of one composer: how they are run, retried and answered, *)
(* and when the composer sends their results on its own.                   *)
(*                                                                         *)
(*   src/frontend/app/chats/composer/toolruntime/use_tool_runtime.ts       *)
(*   src/frontend/app/chats/composer/toolruntime/use_tool_auto_exec_drainer.ts *)
(*   src/frontend/app/chats/composer/editor/editor_area.tsx                *)
(*                                                                         *)
(* Several loops may run calls at the same time: the drainer of automatic  *)
(* calls, "Run tools only", "Run tools and send", and the user's clicks.   *)
(* Each awaits one execution at a time and then looks for the next call.   *)
(***************************************************************************)
EXTENDS Naturals

CONSTANTS
    Calls,     \* the IDs of the tool calls an assistant may make
    Automatic, \* those whose tools are set to execute automatically
    Dialogs,   \* those of MCP tools, whose executions may wait for the user's approval
    MaxRuns,   \* bound on the executions of each call that the user asks for
    Reopens    \* whether a conversation is opened again while its calls are unanswered

ASSUME AutomaticAssumption == Automatic \subseteq Calls
ASSUME DialogsAssumption == Dialogs \subseteq Calls
ASSUME MaxRunsAssumption == MaxRuns \in [Calls -> Nat]
ASSUME ReopensAssumption == Reopens \in BOOLEAN

VARIABLES
    call,       \* ComposerToolRuntimeState: a call is among toolCalls or toolOutputs
    attempt,    \* toolCallAttemptKeyByIdRef, 0 for no key
    runs,       \* the executions of a call so far; the last one's number is its key
    flights,    \* the executions awaited, each with the loop that awaits it
    workspaceBlocked, \* workspaceExecutionBlocked: it is being selected, or in error
    suppressed, \* suppressAutoExecute
    blocked,    \* isBlockedRef of the drainer, behind Blocked until the effects run
    fastForward,\* fastForwardPending
    stopped,    \* autoExecStopRequestedRef, autoExecBlockedByUserRef
    tracker,    \* AutoSubmitTracker
    submit,     \* how far doSubmit is: "no", "starting" or "prepared"
    payload,    \* the tool outputs doSubmit has read
    generating, \* isGenerating
    sent,       \* the tool outputs of the last message, for an edit of it
    editing,    \* an earlier message is being edited
    made,       \* history: the calls that assistants have made
    batch,      \* history: the calls of the assistant's last message, unless an edit cleared them
    asked,      \* history: the calls the user has asked to run
    sender      \* history: who began the submit, "user" or "tracker"

runtime == <<call, attempt, runs, flights>>
sending == <<submit, payload, generating, sent, sender>>
history == <<made, batch, asked>>
vars == <<runtime, workspaceBlocked, suppressed, blocked, fastForward, stopped, tracker, sending,
          editing, history>>

Unfinished == {"pending", "running"}
Listed == {"pending", "running", "failed"}
Output == {"ok", "error"}

NoCalls == [c \in Calls |-> "absent"]
NoAttempts == [c \in Calls |-> 0]
NewTracker == [observed |-> {}, automatic |-> TRUE, tried |-> {}]

ToolCalls == {c \in Calls : call[c] \in Listed}
Having(status) == {c \in Calls : call[c] = status}
Outputs == [c \in Calls |-> IF call[c] \in Output THEN call[c] ELSE "absent"]

\* isAutoSubmitEligibleToolCall
Eligible == Automatic \ suppressed

Pumping == \E f \in flights : f.by = "pump"
Blocked == generating \/ submit # "no" \/ fastForward \/ stopped \/ workspaceBlocked

(***************************************************************************)
(* Executions.                                                             *)
(***************************************************************************)
Flight(c, key, by, rest) == [call |-> c, key |-> key, by |-> by, rest |-> rest]

\* A call is started in the state s of the calls when it waits or has failed.
Startable(s, a, c) == s[c] \in {"pending", "failed"} /\ a[c] = 0

\* runToolCall up to its await: s and a are the calls and the keys it finds.
Start(c, s, a, by, rest, others) ==
    /\ Startable(s, a, c)
    /\ call' = [s EXCEPT ![c] = "running"]
    /\ attempt' = [a EXCEPT ![c] = runs[c] + 1]
    /\ runs' = [runs EXCEPT ![c] = @ + 1]
    /\ flights' = others \cup {Flight(c, runs[c] + 1, by, rest)}

X_Candidates(f, s) ==
    CASE f.by = "user" -> {}
      [] f.by = "pump" -> IF blocked THEN {} ELSE {c \in Eligible : s[c] \in {"pending", "failed"}}
      [] f.by = "all" -> {c \in Calls : s[c] \in {"pending", "failed"}}
      [] f.by = "fastforward" -> {c \in f.rest : s[c] \in {"pending", "failed"}}

\* What the loop of an execution that has ended looks for next.
Candidates(f, s) ==
    CASE f.by = "user" -> {}
      [] f.by = "pump" -> IF blocked THEN {} ELSE {c \in Eligible : s[c] = "pending"}
      [] f.by = "all" -> {c \in Calls : s[c] = "pending"}
      [] f.by = "fastforward" -> {c \in f.rest : s[c] \in {"pending", "failed"}}

X_IsCurrent_Shown(f) == call[f.call] = "running"

X_IsCurrent_Busy(f) == attempt[f.call] = f.key /\ submit = "no"

\* isCurrentToolCallAttempt: not cleared, loaded again or started anew meanwhile.
IsCurrent(f) == attempt[f.call] = f.key

\* The await returns: the result counts if the attempt is still the call's, and the
\* loop goes on before anything else can happen.
Finish(f, result) ==
    LET s == IF IsCurrent(f) THEN [call EXCEPT ![f.call] = result] ELSE call
        a == IF IsCurrent(f) THEN [attempt EXCEPT ![f.call] = 0] ELSE attempt
        others == flights \ {f}
    IN  /\ IF Candidates(f, s) = {}
           THEN call' = s /\ attempt' = a /\ flights' = others /\ UNCHANGED runs
           ELSE \E c \in Candidates(f, s), skipped \in SUBSET (f.rest \ Candidates(f, s)) :
                    Start(c, s, a, f.by, (f.rest \ {c}) \ skipped, others)
        /\ UNCHANGED <<workspaceBlocked, suppressed, blocked, fastForward, stopped, tracker,
                       sending, editing, history>>

(***************************************************************************)
(* The user, on the chips of the calls.                                    *)
(***************************************************************************)
Run(c) ==
    /\ ~generating /\ submit = "no" /\ ~fastForward /\ ~workspaceBlocked /\ Having("running") = {}
    /\ runs[c] < MaxRuns[c]
    /\ Start(c, call, attempt, "user", {}, flights)
    /\ asked' = asked \cup {c}
    /\ UNCHANGED <<workspaceBlocked, suppressed, blocked, fastForward, stopped, tracker,
                   sending, editing, made, batch>>

\* "Submit error": the call is answered without being run.
Discard(c) ==
    /\ call[c] \in {"pending", "failed"}
    /\ call' = [call EXCEPT ![c] = "error"]
    /\ attempt' = [attempt EXCEPT ![c] = 0]
    /\ UNCHANGED <<runs, flights, workspaceBlocked, suppressed, blocked, fastForward, stopped,
                   tracker, sending, editing, history>>

\* retryErroredOutput: the call waits again, and no longer is kept from the drainer.
Retry(c) ==
    /\ call[c] = "error" /\ runs[c] < MaxRuns[c]
    /\ call' = [call EXCEPT ![c] = "pending"]
    /\ suppressed' = suppressed \ {c}
    /\ asked' = asked \cup {c}
    /\ UNCHANGED <<attempt, runs, flights, workspaceBlocked, blocked, fastForward, stopped,
                   tracker, sending, editing, made, batch>>

\* "Run tools only": runAllPendingToolCalls.
RunAll ==
    /\ ~generating /\ submit = "no" /\ ~fastForward /\ ~workspaceBlocked /\ Having("running") = {}
    /\ \E c \in Having("pending") : Start(c, call, attempt, "all", {}, flights)
    /\ asked' = asked \cup Having("pending")
    /\ UNCHANGED <<workspaceBlocked, suppressed, blocked, fastForward, stopped, tracker,
                   sending, editing, made, batch>>

\* "Stop auto-exec for the next assistant tool-call batch".
Stop ==
    /\ Automatic # {} /\ ~stopped
    /\ stopped' = TRUE
    /\ tracker' = NewTracker
    /\ UNCHANGED <<runtime, workspaceBlocked, suppressed, blocked, fastForward, sending,
                   editing, history>>

(***************************************************************************)
(* Sending.                                                                *)
(***************************************************************************)
\* startFastForwardRun: what waits is run, in the order of the chips, before the send.
RunAndSend ==
    LET waiting == Having("pending") IN
    /\ ~generating /\ submit = "no" /\ ~fastForward /\ ~workspaceBlocked
    /\ \E c \in waiting : Start(c, call, attempt, "fastforward", waiting \ {c}, flights)
    /\ fastForward' = TRUE
    /\ asked' = asked \cup waiting
    /\ UNCHANGED <<workspaceBlocked, suppressed, blocked, stopped, tracker, sending, editing,
                   made, batch>>

\* doSubmit up to its first await, if it does not return before.
BeginSubmit(by) ==
    /\ ~generating /\ submit = "no" /\ ~workspaceBlocked
    /\ submit' = "starting"
    /\ sender' = by
    /\ UNCHANGED <<payload, generating, sent>>

Send ==
    /\ ~fastForward /\ Having("pending") = {}
    /\ BeginSubmit("user")
    /\ UNCHANGED <<runtime, workspaceBlocked, suppressed, blocked, fastForward, stopped,
                   tracker, editing, history>>

X_Blocking == Unfinished
\* The calls that keep doSubmit from sending.
Blocking == Unfinished \cup {"failed"}

\* The end of doSubmit, and the tool outputs of the last message after it.
EndSubmit(outputs) ==
    submit' = "no" /\ payload' = NoCalls /\ sender' = "user" /\ sent' = outputs

\* doSubmit after the skill session is there: it reads the calls as they are now.
Prepare ==
    /\ submit = "starting"
    /\ IF \E c \in Calls : call[c] \in Blocking
       THEN EndSubmit(sent)
       ELSE submit' = "prepared" /\ payload' = Outputs /\ UNCHANGED <<sent, sender>>
    /\ UNCHANGED generating
    /\ UNCHANGED <<runtime, workspaceBlocked, suppressed, blocked, fastForward, stopped,
                   tracker, editing, history>>

\* The skill session, the MCP context or the send itself fails.
SubmitFails ==
    /\ submit # "no"
    /\ EndSubmit(sent) /\ UNCHANGED generating
    /\ UNCHANGED <<runtime, workspaceBlocked, suppressed, blocked, fastForward, stopped,
                   tracker, editing, history>>

\* clearComposerTransientState and a load of calls, the former alone when new = {}.
\* The executions go on; their attempts are no longer current.
Reload(new, quiet) ==
    /\ attempt' = NoAttempts
    /\ suppressed' = IF quiet THEN Automatic \cap new ELSE {}
    /\ tracker' = IF new = {} THEN NewTracker
                  ELSE [NewTracker EXCEPT !.observed = new,
                                          !.automatic = ~quiet /\ new \subseteq Automatic]
    /\ UNCHANGED <<runs, flights, workspaceBlocked, asked>>

\* onSubmit, and the end of doSubmit, resetEditor.
Sent ==
    /\ submit = "prepared"
    /\ EndSubmit(payload) /\ generating' = TRUE
    /\ call' = NoCalls
    /\ Reload({}, FALSE)
    /\ batch' = {} /\ editing' = FALSE /\ UNCHANGED made
    /\ fastForward' = FALSE /\ stopped' = FALSE
    /\ UNCHANGED blocked

Loaded(new) == [c \in Calls |-> IF c \in new THEN "pending" ELSE "absent"]

\* handleLoadToolCalls and finishAssistantTurn: a stop asked for keeps these calls
\* from the drainer, and is over with them.
Answer(new) ==
    /\ generating
    /\ new \cap made = {} /\ made' = made \cup new
    /\ generating' = FALSE
    /\ call' = Loaded(new)
    /\ Reload(new, stopped)
    /\ batch' = new /\ UNCHANGED editing
    /\ stopped' = FALSE
    /\ UNCHANGED <<submit, payload, sent, sender, blocked, fastForward>>

\* applyConversationContextToInput: another conversation is opened in the tab; the
\* calls of its last message are listed and kept from the drainer.
OpenConversation(new) ==
    /\ ~generating /\ submit = "no"
    /\ \A c \in new : runs[c] < MaxRuns[c]
    /\ Reopens \/ new \cap made = {}
    /\ made' = made \cup new
    /\ call' = Loaded(new)
    /\ Reload(new, TRUE)
    /\ batch' = new /\ editing' = FALSE
    /\ fastForward' = FALSE /\ stopped' = FALSE
    /\ UNCHANGED <<sending, blocked>>

\* What an edit begun or cancelled does to the composer: it is cleared, and outputs loaded.
Replace(outputs) ==
    /\ ~generating /\ submit = "no"
    /\ call' = outputs
    /\ Reload({}, FALSE)
    /\ batch' = {} /\ UNCHANGED made
    /\ fastForward' = FALSE /\ stopped' = FALSE
    /\ UNCHANGED <<sending, blocked>>

\* loadExternalMessage: the last message, or one like it, is loaded for an edit, with
\* the tool outputs it was sent with.
EditMessage == Replace(sent) /\ editing' = TRUE

\* handleCancelEditing: restorePreEditContext brings back tools and skills, not the calls.
CancelEdit == editing /\ Replace(NoCalls) /\ editing' = FALSE

\* handleEditorDocumentChange: the text is deleted and there is no output left to send;
\* the calls that are listed stay.
AutoCancelEdit ==
    /\ editing /\ \A c \in Calls : call[c] \notin Output
    /\ editing' = FALSE
    /\ UNCHANGED <<runtime, workspaceBlocked, suppressed, blocked, fastForward, stopped,
                   tracker, sending, history>>

\* The selection of a workspace begins, ends or fails.  During a submit or a turn nothing
\* depends on it, and the change is seen after them.
WorkspaceChanges ==
    /\ ~generating /\ submit = "no"
    /\ workspaceBlocked' = ~workspaceBlocked
    /\ UNCHANGED <<runtime, suppressed, blocked, fastForward, stopped, tracker, sending,
                   editing, history>>

(***************************************************************************)
(* The effects that follow a change of the composer's state.               *)
(***************************************************************************)
\* What the effect that submits on its own asks of the composer, no calls being listed.
MaySubmit == ~Pumping /\ tracker.automatic /\ ~stopped /\ ~generating /\ submit = "no"

\* The first half of that effect: calls that came back by a retry are observed too, and
\* nothing to send ends the observation.
Observed ==
    IF ToolCalls # {}
    THEN [tracker EXCEPT !.observed = @ \cup ToolCalls, !.automatic = @ /\ ToolCalls \subseteq Eligible]
    ELSE IF MaySubmit /\ \A c \in Calls : call[c] \notin Output THEN NewTracker ELSE tracker

X_PumpMayStart(c) == ~Pumping /\ ~Blocked /\ c \in Eligible /\ call[c] = "pending" /\ runs[c] = 0

\* pump begins where no pump is under way and nothing blocks it.
PumpMayStart(c) == ~Pumping /\ ~Blocked /\ c \in Eligible /\ call[c] = "pending"

\* The drainer's effect, which calls pump, and the tracker's.
Effects ==
    /\ blocked' = Blocked
    /\ tracker' = Observed
    /\ IF \E c \in Calls : PumpMayStart(c)
       THEN \E c \in Calls : PumpMayStart(c) /\ Start(c, call, attempt, "pump", {}, flights)
       ELSE UNCHANGED runtime
    /\ UNCHANGED <<workspaceBlocked, suppressed, fastForward, stopped, sending, editing, history>>

X_FastForwardEnds ==
    /\ fastForward /\ ~generating /\ submit = "no"
    /\ \A c \in Calls : call[c] \notin Unfinished
    /\ Having("failed") = {}
    /\ fastForward' = FALSE
    /\ BeginSubmit("user") \/ UNCHANGED sending
    /\ UNCHANGED <<runtime, workspaceBlocked, suppressed, blocked, stopped, tracker, editing,
                   history>>

\* The effect that ends "Run tools and send" once no call is unfinished: it sends,
\* unless a call has failed, there is nothing to send or doSubmit returns at once.
FastForwardEnds ==
    /\ fastForward /\ ~generating /\ submit = "no"
    /\ \A c \in Calls : call[c] \notin Unfinished
    /\ fastForward' = FALSE
    /\ IF Having("failed") # {}
       THEN UNCHANGED sending
       ELSE BeginSubmit("user") \/ UNCHANGED sending
    /\ UNCHANGED <<runtime, workspaceBlocked, suppressed, blocked, stopped, tracker, editing,
                   history>>

X_EveryResultIsGood == \A c \in tracker.observed : call[c] \in Output
EveryResultIsGood == \A c \in tracker.observed : call[c] = "ok"

\* The second half of that effect.  The effect of "Run tools and send" comes first.
AutoSubmit ==
    /\ blocked = Blocked /\ tracker = Observed
    /\ ToolCalls = {} /\ MaySubmit /\ ~fastForward
    /\ tracker.observed # {} /\ tracker.tried # tracker.observed
    /\ EveryResultIsGood
    /\ tracker' = [tracker EXCEPT !.tried = tracker.observed]
    /\ IF workspaceBlocked THEN UNCHANGED sending ELSE BeginSubmit("tracker")
    /\ UNCHANGED <<runtime, workspaceBlocked, suppressed, blocked, fastForward, stopped,
                   editing, history>>

Init ==
    /\ call = NoCalls /\ attempt = NoAttempts
    /\ runs = NoAttempts /\ flights = {}
    /\ workspaceBlocked = FALSE /\ suppressed = {} /\ blocked = FALSE
    /\ fastForward = FALSE /\ stopped = FALSE
    /\ tracker = NewTracker
    /\ submit = "no" /\ payload = NoCalls /\ generating = FALSE /\ sent = NoCalls
    /\ editing = FALSE /\ made = {} /\ batch = {} /\ asked = {} /\ sender = "user"

User ==
    \/ \E c \in Calls : Run(c) \/ Discard(c) \/ Retry(c)
    \/ RunAll \/ Stop \/ RunAndSend \/ Send
    \/ \E new \in SUBSET Calls : OpenConversation(new)
    \/ EditMessage \/ CancelEdit \/ AutoCancelEdit

Next ==
    \/ User
    \/ \E f \in flights, result \in Output \cup {"failed"} : Finish(f, result)
    \/ \E new \in SUBSET Calls : Answer(new)
    \/ WorkspaceChanges \/ Effects \/ Prepare \/ SubmitFails \/ Sent \/ FastForwardEnds \/ AutoSubmit

\* An execution ends: withTimeout bounds each invoke, and the policy evaluation before it
\* is taken to answer.  One that may ask for an approval first is bounded by nothing, so
\* nothing is assumed of it.  Each await of doSubmit ends too, and React runs the effects
\* of a change.  Nobody has to press anything.
Fairness ==
    /\ \A c \in Calls \ Dialogs :
        WF_vars(\E f \in flights, result \in Output \cup {"failed"} : f.call = c /\ Finish(f, result))
    /\ WF_vars(Effects) /\ WF_vars(FastForwardEnds)
    /\ WF_vars(Prepare \/ Sent \/ SubmitFails)

Spec == Init /\ [][Next]_vars
FairSpec == Spec /\ Fairness

(***************************************************************************)
(* Properties.                                                             *)
(***************************************************************************)
Flights == [call : Calls, key : Nat \ {0}, by : {"user", "pump", "all", "fastforward"},
            rest : SUBSET Calls]

\* The types of the calls, the executions and the flags of the composer.
TypeOK ==
    /\ call \in [Calls -> Listed \cup Output \cup {"absent"}]
    /\ attempt \in [Calls -> Nat] /\ runs \in [Calls -> Nat]
    /\ flights \subseteq Flights
    /\ suppressed \subseteq Calls /\ made \subseteq Calls /\ batch \subseteq Calls /\ asked \subseteq Calls
    /\ blocked \in BOOLEAN /\ fastForward \in BOOLEAN /\ stopped \in BOOLEAN
    /\ editing \in BOOLEAN /\ workspaceBlocked \in BOOLEAN
    /\ tracker \in [observed : SUBSET Calls, automatic : BOOLEAN, tried : SUBSET Calls]
    /\ submit \in {"no", "starting", "prepared"} /\ generating \in BOOLEAN
    /\ payload \in [Calls -> Output \cup {"absent"}] /\ sent \in [Calls -> Output \cup {"absent"}]
    /\ sender \in {"user", "tracker"}

\* A call that is shown as running is being executed, by an execution whose result
\* will count, however often the composer was cleared and the call listed again.  A key
\* without a running call would make the loops of pump and runAllPendingToolCalls spin
\* for ever on a call that runToolCall refuses.
RunningIsAwaited ==
    \A c \in Calls :
        IF call[c] = "running"
        THEN attempt[c] # 0 /\ \E f \in flights : f.call = c /\ f.key = attempt[c]
        ELSE attempt[c] = 0

\* The execution that ends a running call is its latest one: one of before the composer
\* was cleared and the call retried does not answer for it when it returns.
LatestRunDecides ==
    [][\A f \in flights \ flights' :
           call[f.call] = "running" /\ call'[f.call] # "running" => f.key = runs[f.call]]_vars

\* The calls the next message has to answer: those of the message that is edited, or the
\* last ones of the assistant.  The latter are due no more once an edit was begun: it
\* clears them, and when it is given up they are not there again.
Due == IF editing THEN {c \in Calls : sent[c] # "absent"} ELSE batch

\* What is sent answers every call that is due: none is left out because it failed, was
\* retried, discarded or is still being executed when doSubmit reads the outputs.  Only
\* an edit that was begun in between and given up takes calls away, without a word.
EveryCallIsAnswered == submit = "prepared" => \A c \in Due : payload[c] # "absent"

\* What the composer sends on its own are good results of calls that were all set to
\* execute automatically, all of those the assistant made, unless an edit came between.
OwnSend == submit = "prepared" /\ sender = "tracker"
OwnSendIsEarned == OwnSend /\ ~editing => \A c \in batch : c \in Automatic /\ payload[c] = "ok"

\* A call is executed a second time only for the user: the loops outlive the calls
\* they were started for and find the same calls failed, answered or listed anew.
RepeatsAreAsked == \A c \in Calls : runs[c] > 1 => c \in asked

\* "Run or discard the call": a call that is not automatic runs when the user says so.
ManualCallsAreConfirmed ==
    [][\A f \in flights' \ flights : f.call \in Eligible \cup asked']_vars

\* A call retried during "Run tools and send" may come too late for its loop, and the
\* drainer is blocked until the user discards it.
LeftByFastForward ==
    fastForward /\ Having("pending") # {} /\ \A f \in flights : f.call \in Dialogs

\* An execution others may wait for, a running call's or one of their loops', may itself
\* wait for the user's approval.
Asking ==
    \E f \in flights : f.call \in Dialogs /\ (IsCurrent(f) \/ f.by \in {"pump", "fastforward"})

\* An automatic call does not stay waiting behind a submit, an edit, a loop that still
\* awaits a discarded execution or a fast-forward run: it waits only while the user has
\* stopped it, an approval is asked for or the workspace is not ready.
Waits(c) == call[c] = "pending" /\ c \in Eligible /\ ~stopped /\ ~workspaceBlocked
AutomaticCallsRun == \A c \in Automatic : Waits(c) ~> ~Waits(c) \/ LeftByFastForward \/ Asking

\* "Run tools and send" ends, and with it the lock on the composer, unless one of its
\* calls waits for an approval.  Required arguments, for which its effect waits too, are
\* left out.
FastForwardIsOver == fastForward ~> ~fastForward \/ LeftByFastForward \/ Asking
=============================================================================
