------------------------ MODULE ComposerTools_proofs ------------------------
(***************************************************************************)
(* The tool calls of a composer, for any calls, any of them automatic, and *)
(* any number of executions.                                               *)
(***************************************************************************)
EXTENDS ComposerTools, TLAPS

Statuses == Listed \cup Output \cup {"absent"}
Loops == {"user", "pump", "all", "fastforward"}

\* The calls s, their keys a, their executions r and the awaited ones fl fit together.
Fits(s, a, r, fl) ==
    /\ s \in [Calls -> Statuses] /\ a \in [Calls -> Nat] /\ r \in [Calls -> Nat]
    /\ fl \subseteq Flights
    /\ \A c \in Calls : s[c] = "running" <=> a[c] # 0
    /\ \A c \in Calls : s[c] = "running" => \E f \in fl : f.call = c /\ f.key = a[c]
    /\ \A c \in Calls : a[c] \in {0, r[c]}

RuntimeInv == Fits(call, attempt, runs, flights)

\* What a running loop or the user does to a call keeps it listed or answered, and
\* keeps its good result.
CallsGoOn == \A c \in Calls : /\ call[c] # "absent" => call'[c] # "absent"
                              /\ call[c] = "ok" => call'[c] = "ok"

\* A start in a state of the calls that fits leaves one that fits.
LEMMA StartFits ==
    ASSUME NEW s, NEW a, NEW others, Fits(s, a, runs, others),
           NEW c \in Calls, NEW by \in Loops, NEW rest \in SUBSET Calls,
           Start(c, s, a, by, rest, others)
    PROVE  /\ RuntimeInv'
           /\ \A d \in Calls : d # c => call'[d] = s[d]
           /\ call'[c] = "running" /\ s[c] \in {"pending", "failed"}
<1> DEFINE k == runs[c] + 1
           f0 == Flight(c, k, by, rest)
<1>1. /\ call' = [s EXCEPT ![c] = "running"] /\ attempt' = [a EXCEPT ![c] = k]
      /\ runs' = [runs EXCEPT ![c] = runs[c] + 1] /\ flights' = others \cup {f0}
      /\ s[c] \in {"pending", "failed"}
  BY DEF Start, Startable
<1>2. /\ s \in [Calls -> Statuses] /\ a \in [Calls -> Nat] /\ runs \in [Calls -> Nat]
      /\ others \subseteq Flights /\ k \in Nat \ {0}
  BY DEF Fits
<1>3. f0 \in Flights /\ f0.call = c /\ f0.key = k
  BY <1>2 DEF Flight, Flights, Loops
<1>4. /\ call' \in [Calls -> Statuses] /\ attempt' \in [Calls -> Nat] /\ runs' \in [Calls -> Nat]
      /\ flights' \subseteq Flights
  BY <1>1, <1>2, <1>3 DEF Statuses, Listed
<1>5. call'[c] = "running" /\ attempt'[c] = k /\ runs'[c] = k
  BY <1>1, <1>2
<1>6. \A d \in Calls : d # c => call'[d] = s[d] /\ attempt'[d] = a[d] /\ runs'[d] = runs[d]
  BY <1>1, <1>2
<1>7. \A d \in Calls : call'[d] = "running" <=> attempt'[d] # 0
  BY <1>2, <1>5, <1>6 DEF Fits
<1>8. \A d \in Calls : call'[d] = "running" => \E f \in flights' : f.call = d /\ f.key = attempt'[d]
  <2> SUFFICES ASSUME NEW d \in Calls, call'[d] = "running"
               PROVE  \E f \in flights' : f.call = d /\ f.key = attempt'[d]
    OBVIOUS
  <2>1. CASE d = c
    BY <2>1, <1>1, <1>3, <1>5
  <2>2. CASE d # c
    BY <2>2, <1>1, <1>6 DEF Fits
  <2> QED
    BY <2>1, <2>2
<1>9. \A d \in Calls : attempt'[d] \in {0, runs'[d]}
  BY <1>5, <1>6 DEF Fits
<1> HIDE DEF k, f0
<1> QED
  BY <1>1, <1>4, <1>5, <1>6, <1>7, <1>8, <1>9 DEF RuntimeInv, Fits

\* The calls and the keys that an execution leaves when it returns.
After(f, result) == IF IsCurrent(f) THEN [call EXCEPT ![f.call] = result] ELSE call
KeysAfter(f) == IF IsCurrent(f) THEN [attempt EXCEPT ![f.call] = 0] ELSE attempt

\* When an execution returns, keys and executions still fit, and only its own call changes.
LEMMA ReturnFits ==
    ASSUME RuntimeInv, NEW f \in flights, NEW result \in Output \cup {"failed"}
    PROVE  /\ Fits(After(f, result), KeysAfter(f), runs, flights \ {f})
           /\ IsCurrent(f) => call[f.call] = "running" /\ f.key = runs[f.call]
           /\ \A c \in Calls : c # f.call \/ ~IsCurrent(f) => After(f, result)[c] = call[c]
           /\ IsCurrent(f) => After(f, result)[f.call] = result
<1>1. /\ call \in [Calls -> Statuses] /\ attempt \in [Calls -> Nat] /\ runs \in [Calls -> Nat]
      /\ flights \subseteq Flights
  BY DEF RuntimeInv, Fits
<1>2. f.call \in Calls /\ f.key \in Nat \ {0}
  BY <1>1 DEF Flights
<1>3. IsCurrent(f) => call[f.call] = "running" /\ f.key = runs[f.call]
  BY <1>2 DEF IsCurrent, RuntimeInv, Fits
<1>4. CASE IsCurrent(f)
  <2>1. After(f, result) = [call EXCEPT ![f.call] = result] /\ KeysAfter(f) = [attempt EXCEPT ![f.call] = 0]
    BY <1>4 DEF After, KeysAfter
  <2>2. After(f, result) \in [Calls -> Statuses] /\ KeysAfter(f) \in [Calls -> Nat]
    BY <2>1, <1>1, <1>2 DEF Statuses, Listed
  <2>3. After(f, result)[f.call] = result /\ result # "running" /\ KeysAfter(f)[f.call] = 0
    BY <2>1, <1>1, <1>2 DEF Output
  <2>4. \A c \in Calls : c # f.call => After(f, result)[c] = call[c] /\ KeysAfter(f)[c] = attempt[c]
    BY <2>1, <1>1
  <2>5. \A c \in Calls : After(f, result)[c] = "running" <=> KeysAfter(f)[c] # 0
    <3>1. \A c \in Calls : call[c] = "running" <=> attempt[c] # 0
      BY DEF RuntimeInv, Fits
    <3>2. ASSUME NEW c \in Calls PROVE After(f, result)[c] = "running" <=> KeysAfter(f)[c] # 0
      <4>1. CASE c = f.call
        BY <4>1, <2>3
      <4>2. CASE c # f.call
        BY <4>2, <2>4, <3>1
      <4> QED
        BY <4>1, <4>2
    <3> QED
      BY <3>2
  <2>6. \A c \in Calls : After(f, result)[c] = "running" =>
            \E g \in flights \ {f} : g.call = c /\ g.key = KeysAfter(f)[c]
    BY <2>3, <2>4 DEF RuntimeInv, Fits
  <2>7. \A c \in Calls : KeysAfter(f)[c] \in {0, runs[c]}
    BY <2>3, <2>4 DEF RuntimeInv, Fits
  <2>8. flights \ {f} \subseteq Flights
    BY <1>1
  <2>9. Fits(After(f, result), KeysAfter(f), runs, flights \ {f})
    BY <1>1, <2>2, <2>5, <2>6, <2>7, <2>8, Zenon DEF Fits
  <2> QED
    BY <1>3, <1>4, <2>3, <2>4, <2>9, Zenon
<1>5. CASE ~IsCurrent(f)
  <2>1. After(f, result) = call /\ KeysAfter(f) = attempt
    BY <1>5 DEF After, KeysAfter
  <2>2. \A c \in Calls : call[c] = "running" => \E g \in flights \ {f} : g.call = c /\ g.key = attempt[c]
    BY <1>5 DEF RuntimeInv, Fits, IsCurrent
  <2>3. Fits(call, attempt, runs, flights \ {f})
    BY <2>2 DEF RuntimeInv, Fits
  <2> QED
    BY <1>5, <2>1, <2>3
<1> QED
  BY <1>4, <1>5

\* A loop takes only calls that wait or have failed.
LEMMA CandidatesAreCalls ==
    ASSUME NEW f \in Flights, NEW s
    PROVE  /\ Candidates(f, s) \subseteq Calls
           /\ \A c \in Candidates(f, s) : s[c] \in {"pending", "failed"}
<1>1. f.by \in Loops /\ f.rest \subseteq Calls
  BY DEF Flights, Loops
<1>2. Eligible \subseteq Calls
  BY AutomaticAssumption DEF Eligible
<1> QED
  BY <1>1, <1>2 DEF Candidates, Loops

(***************************************************************************)
(* The steps, by what they do to the calls.                                *)
(***************************************************************************)
Progress ==
    \/ \E c \in Calls : Run(c) \/ Discard(c) \/ Retry(c)
    \/ RunAll \/ RunAndSend \/ Effects
    \/ \E f \in flights, result \in Output \cup {"failed"} : Finish(f, result)

Cleared ==
    \/ Sent \/ EditMessage \/ CancelEdit
    \/ \E new \in SUBSET Calls : Answer(new) \/ OpenConversation(new)

Quiet ==
    \/ Stop \/ Send \/ Prepare \/ SubmitFails \/ FastForwardEnds \/ AutoSubmit
    \/ AutoCancelEdit \/ WorkspaceChanges \/ UNCHANGED vars

\* Every step goes on with the calls, clears them, or leaves them alone.
LEMMA Steps == [Next]_vars => Progress \/ Cleared \/ Quiet
  BY DEF Next, User, Progress, Cleared, Quiet

\* A step that leaves the calls alone changes nothing of their execution.
LEMMA QuietKeepsRuntime ==
    ASSUME Quiet PROVE UNCHANGED runtime
  BY DEF Quiet, Stop, Send, Prepare, SubmitFails, FastForwardEnds, AutoSubmit, AutoCancelEdit,
         WorkspaceChanges, vars, runtime

\* A call that is started by a loop or the user goes on.
LEMMA StartGoesOn ==
    ASSUME RuntimeInv, NEW c \in Calls, NEW by \in Loops, NEW rest \in SUBSET Calls,
           Start(c, call, attempt, by, rest, flights)
    PROVE  RuntimeInv' /\ CallsGoOn
<1>1. Fits(call, attempt, runs, flights)
  BY DEF RuntimeInv
<1>2. /\ RuntimeInv' /\ \A d \in Calls : d # c => call'[d] = call[d]
      /\ call'[c] = "running" /\ call[c] \in {"pending", "failed"}
  BY <1>1, StartFits
<1>3. CallsGoOn
  <2> SUFFICES ASSUME NEW d \in Calls
               PROVE  /\ call[d] # "absent" => call'[d] # "absent"
                      /\ call[d] = "ok" => call'[d] = "ok"
    BY DEF CallsGoOn
  <2>1. CASE d = c
    BY <2>1, <1>2
  <2>2. CASE d # c
    BY <2>2, <1>2
  <2> QED
    BY <2>1, <2>2
<1> QED
  BY <1>2, <1>3

\* The end of an execution keeps the invariant and ends only the run it belongs to.
LEMMA FinishGoesOn ==
    ASSUME RuntimeInv, NEW f \in flights, NEW result \in Output \cup {"failed"}, Finish(f, result)
    PROVE  /\ RuntimeInv' /\ CallsGoOn
           /\ call[f.call] = "running" /\ call'[f.call] # "running" => f.key = runs[f.call]
           /\ flights \ {f} \subseteq flights'
<1> DEFINE s == After(f, result)
           a == KeysAfter(f)
           others == flights \ {f}
<1>0. f \in Flights /\ f.call \in Calls /\ f.by \in Loops /\ f.rest \subseteq Calls
  BY DEF RuntimeInv, Fits, Flights, Loops
<1>1. /\ Fits(s, a, runs, others)
      /\ IsCurrent(f) => call[f.call] = "running" /\ f.key = runs[f.call]
      /\ \A c \in Calls : c # f.call \/ ~IsCurrent(f) => s[c] = call[c]
      /\ IsCurrent(f) => s[f.call] = result
  BY ReturnFits
<1>2. \A c \in Calls : /\ call[c] # "absent" => s[c] # "absent"
                       /\ call[c] = "ok" => s[c] = "ok"
  BY <1>0, <1>1 DEF Output
<1>3. call[f.call] = "running" /\ s[f.call] # "running" => f.key = runs[f.call]
  BY <1>0, <1>1
<1>4. \/ call' = s /\ attempt' = a /\ flights' = others /\ runs' = runs
      \/ \E c \in Candidates(f, s), skipped \in SUBSET (f.rest \ Candidates(f, s)) :
            Start(c, s, a, f.by, (f.rest \ {c}) \ skipped, others)
  BY DEF Finish, After, KeysAfter
<1>5. CASE call' = s /\ attempt' = a /\ flights' = others /\ runs' = runs
  <2>1. RuntimeInv'
    BY <1>1, <1>5 DEF RuntimeInv
  <2> QED
    BY <2>1, <1>2, <1>3, <1>5 DEF CallsGoOn
<1>6. ASSUME NEW c \in Candidates(f, s), NEW rest \in SUBSET Calls,
             Start(c, s, a, f.by, rest, others)
      PROVE  /\ RuntimeInv' /\ CallsGoOn
             /\ call[f.call] = "running" /\ call'[f.call] # "running" => f.key = runs[f.call]
             /\ others \subseteq flights'
  <2>0. c \in Calls
    BY <1>0, CandidatesAreCalls
  <2>1. /\ RuntimeInv'
        /\ \A d \in Calls : d # c => call'[d] = s[d]
        /\ call'[c] = "running" /\ s[c] \in {"pending", "failed"}
    BY <1>0, <1>1, <1>6, <2>0, StartFits
  <2>2. CallsGoOn
    <3> SUFFICES ASSUME NEW d \in Calls
                 PROVE  /\ call[d] # "absent" => call'[d] # "absent"
                        /\ call[d] = "ok" => call'[d] = "ok"
      BY DEF CallsGoOn
    <3>1. CASE d = c
      BY <3>1, <2>1, <1>2
    <3>2. CASE d # c
      BY <3>2, <2>1, <1>2
    <3> QED
      BY <3>1, <3>2
  <2>3. call[f.call] = "running" /\ call'[f.call] # "running" => f.key = runs[f.call]
    BY <1>0, <1>3, <2>1
  <2>4. others \subseteq flights'
    BY <1>6 DEF Start
  <2> QED
    BY <2>1, <2>2, <2>3, <2>4
<1>7. \A c, skipped : (f.rest \ {c}) \ skipped \in SUBSET Calls
  BY <1>0
<1> HIDE DEF s, a, others
<1>8. CASE \E c \in Candidates(f, s), skipped \in SUBSET (f.rest \ Candidates(f, s)) :
             Start(c, s, a, f.by, (f.rest \ {c}) \ skipped, others)
  <2>1. PICK c \in Candidates(f, s), skipped \in SUBSET (f.rest \ Candidates(f, s)) :
            Start(c, s, a, f.by, (f.rest \ {c}) \ skipped, others)
    BY <1>8
  <2>2. (f.rest \ {c}) \ skipped \in SUBSET Calls
    BY <1>7
  <2>3. /\ RuntimeInv' /\ CallsGoOn
        /\ call[f.call] = "running" /\ call'[f.call] # "running" => f.key = runs[f.call]
        /\ others \subseteq flights'
    BY <1>6, <2>1, <2>2
  <2> QED
    BY <2>3 DEF others
<1> QED
  BY <1>4, <1>5, <1>8

\* What TypeOK says of the variables besides the executions.
TypesRest ==
    /\ suppressed \subseteq Calls /\ made \subseteq Calls /\ batch \subseteq Calls /\ asked \subseteq Calls
    /\ blocked \in BOOLEAN /\ fastForward \in BOOLEAN /\ stopped \in BOOLEAN /\ editing \in BOOLEAN
    /\ workspaceBlocked \in BOOLEAN
    /\ tracker \in [observed : SUBSET Calls, automatic : BOOLEAN, tried : SUBSET Calls]
    /\ submit \in {"no", "starting", "prepared"} /\ generating \in BOOLEAN
    /\ payload \in [Calls -> Output \cup {"absent"}] /\ sent \in [Calls -> Output \cup {"absent"}]
    /\ sender \in {"user", "tracker"}

\* A step that goes on with the calls keeps their invariant.
LEMMA ProgressKeepsRuntime ==
    ASSUME RuntimeInv, Progress PROVE RuntimeInv' /\ CallsGoOn
<1>1. ASSUME NEW c \in Calls, Run(c) PROVE RuntimeInv' /\ CallsGoOn
  BY <1>1, StartGoesOn DEF Run, Loops
<1>2. ASSUME NEW c \in Calls, Discard(c) PROVE RuntimeInv' /\ CallsGoOn
  <2>1. /\ call' = [call EXCEPT ![c] = "error"] /\ attempt' = [attempt EXCEPT ![c] = 0]
        /\ runs' = runs /\ flights' = flights /\ call[c] \in {"pending", "failed"}
    BY <1>2 DEF Discard
  <2>2. /\ call' \in [Calls -> Statuses] /\ attempt' \in [Calls -> Nat]
        /\ call'[c] = "error" /\ attempt'[c] = 0
        /\ \A d \in Calls : d # c => call'[d] = call[d] /\ attempt'[d] = attempt[d]
    BY <2>1 DEF RuntimeInv, Fits, Statuses, Output
  <2> QED
    BY <2>1, <2>2 DEF RuntimeInv, Fits, CallsGoOn
<1>3. ASSUME NEW c \in Calls, Retry(c) PROVE RuntimeInv' /\ CallsGoOn
  <2>1. /\ call' = [call EXCEPT ![c] = "pending"] /\ attempt' = attempt
        /\ runs' = runs /\ flights' = flights /\ call[c] = "error"
    BY <1>3 DEF Retry
  <2>2. /\ call' \in [Calls -> Statuses] /\ call'[c] = "pending"
        /\ \A d \in Calls : d # c => call'[d] = call[d]
    BY <2>1 DEF RuntimeInv, Fits, Statuses, Listed
  <2> QED
    BY <2>1, <2>2 DEF RuntimeInv, Fits, CallsGoOn
<1>4. ASSUME RunAll PROVE RuntimeInv' /\ CallsGoOn
  <2>1. PICK c \in Having("pending") : Start(c, call, attempt, "all", {}, flights)
    BY <1>4 DEF RunAll
  <2>2. c \in Calls
    BY DEF Having
  <2> QED
    BY <2>1, <2>2, StartGoesOn DEF Loops
<1>5. ASSUME RunAndSend PROVE RuntimeInv' /\ CallsGoOn
  <2>1. PICK c \in Having("pending") :
            Start(c, call, attempt, "fastforward", Having("pending") \ {c}, flights)
    BY <1>5 DEF RunAndSend
  <2>2. c \in Calls /\ Having("pending") \ {c} \in SUBSET Calls
    BY DEF Having
  <2> QED
    BY <2>1, <2>2, StartGoesOn DEF Loops
<1>6. ASSUME Effects PROVE RuntimeInv' /\ CallsGoOn
  <2>1. CASE \E c \in Calls : PumpMayStart(c)
    <3>1. PICK c \in Calls : Start(c, call, attempt, "pump", {}, flights)
      BY <1>6, <2>1 DEF Effects
    <3> QED
      BY <3>1, StartGoesOn DEF Loops
  <2>2. CASE ~ \E c \in Calls : PumpMayStart(c)
    BY <1>6, <2>2 DEF Effects, runtime, RuntimeInv, CallsGoOn, Fits
  <2> QED
    BY <2>1, <2>2
<1>7. ASSUME NEW f \in flights, NEW result \in Output \cup {"failed"}, Finish(f, result)
      PROVE  RuntimeInv' /\ CallsGoOn
  BY <1>7, FinishGoesOn
<1> QED
  BY <1>1, <1>2, <1>3, <1>4, <1>5, <1>6, <1>7 DEF Progress

\* Clearing the composer leaves no call running and keeps the executions awaited.
LEMMA ClearedKeepsRuntime ==
    ASSUME RuntimeInv, TypesRest, Cleared
    PROVE  RuntimeInv' /\ runs' = runs /\ flights' = flights
<1>1. /\ attempt' = NoAttempts /\ runs' = runs /\ flights' = flights
  BY DEF Cleared, Sent, EditMessage, CancelEdit, Replace, Answer, OpenConversation, Reload
<1>2. call' \in [Calls -> Output \cup {"absent", "pending"}]
  <2>1. CASE Sent
    BY <2>1 DEF Sent, NoCalls
  <2>2. CASE EditMessage \/ CancelEdit
    BY <2>2 DEF EditMessage, CancelEdit, Replace, NoCalls, TypesRest
  <2>3. ASSUME NEW new \in SUBSET Calls, Answer(new) \/ OpenConversation(new)
        PROVE  call' \in [Calls -> Output \cup {"absent", "pending"}]
    BY <2>3 DEF Answer, OpenConversation, Loaded
  <2> QED
    BY <2>1, <2>2, <2>3 DEF Cleared
<1>3. /\ call' \in [Calls -> Statuses] /\ attempt' \in [Calls -> Nat]
      /\ \A c \in Calls : call'[c] # "running" /\ attempt'[c] = 0
  BY <1>1, <1>2 DEF Statuses, Listed, Output, NoAttempts
<1> QED
  BY <1>1, <1>3 DEF RuntimeInv, Fits

\* Every step keeps the types.
LEMMA TypeStep ==
    ASSUME RuntimeInv, TypesRest, [Next]_vars PROVE TypesRest'
<1> USE DEF TypesRest
<1>0. /\ NoCalls \in [Calls -> Output \cup {"absent"}] /\ Outputs \in [Calls -> Output \cup {"absent"}]
      /\ NewTracker \in [observed : SUBSET Calls, automatic : BOOLEAN, tried : SUBSET Calls]
      /\ Having("pending") \subseteq Calls /\ ToolCalls \subseteq Calls
      /\ Observed \in [observed : SUBSET Calls, automatic : BOOLEAN, tried : SUBSET Calls]
      /\ Blocked \in BOOLEAN
  <2>1. NoCalls \in [Calls -> Output \cup {"absent"}] /\ Outputs \in [Calls -> Output \cup {"absent"}]
    BY DEF NoCalls, Outputs
  <2>2. /\ NewTracker \in [observed : SUBSET Calls, automatic : BOOLEAN, tried : SUBSET Calls]
        /\ Having("pending") \subseteq Calls /\ ToolCalls \subseteq Calls
    BY DEF NewTracker, Having, ToolCalls
  <2>3. Observed \in [observed : SUBSET Calls, automatic : BOOLEAN, tried : SUBSET Calls]
    BY <2>2 DEF Observed
  <2>4. Blocked \in BOOLEAN
    BY DEF Blocked
  <2> QED
    BY <2>1, <2>2, <2>3, <2>4
<1>1. ASSUME NEW c \in Calls, Run(c) \/ Discard(c) \/ Retry(c) PROVE TypesRest'
  BY <1>1 DEF Run, Discard, Retry, sending, history
<1>2. CASE RunAll \/ RunAndSend
  BY <1>0, <1>2 DEF RunAll, RunAndSend, sending, history
<1>3. CASE Effects
  BY <1>0, <1>3 DEF Effects, sending, history
<1>4. ASSUME NEW f \in flights, NEW result, Finish(f, result) PROVE TypesRest'
  BY <1>4 DEF Finish, sending, history
<1>5. CASE Stop \/ Send \/ FastForwardEnds \/ AutoCancelEdit \/ WorkspaceChanges
  BY <1>0, <1>5 DEF Stop, Send, FastForwardEnds, AutoCancelEdit, WorkspaceChanges, BeginSubmit,
                    sending, history
<1>6. CASE Prepare \/ SubmitFails
  BY <1>0, <1>6 DEF Prepare, SubmitFails, EndSubmit, history
<1>7. CASE AutoSubmit
  BY <1>0, <1>7 DEF AutoSubmit, BeginSubmit, sending, history
<1>8. ASSUME NEW new \in SUBSET Calls, NEW quiet \in BOOLEAN, Reload(new, quiet)
      PROVE  /\ suppressed' \subseteq Calls /\ asked' \subseteq Calls
             /\ tracker' \in [observed : SUBSET Calls, automatic : BOOLEAN, tried : SUBSET Calls]
             /\ workspaceBlocked' \in BOOLEAN
  BY <1>0, <1>8 DEF Reload
<1>9. CASE Sent
  <2>1. Reload({}, FALSE)
    BY <1>9 DEF Sent
  <2> QED
    BY <1>0, <1>8, <1>9, <2>1 DEF Sent, EndSubmit
<1>10. CASE EditMessage \/ CancelEdit
  <2>1. Reload({}, FALSE)
    BY <1>10 DEF EditMessage, CancelEdit, Replace
  <2> QED
    BY <1>8, <1>10, <2>1 DEF EditMessage, CancelEdit, Replace, sending
<1>11. ASSUME NEW new \in SUBSET Calls, Answer(new) PROVE TypesRest'
  <2>1. Reload(new, stopped) /\ stopped \in BOOLEAN
    BY <1>11 DEF Answer
  <2> QED
    BY <1>8, <1>11, <2>1 DEF Answer
<1>12. ASSUME NEW new \in SUBSET Calls, OpenConversation(new) PROVE TypesRest'
  <2>1. Reload(new, TRUE)
    BY <1>12 DEF OpenConversation
  <2> QED
    BY <1>8, <1>12, <2>1 DEF OpenConversation, sending
<1>13. CASE UNCHANGED vars
  BY <1>13 DEF vars, sending, history
<1> QED
  BY <1>1, <1>2, <1>3, <1>4, <1>5, <1>6, <1>7, <1>9, <1>10, <1>11, <1>12, <1>13 DEF Next, User

(***************************************************************************)
(* Every call is answered.                                                 *)
(***************************************************************************)
\* The calls to answer stay listed or answered while the message is prepared, and no
\* other calls come until it is sent.
Answered ==
    /\ \A c \in Due : call[c] # "absent"
    /\ editing => batch = {} /\ ~generating
    /\ generating => submit = "no"
    /\ EveryCallIsAnswered

\* Every step keeps what is known of the answers.
LEMMA AnsweredStep ==
    ASSUME RuntimeInv, TypesRest, Answered, [Next]_vars PROVE Answered'
<1> USE DEF Answered, EveryCallIsAnswered, Due
<1>1. CASE Progress
  <2>1. batch' = batch /\ editing' = editing /\ UNCHANGED sending
    BY <1>1 DEF Progress, Run, Discard, Retry, RunAll, RunAndSend, Effects, Finish, history
  <2>2. CallsGoOn /\ batch \subseteq Calls
    BY <1>1, ProgressKeepsRuntime DEF TypesRest
  <2> QED
    BY <2>1, <2>2 DEF CallsGoOn, sending
<1>2. CASE Sent
  <2>1. submit' = "no" /\ batch' = {} /\ editing' = FALSE
    BY <1>2 DEF Sent, EndSubmit
  <2> QED
    BY <2>1
<1>3. CASE EditMessage \/ CancelEdit
  <2>0. (\E outputs \in {sent, NoCalls} : Replace(outputs)) /\ generating \in BOOLEAN
    BY <1>3 DEF EditMessage, CancelEdit, TypesRest
  <2>1. /\ batch' = {} /\ generating' = FALSE /\ submit' = "no" /\ sent' = sent
    BY <2>0 DEF Replace, sending
  <2>2. editing' = FALSE \/ (editing' = TRUE /\ call' = sent)
    BY <1>3 DEF EditMessage, CancelEdit, Replace
  <2>3. \A c \in Due' : call'[c] # "absent"
    BY <2>1, <2>2
  <2> QED
    BY <2>1, <2>3
<1>4. ASSUME NEW new \in SUBSET Calls, Answer(new) \/ OpenConversation(new) PROVE Answered'
  <2>1. submit' = "no" /\ batch' = new /\ editing' = FALSE /\ call' = Loaded(new)
    BY <1>4 DEF Answer, OpenConversation, TypesRest, sending
  <2>2. \A c \in new : call'[c] = "pending"
    BY <2>1 DEF Loaded
  <2> QED
    BY <2>1, <2>2
<1>5. CASE Prepare
  <2>0. /\ call' = call /\ batch' = batch /\ generating' = generating /\ editing' = editing
        /\ sent' = sent /\ Due \subseteq Calls
    BY <1>5 DEF Prepare, EndSubmit, runtime, history, TypesRest
  <2>1. CASE \E c \in Calls : call[c] \in Blocking
    BY <1>5, <2>0, <2>1 DEF Prepare, EndSubmit
  <2>2. CASE ~ \E c \in Calls : call[c] \in Blocking
    <3>1. submit = "starting" /\ submit' = "prepared" /\ payload' = Outputs
      BY <1>5, <2>2 DEF Prepare
    <3>2. \A c \in Due : call[c] \in Output
      BY <2>0, <2>2 DEF RuntimeInv, Fits, Statuses, Listed, Blocking, Unfinished
    <3>3. \A c \in Due : payload'[c] # "absent"
      BY <2>0, <3>1, <3>2 DEF Outputs, Output
    <3> QED
      BY <2>0, <3>1, <3>3
  <2> QED
    BY <2>1, <2>2
<1>6. CASE Stop \/ Send \/ SubmitFails \/ FastForwardEnds \/ AutoSubmit \/ WorkspaceChanges
           \/ UNCHANGED vars
  <2>1. /\ call' = call /\ batch' = batch /\ generating' = generating /\ editing' = editing
        /\ sent' = sent
    BY <1>6 DEF Stop, Send, SubmitFails, EndSubmit, FastForwardEnds, AutoSubmit, WorkspaceChanges,
                BeginSubmit, vars, runtime, history, sending
  <2>2. \/ submit' = submit /\ payload' = payload
        \/ submit' = "no"
        \/ submit' = "starting" /\ ~generating
    BY <1>6 DEF Stop, Send, SubmitFails, EndSubmit, FastForwardEnds, AutoSubmit, WorkspaceChanges,
                BeginSubmit, vars, sending
  <2> QED
    BY <2>1, <2>2
<1>7. CASE AutoCancelEdit
  BY <1>7 DEF AutoCancelEdit, runtime, sending, history
<1> QED
  BY <1>1, <1>2, <1>3, <1>4, <1>5, <1>6, <1>7, Steps DEF Cleared, Quiet

(***************************************************************************)
(* What the composer sends on its own.                                     *)
(***************************************************************************)
\* While nothing is edited or stopped, the tracker observes all the calls to answer.
Earned ==
    /\ ~editing /\ ~stopped => batch \subseteq tracker.observed
    /\ tracker.automatic => tracker.observed \subseteq Automatic
    /\ submit = "starting" /\ sender = "tracker" /\ ~editing =>
           \A c \in batch : c \in Automatic /\ call[c] = "ok"
    /\ OwnSendIsEarned

\* Every step keeps what is known of a submit of the composer's own.
LEMMA EarnedStep ==
    ASSUME RuntimeInv, TypesRest, Answered, Earned, [Next]_vars PROVE Earned'
<1> USE DEF Earned, OwnSendIsEarned, OwnSend
<1>0. /\ batch \subseteq Calls /\ NewTracker.observed = {} /\ DOMAIN NewTracker = DOMAIN tracker
      /\ tracker \in [observed : SUBSET Calls, automatic : BOOLEAN, tried : SUBSET Calls]
  BY DEF TypesRest, NewTracker
<1>1. CASE Progress
  <2>1. batch' = batch /\ UNCHANGED sending /\ editing' = editing /\ stopped' = stopped
    BY <1>1 DEF Progress, Run, Discard, Retry, RunAll, RunAndSend, Effects, Finish, history
  <2>2. CallsGoOn
    BY <1>1, ProgressKeepsRuntime
  <2>3. tracker' = tracker \/ tracker' = Observed
    BY <1>1 DEF Progress, Run, Discard, Retry, RunAll, RunAndSend, Effects, Finish
  <2>4. /\ ~editing /\ ~stopped => batch \subseteq Observed.observed
        /\ Observed.automatic => Observed.observed \subseteq Automatic
    <3>1. CASE ToolCalls # {}
      <4>1. /\ Observed.observed = tracker.observed \cup ToolCalls
            /\ Observed.automatic => tracker.automatic /\ ToolCalls \subseteq Eligible
        BY <1>0, <3>1 DEF Observed
      <4> QED
        BY <4>1 DEF Eligible
    <3>2. CASE ToolCalls = {} /\ \A c \in Calls : call[c] \notin Output
      <4>1. \A c \in Calls : call[c] = "absent"
        BY <3>2 DEF ToolCalls, RuntimeInv, Fits, Statuses
      <4>2. batch = {}
        BY <1>0, <4>1 DEF Answered, Due
      <4>3. Observed = NewTracker \/ Observed = tracker
        BY <3>2 DEF Observed
      <4> QED
        BY <1>0, <4>2, <4>3
    <3>3. CASE ToolCalls = {} /\ ~ \A c \in Calls : call[c] \notin Output
      BY <3>3 DEF Observed
    <3> QED
      BY <3>1, <3>2, <3>3
  <2> QED
    BY <1>0, <2>1, <2>2, <2>3, <2>4 DEF CallsGoOn, sending
<1>2. CASE Sent
  BY <1>0, <1>2 DEF Sent, EndSubmit, Reload
<1>3. CASE EditMessage \/ CancelEdit
  BY <1>0, <1>3 DEF EditMessage, CancelEdit, Replace, Reload, sending
<1>4. ASSUME NEW new \in SUBSET Calls, Answer(new) \/ OpenConversation(new) PROVE Earned'
  <2>1. submit' = "no" /\ batch' = new
    BY <1>4 DEF Answer, OpenConversation, Answered, sending
  <2>2. \E quiet \in BOOLEAN : Reload(new, quiet)
    BY <1>4 DEF Answer, OpenConversation, TypesRest
  <2>3. CASE new = {}
    BY <1>0, <2>1, <2>2, <2>3 DEF Reload
  <2>4. CASE new # {}
    <3>1. PICK quiet \in BOOLEAN :
              tracker' = [NewTracker EXCEPT !.observed = new, !.automatic = ~quiet /\ new \subseteq Automatic]
      BY <2>2, <2>4, Zenon DEF Reload
    <3>2. tracker'.observed = new /\ (tracker'.automatic => new \subseteq Automatic)
      BY <3>1 DEF NewTracker
    <3> QED
      BY <2>1, <3>2
  <2> QED
    BY <2>3, <2>4
<1>5. CASE Prepare
  <2>1. UNCHANGED <<call, tracker, stopped, editing, batch>>
    BY <1>5 DEF Prepare, runtime, history
  <2>2. CASE \E c \in Calls : call[c] \in Blocking
    <3>1. submit' = "no"
      BY <1>5, <2>2 DEF Prepare, EndSubmit
    <3> QED
      BY <2>1, <3>1
  <2>3. CASE ~ \E c \in Calls : call[c] \in Blocking
    <3>1. submit = "starting" /\ submit' = "prepared" /\ payload' = Outputs /\ sender' = sender
      BY <1>5, <2>3 DEF Prepare
    <3> QED
      <4>1. ASSUME sender = "tracker", ~editing, NEW c \in batch PROVE c \in Automatic /\ payload'[c] = "ok"
        <5>1. c \in Automatic /\ call[c] = "ok" /\ c \in Calls
          BY <1>0, <3>1, <4>1
        <5> QED
          BY <3>1, <5>1 DEF Outputs, Output
      <4> QED
        BY <2>1, <3>1, <4>1
  <2> QED
    BY <2>2, <2>3
<1>6. CASE AutoSubmit
  <2>1. /\ UNCHANGED <<call, stopped, editing, batch>>
        /\ submit' = "starting" \/ UNCHANGED sending
        /\ tracker' = [tracker EXCEPT !.tried = tracker.observed]
        /\ tracker.automatic /\ ~stopped /\ EveryResultIsGood
    BY <1>6 DEF AutoSubmit, MaySubmit, BeginSubmit, sending, runtime, history
  <2>2. tracker'.observed = tracker.observed /\ tracker'.automatic = tracker.automatic
    BY <1>0, <2>1
  <2> QED
    BY <2>1, <2>2 DEF EveryResultIsGood, sending
<1>7. CASE Stop
  BY <1>0, <1>7 DEF Stop, runtime, sending, history
<1>8. CASE Send \/ SubmitFails \/ FastForwardEnds \/ WorkspaceChanges \/ UNCHANGED vars
  <2>1. UNCHANGED <<call, tracker, stopped, editing, batch>>
    BY <1>8 DEF Send, SubmitFails, FastForwardEnds, WorkspaceChanges, vars, runtime, history
  <2>2. \/ UNCHANGED sending
        \/ submit' = "no"
        \/ submit' = "starting" /\ sender' = "user"
    BY <1>8 DEF Send, SubmitFails, EndSubmit, FastForwardEnds, WorkspaceChanges, BeginSubmit, vars,
                sending
  <2> QED
    BY <2>1, <2>2 DEF sending
<1>9. CASE AutoCancelEdit
  BY <1>9 DEF AutoCancelEdit, Answered, runtime, sending, history
<1> QED
  BY <1>1, <1>2, <1>3, <1>4, <1>5, <1>6, <1>7, <1>8, <1>9, Steps DEF Cleared, Quiet

(***************************************************************************)
(* The theorems.                                                           *)
(***************************************************************************)
Inv == RuntimeInv /\ TypesRest /\ Answered /\ Earned

\* The composer begins with its invariant.
LEMMA InitInv == Init => Inv
<1> SUFFICES ASSUME Init PROVE Inv
  OBVIOUS
<1>1. /\ call = [c \in Calls |-> "absent"] /\ attempt = [c \in Calls |-> 0]
      /\ runs = [c \in Calls |-> 0] /\ flights = {} /\ batch = {} /\ submit = "no"
  BY DEF Init, NoCalls, NoAttempts
<1>2. RuntimeInv
  BY <1>1 DEF RuntimeInv, Fits, Statuses
<1>3. TypesRest
  BY DEF Init, TypesRest, NoCalls, NewTracker
<1>4. Answered
  BY <1>1 DEF Init, Answered, EveryCallIsAnswered, Due
<1>5. Earned
  BY <1>1 DEF Init, Earned, OwnSendIsEarned, OwnSend, NewTracker
<1> QED
  BY <1>2, <1>3, <1>4, <1>5 DEF Inv

\* Every step keeps the invariant of the executions.
LEMMA RuntimeStep ==
    ASSUME RuntimeInv, TypesRest, [Next]_vars PROVE RuntimeInv'
<1>1. CASE Progress
  BY <1>1, ProgressKeepsRuntime
<1>2. CASE Cleared
  BY <1>2, ClearedKeepsRuntime
<1>3. CASE Quiet
  BY <1>3, QuietKeepsRuntime DEF runtime, RuntimeInv, Fits
<1> QED
  BY <1>1, <1>2, <1>3, Steps

\* Every step keeps the invariant.
LEMMA InvStep == Inv /\ [Next]_vars => Inv'
  BY RuntimeStep, TypeStep, AnsweredStep, EarnedStep DEF Inv

\* The calls, their attempts and the tracker keep in step (Inv), whatever the user presses
\* and however the loops of useToolRuntime and the drainer interleave.
THEOREM Invariance == Spec => []Inv
<1> QED
  BY InitInv, InvStep, PTL DEF Spec

\* The types of the composer's variables hold for any calls and any number of runs.
THEOREM TypeCorrect == Spec => []TypeOK
<1>1. Inv => TypeOK
  BY DEF Inv, RuntimeInv, Fits, TypesRest, TypeOK, Statuses
<1> QED
  BY <1>1, Invariance, PTL

\* A call shown as running is awaited by an execution whose result will count,
\* whatever was cleared, edited and retried before; and a call that is not running holds
\* no attempt key, so that no loop meets one that runToolCall refuses (useToolRuntime).
THEOREM NoRunningCallIsLost == Spec => []RunningIsAwaited
<1>1. Inv => RunningIsAwaited
  BY DEF Inv, RuntimeInv, Fits, RunningIsAwaited
<1> QED
  BY <1>1, Invariance, PTL

\* What doSubmit sends answers every call that is due: those of the last answer or of the
\* conversation opened, as long as no edit has cleared them, and those of the message that
\* is edited.
THEOREM NothingIsLeftUnanswered == Spec => []EveryCallIsAnswered
<1>1. Inv => EveryCallIsAnswered
  BY DEF Inv, Answered
<1> QED
  BY <1>1, Invariance, PTL

\* Outside an edit, the composer sends on its own only when every call was automatic
\* and has a good result, also when calls were retried or auto-execution was stopped.
THEOREM AutoSubmitIsEarned == Spec => []OwnSendIsEarned
<1>1. Inv => OwnSendIsEarned
  BY DEF Inv, Earned
<1> QED
  BY <1>1, Invariance, PTL

\* A stale execution never ends the running of a call: the one that does is the latest.
LEMMA LatestRunStep ==
    ASSUME RuntimeInv, TypesRest, [Next]_vars, NEW f \in flights \ flights',
           call[f.call] = "running", call'[f.call] # "running"
    PROVE  f.key = runs[f.call]
<1>1. \/ flights \subseteq flights'
      \/ \E g \in flights, result \in Output \cup {"failed"} : Finish(g, result)
  <2>1. CASE Cleared
    BY <2>1, ClearedKeepsRuntime
  <2>2. CASE Quiet
    BY <2>2, QuietKeepsRuntime DEF runtime
  <2>3. CASE Progress
    BY <2>3 DEF Progress, Run, Discard, Retry, RunAll, RunAndSend, Effects, Start, runtime
  <2> QED
    BY <2>1, <2>2, <2>3, Steps
<1>2. PICK g \in flights, result \in Output \cup {"failed"} : Finish(g, result)
  BY <1>1
<1>3. /\ call[g.call] = "running" /\ call'[g.call] # "running" => g.key = runs[g.call]
      /\ flights \ {g} \subseteq flights'
  BY <1>2, FinishGoesOn
<1> QED
  BY <1>3

\* Whatever is cleared, opened and retried while an execution is awaited, its result
\* ends a running call only when it is the latest one (LatestRunDecides).
THEOREM StaleResultsAreIgnored == Spec => LatestRunDecides
<1>1. Inv /\ [Next]_vars => [\A f \in flights \ flights' :
          call[f.call] = "running" /\ call'[f.call] # "running" => f.key = runs[f.call]]_vars
  BY LatestRunStep DEF Inv
<1> QED
  BY <1>1, Invariance, PTL DEF Spec, LatestRunDecides

(***************************************************************************)
(* Repetitions.                                                            *)
(***************************************************************************)
\* A call the user has not asked for has run at most once, and then does not wait: a
\* loop that outlives its calls finds it only failed or answered, and only the loop of
\* "Run tools and send", which holds calls the user has asked for, takes failed ones.
Unasked ==
    /\ \A c \in Calls : runs[c] # 0 => c \in made
    /\ \A c \in Calls : call[c] # "absent" \/ payload[c] # "absent" \/ sent[c] # "absent" => c \in made
    /\ \A c \in Calls \ asked : runs[c] <= 1 /\ (call[c] = "pending" => runs[c] = 0)
    /\ \A f \in flights : f.rest \subseteq asked

\* Starting a call that waits, or one that was asked for.
LEMMA StartKeepsUnasked ==
    ASSUME RuntimeInv, Unasked, NEW s \in [Calls -> Statuses], NEW a, NEW others,
           others \subseteq flights,
           \A d \in Calls : s[d] # "absent" => call[d] # "absent",
           \A d \in Calls : s[d] = "pending" => call[d] = "pending",
           NEW c \in Calls, NEW by, NEW rest \in SUBSET asked',
           Start(c, s, a, by, rest, others),
           c \in asked' \/ s[c] = "pending",
           asked \subseteq asked', UNCHANGED <<made, payload, sent>>
    PROVE  Unasked'
<1>1. /\ call' = [s EXCEPT ![c] = "running"]
      /\ runs' = [runs EXCEPT ![c] = runs[c] + 1]
      /\ flights' = others \cup {Flight(c, runs[c] + 1, by, rest)}
      /\ s[c] \in {"pending", "failed"}
  BY DEF Start, Startable
<1>2. runs \in [Calls -> Nat]
  BY DEF RuntimeInv, Fits
<1>3. /\ call'[c] = "running" /\ runs'[c] = runs[c] + 1
      /\ \A d \in Calls : d # c => call'[d] = s[d] /\ runs'[d] = runs[d]
  BY <1>1, <1>2
<1>4. \A d \in Calls : runs'[d] # 0 => d \in made'
  BY <1>1, <1>3 DEF Unasked
<1>5. \A d \in Calls :
        call'[d] # "absent" \/ payload'[d] # "absent" \/ sent'[d] # "absent" => d \in made'
  BY <1>1, <1>3 DEF Unasked
<1>6. \A d \in Calls \ asked' : runs'[d] <= 1 /\ (call'[d] = "pending" => runs'[d] = 0)
  <2> SUFFICES ASSUME NEW d \in Calls, d \notin asked'
               PROVE  runs'[d] <= 1 /\ (call'[d] = "pending" => runs'[d] = 0)
    OBVIOUS
  <2>1. CASE d = c
    BY <2>1, <1>3 DEF Unasked
  <2>2. CASE d # c
    BY <2>2, <1>3 DEF Unasked
  <2> QED
    BY <2>1, <2>2
<1>7. \A f \in flights' : f.rest \subseteq asked'
  <2>1. Flight(c, runs[c] + 1, by, rest).rest \subseteq asked'
    BY DEF Flight
  <2>2. \A f \in others : f.rest \subseteq asked'
    BY DEF Unasked
  <2> QED
    BY <2>1, <2>2, <1>1
<1> QED
  BY <1>4, <1>5, <1>6, <1>7 DEF Unasked

\* A loop or the user goes on with the calls.
LEMMA ProgressKeepsUnasked ==
    ASSUME RuntimeInv, TypesRest, Unasked, Progress PROVE Unasked'
<1>0. /\ call \in [Calls -> Statuses] /\ runs \in [Calls -> Nat] /\ flights \subseteq Flights
      /\ asked \subseteq Calls
  BY DEF RuntimeInv, Fits, TypesRest
<1>1. ASSUME NEW c \in Calls, Run(c) PROVE Unasked'
  <2>1. /\ Start(c, call, attempt, "user", {}, flights) /\ asked' = asked \cup {c}
        /\ UNCHANGED <<made, payload, sent>>
    BY <1>1 DEF Run, sending
  <2> QED
    BY <1>0, <2>1, StartKeepsUnasked
<1>2. ASSUME NEW c \in Calls, Discard(c) PROVE Unasked'
  <2>1. /\ call' = [call EXCEPT ![c] = "error"] /\ call[c] \in {"pending", "failed"}
        /\ UNCHANGED <<runs, flights, made, asked, payload, sent>>
    BY <1>2 DEF Discard, sending, history
  <2> QED
    BY <1>0, <2>1 DEF Unasked
<1>3. ASSUME NEW c \in Calls, Retry(c) PROVE Unasked'
  <2>1. /\ call' = [call EXCEPT ![c] = "pending"] /\ call[c] = "error"
        /\ asked' = asked \cup {c}
        /\ UNCHANGED <<runs, flights, made, payload, sent>>
    BY <1>3 DEF Retry, sending
  <2> QED
    BY <1>0, <2>1 DEF Unasked
<1>4. CASE RunAll
  <2>1. PICK c \in Having("pending") : Start(c, call, attempt, "all", {}, flights)
    BY <1>4 DEF RunAll
  <2>2. c \in Calls /\ asked' = asked \cup Having("pending") /\ UNCHANGED <<made, payload, sent>>
    BY <1>4 DEF RunAll, Having, sending
  <2> QED
    BY <1>0, <2>1, <2>2, StartKeepsUnasked
<1>5. CASE RunAndSend
  <2>1. PICK c \in Having("pending") :
            Start(c, call, attempt, "fastforward", Having("pending") \ {c}, flights)
    BY <1>5 DEF RunAndSend
  <2>2. c \in Calls /\ asked' = asked \cup Having("pending") /\ UNCHANGED <<made, payload, sent>>
    BY <1>5 DEF RunAndSend, Having, sending
  <2>3. Having("pending") \ {c} \in SUBSET asked'
    BY <2>2
  <2> QED
    BY <1>0, <2>1, <2>2, <2>3, StartKeepsUnasked
<1>6. CASE Effects
  <2>1. UNCHANGED <<made, asked, payload, sent>>
    BY <1>6 DEF Effects, sending, history
  <2>2. CASE \E c \in Calls : PumpMayStart(c)
    <3>1. PICK c \in Calls : PumpMayStart(c) /\ Start(c, call, attempt, "pump", {}, flights)
      BY <1>6, <2>2 DEF Effects
    <3>2. call[c] = "pending" /\ {} \in SUBSET asked'
      BY <3>1 DEF PumpMayStart
    <3> QED
      BY <1>0, <2>1, <3>1, <3>2, StartKeepsUnasked
  <2>3. CASE ~ \E c \in Calls : PumpMayStart(c)
    BY <1>6, <2>1, <2>3 DEF Effects, runtime, Unasked
  <2> QED
    BY <2>2, <2>3
<1>7. ASSUME NEW f \in flights, NEW result \in Output \cup {"failed"}, Finish(f, result)
      PROVE  Unasked'
  <2> DEFINE s == After(f, result)
             a == KeysAfter(f)
             others == flights \ {f}
  <2>1. f \in Flights /\ f.call \in Calls /\ f.by \in Loops /\ f.rest \subseteq asked
    BY <1>0 DEF Flights, Loops, Unasked
  <2>2. /\ s \in [Calls -> Statuses]
        /\ \A d \in Calls : d # f.call \/ ~IsCurrent(f) => s[d] = call[d]
        /\ IsCurrent(f) => call[f.call] = "running" /\ s[f.call] = result
    BY ReturnFits DEF Fits
  <2>3. /\ \A d \in Calls : s[d] # "absent" => call[d] # "absent"
        /\ \A d \in Calls : s[d] = "pending" => call[d] = "pending"
    BY <2>1, <2>2 DEF Output
  <2>4. UNCHANGED <<made, asked, payload, sent>>
    BY <1>7 DEF Finish, sending, history
  <2>5. \/ call' = s /\ flights' = others /\ runs' = runs
        \/ \E c \in Candidates(f, s), skipped \in SUBSET (f.rest \ Candidates(f, s)) :
              Start(c, s, a, f.by, (f.rest \ {c}) \ skipped, others)
    BY <1>7 DEF Finish, After, KeysAfter
  <2>6. Candidates(f, s) \subseteq Calls
    BY <2>1, CandidatesAreCalls
  <2>7. \A c \in Candidates(f, s) : c \in f.rest \/ s[c] = "pending"
    BY <2>1 DEF Candidates, Loops
  <2> HIDE DEF s, a
  <2>8. CASE call' = s /\ flights' = others /\ runs' = runs
    BY <2>3, <2>4, <2>8 DEF Unasked
  <2>9. CASE \E c \in Candidates(f, s), skipped \in SUBSET (f.rest \ Candidates(f, s)) :
                Start(c, s, a, f.by, (f.rest \ {c}) \ skipped, others)
    <3>1. PICK c \in Candidates(f, s), skipped \in SUBSET (f.rest \ Candidates(f, s)) :
              Start(c, s, a, f.by, (f.rest \ {c}) \ skipped, others)
      BY <2>9
    <3>2. /\ c \in Calls /\ (c \in asked' \/ s[c] = "pending")
          /\ (f.rest \ {c}) \ skipped \in SUBSET asked'
      BY <2>1, <2>4, <2>6, <2>7
    <3> QED
      BY <2>2, <2>3, <2>4, <3>1, <3>2, StartKeepsUnasked
  <2> QED
    BY <2>5, <2>8, <2>9
<1> QED
  BY <1>1, <1>2, <1>3, <1>4, <1>5, <1>6, <1>7 DEF Progress

\* Calls that are loaded have not run, unless they come back with an edit, answered.
LEMMA ClearedKeepsUnasked ==
    ASSUME ~Reopens, RuntimeInv, TypesRest, Unasked, Cleared PROVE Unasked'
<1>1. runs' = runs /\ flights' = flights /\ asked' = asked
  BY DEF Cleared, Sent, EditMessage, CancelEdit, Replace, Answer, OpenConversation, Reload
<1>2. CASE Sent
  <2>1. call' = NoCalls /\ payload' = NoCalls /\ sent' = payload /\ made' = made
    BY <1>2 DEF Sent, EndSubmit
  <2> QED
    BY <1>1, <2>1 DEF Unasked, NoCalls
<1>3. CASE EditMessage \/ CancelEdit
  <2>1. call' \in {sent, NoCalls} /\ UNCHANGED <<payload, sent, made>>
    BY <1>3 DEF EditMessage, CancelEdit, Replace, sending
  <2>2. \A c \in Calls : sent[c] # "pending"
    BY DEF TypesRest, Output
  <2> QED
    BY <1>1, <2>1, <2>2 DEF Unasked, NoCalls
<1>4. ASSUME NEW new \in SUBSET Calls, Answer(new) \/ OpenConversation(new) PROVE Unasked'
  <2>1. /\ new \cap made = {} /\ made' = made \cup new
        /\ call' = Loaded(new) /\ UNCHANGED <<payload, sent>>
    BY <1>4 DEF Answer, OpenConversation, sending
  <2>2. \A c \in Calls : call'[c] = IF c \in new THEN "pending" ELSE "absent"
    BY <2>1 DEF Loaded
  <2>3. \A c \in new : runs[c] = 0
    BY <2>1 DEF Unasked
  <2> QED
    BY <1>1, <2>1, <2>2, <2>3 DEF Unasked
<1> QED
  BY <1>2, <1>3, <1>4 DEF Cleared

\* A step that leaves the calls alone repeats none.
LEMMA QuietKeepsUnasked ==
    ASSUME TypesRest, Unasked, Quiet PROVE Unasked'
<1>1. UNCHANGED <<runtime, made, asked>>
  BY DEF Quiet, Stop, Send, Prepare, SubmitFails, FastForwardEnds, AutoSubmit, AutoCancelEdit,
         WorkspaceChanges, vars, history
<1>2. /\ sent' = sent
      /\ payload' = payload \/ payload' = NoCalls \/ payload' = Outputs
  BY DEF Quiet, Stop, Send, Prepare, SubmitFails, FastForwardEnds, AutoSubmit, AutoCancelEdit,
         WorkspaceChanges, BeginSubmit, EndSubmit, vars, sending
<1>3. \A c \in Calls : payload'[c] # "absent" => payload[c] # "absent" \/ call[c] # "absent"
  BY <1>2 DEF NoCalls, Outputs, Output
<1> QED
  BY <1>1, <1>2, <1>3 DEF Unasked, runtime

\* Unless a conversation is opened again while its calls are unanswered, a call runs a
\* second time only after the user has run, retried or sent it (RepeatsAreAsked): no
\* loop of the drainer, of "Run tools only" or of "Run tools and send" repeats it,
\* however long the loop outlives the calls it was started for.
THEOREM NoLoopRepeatsACall ==
    ASSUME ~Reopens PROVE Spec => []RepeatsAreAsked
<1>1. Init => Unasked
  <2> SUFFICES ASSUME Init PROVE Unasked
    OBVIOUS
  <2>1. \A c \in Calls : /\ call[c] = "absent" /\ payload[c] = "absent" /\ sent[c] = "absent"
                        /\ runs[c] = 0
    BY DEF Init, NoCalls, NoAttempts
  <2>2. flights = {}
    BY DEF Init
  <2> QED
    BY <2>1, <2>2 DEF Unasked
<1>2. Inv /\ Unasked /\ [Next]_vars => Unasked'
  BY Steps, ProgressKeepsUnasked, ClearedKeepsUnasked, QuietKeepsUnasked DEF Inv
<1>3. Inv /\ Unasked => RepeatsAreAsked
  <2> SUFFICES ASSUME Inv, Unasked, NEW c \in Calls, runs[c] > 1 PROVE c \in asked
    BY DEF RepeatsAreAsked
  <2>1. runs[c] \in Nat
    BY DEF Inv, RuntimeInv, Fits
  <2> QED
    BY <2>1 DEF Unasked
<1> QED
  BY <1>1, <1>2, <1>3, Invariance, PTL DEF Spec
=============================================================================
