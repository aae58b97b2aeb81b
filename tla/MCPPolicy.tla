------------------------------ MODULE MCPPolicy ------------------------------
(***************************************************************************)
(* The effective policy of an MCP server and what it decides about a tool: *)
(* internal/mcp/runtime/policy, its caller in store/consumerapi/           *)
(* resolver.go, and the checks of runtime/invocation/bridge.go.            *)
(*                                                                         *)
(* A server has at most one primary policy; its installation selects       *)
(* additional ones.  They are composed into one effective policy, which a  *)
(* conversation may tighten for a tool it has mapped.  Only what the       *)
(* policies say of one tool matters to the decisions on its calls, so a    *)
(* policy here holds its defaults and at most one override.                *)
(***************************************************************************)
EXTENDS Naturals, Sequences, SequencesExt

CONSTANTS
    Policies,        \* policies a server or an installation may name, normalised
    Baseline,        \* the application's own
    Digests,         \* digests of the tool's descriptor
    NoDigest,
    NoOverride,
    NoPolicy,
    Tools,           \* descriptors of the tool
    MaxAdditional    \* bound on additional policies

Rules == {"allow", "ask", "deny"}
Modes == {"auto", "manual"}

Overrides ==
    [approval : Rules \cup {"unset"}, execution : Modes \cup {"unset"},
     allowStale : BOOLEAN, expected : Digests \cup {NoDigest}]

Policy ==
    [trust : {"trusted", "untrusted"}, approval : Rules, execution : Modes,
     askUnknown : BOOLEAN, askWrite : BOOLEAN, askDestructive : BOOLEAN,
     appsEnabled : BOOLEAN, appCalls : BOOLEAN,
     override : Overrides \cup {NoOverride}]

Hints == {"unset", "true", "false"}

Tool ==
    [destructiveHint : Hints, openWorldHint : Hints, readOnlyHint : BOOLEAN,
     digest : Digests, visibility : SUBSET {"model", "app"}, taskRequired : BOOLEAN]

Requests == [digest : Digests \cup {NoDigest}, source : {"user", "model", "app"}]

ASSUME PoliciesType == Policies \subseteq Policy
ASSUME BaselineType == Baseline \in Policy
ASSUME ToolsType == Tools \subseteq Tool
ASSUME NoDigestOutside == NoDigest \notin Digests
ASSUME NoOverrideOutside == NoOverride \notin Overrides
ASSUME NoPolicyOutside == NoPolicy \notin Policy
ASSUME MaxAdditionalType == MaxAdditional \in Nat

VARIABLES
    primary,       \* the policy the server's document refers to
    additional     \* those the installation selected, in the order of their references

vars == <<primary, additional>>

TypeOK ==
    /\ primary \in Policies \cup {NoPolicy}
    /\ additional \in Seq(Policies)
    /\ Len(additional) <= MaxAdditional

-----------------------------------------------------------------------------
(* Composition.  A definition named ..._X is a slip a change of the code   *)
(* could make; nothing uses it.                                            *)

In(ps) == {ps[i] : i \in DOMAIN ps}

Strictest(rules) ==
    IF "deny" \in rules THEN "deny" ELSE IF "ask" \in rules THEN "ask" ELSE "allow"

StrictestMode(modes) == IF "manual" \in modes THEN "manual" ELSE "auto"

\* EffectiveToolPolicy: the override's choice if it makes one.
RuleFor(p) ==
    IF p.override # NoOverride /\ p.override.approval # "unset"
      THEN p.override.approval
      ELSE p.approval
ModeFor(p) ==
    IF p.override # NoOverride /\ p.override.execution # "unset"
      THEN p.override.execution
      ELSE p.execution

Overriding(ps) == {p \in In(ps) : p.override # NoOverride}

Expecting(ps) == {i \in DOMAIN ps : ps[i] \in Overriding(ps) /\ ps[i].override.expected # NoDigest}

Conflict_X(ps) == FALSE

Conflict(ps) ==
    \E i, j \in Expecting(ps) : ps[i].override.expected # ps[j].override.expected

\* The first digest any of them expects.
Expected(ps) ==
    IF Expecting(ps) = {}
      THEN NoDigest
      ELSE ps[CHOOSE i \in Expecting(ps) : \A j \in Expecting(ps) : i <= j].override.expected

ComposedRule_X(ps) == Strictest({RuleFor(p) : p \in Overriding(ps)})

ComposedRule(ps) ==
    IF Conflict(ps) THEN "deny" ELSE Strictest({RuleFor(p) : p \in In(ps)})

StaleAllowed(ps) == ~Conflict(ps) /\ \A p \in Overriding(ps) : p.override.allowStale

\* composeToolPolicyOverride.
ComposedOverride(ps) ==
    IF Overriding(ps) = {}
      THEN NoOverride
      ELSE [approval |-> ComposedRule(ps),
            execution |-> StrictestMode({ModeFor(p) : p \in In(ps)}),
            allowStale |-> StaleAllowed(ps),
            expected |-> Expected(ps)]

\* composePolicies.
Compose(ps) ==
    [trust |-> IF \E p \in In(ps) : p.trust = "untrusted" THEN "untrusted" ELSE "trusted",
     approval |-> Strictest({p.approval : p \in In(ps)}),
     execution |-> StrictestMode({p.execution : p \in In(ps)}),
     askUnknown |-> \E p \in In(ps) : p.askUnknown,
     askWrite |-> \E p \in In(ps) : p.askWrite,
     askDestructive |-> \E p \in In(ps) : p.askDestructive,
     appsEnabled |-> \A p \in In(ps) : p.appsEnabled,
     appCalls |-> \A p \in In(ps) : p.appCalls,
     override |-> ComposedOverride(ps)]

\* effectivePolicy: the baseline counts only when there is nothing else.
Named == (IF primary = NoPolicy THEN <<>> ELSE <<primary>>) \o additional
Applied == IF Named = <<>> THEN <<Baseline>> ELSE Named
Effective == Compose(Applied)

-----------------------------------------------------------------------------
(* Decisions.                                                              *)

\* InferToolRisk: each assignment overrides the ones before it.
Risk(tool, trust) ==
    IF tool.destructiveHint = "false" THEN "write"
    ELSE IF tool.readOnlyHint /\ trust = "trusted" THEN "read"
    ELSE IF tool.openWorldHint = "true" THEN "openWorld"
    ELSE IF tool.destructiveHint = "true" THEN "destructive"
    ELSE "unknown"

AllowsStale(q) == q.override # NoOverride /\ q.override.allowStale

UnexpectedDigest(q, tool) ==
    /\ q.override # NoOverride
    /\ q.override.expected \notin {NoDigest, tool.digest}
    /\ ~q.override.allowStale

StaleRequest(q, tool, request) ==
    request.digest \notin {NoDigest, tool.digest} /\ ~AllowsStale(q)

VisibleTo(tool, reader) == tool.visibility = {} \/ reader \in tool.visibility

\* What the bridge refuses before it asks the policy.
Invisible(q, tool, request) ==
    IF request.source = "app"
      THEN ~q.appsEnabled \/ ~q.appCalls \/ ~VisibleTo(tool, "app")
      ELSE q.appsEnabled /\ ~VisibleTo(tool, "model")

\* Tools are enabled by the policy at their discovery, d; q is d, or d as a
\* mapping tightened it.
Enabled(d, tool) ==
    ~tool.taskRequired /\ RuleFor(d) # "deny" /\ ~UnexpectedDigest(d, tool)

RuleOf(d, q) == Strictest({RuleFor(d), RuleFor(q)})
ModeOf(d, q) == StrictestMode({ModeFor(d), ModeFor(q)})

RiskNeedsApproval(d, q, tool) ==
    LET risk == Risk(tool, d.trust)
    IN  \/ risk \in {"unknown", "openWorld"} /\ q.askUnknown
        \/ risk = "write" /\ q.askWrite
        \/ risk = "destructive" /\ q.askDestructive

Denied(d, q, tool, request) ==
    \/ ~Enabled(d, tool)
    \/ StaleRequest(q, tool, request)
    \/ Invisible(q, tool, request)
    \/ UnexpectedDigest(q, tool)
    \/ RuleOf(d, q) = "deny"

NeedsApproval(d, q, tool, request) ==
    \/ ModeOf(d, q) = "manual" /\ request.source # "user"
    \/ RuleOf(d, q) = "ask"
    \/ RiskNeedsApproval(d, q, tool)

\* EvaluateTool, with the checks before it: 0 allowed, 1 approval required, 2 denied.
Decision(d, q, tool, request) ==
    IF Denied(d, q, tool, request) THEN 2
    ELSE IF NeedsApproval(d, q, tool, request) THEN 1
    ELSE 0

\* EvaluateTool for a call without a mapping.
Verdict(d, tool, request) == Decision(d, d, tool, request)

Mappings == [approval : Rules, execution : Modes, digest : Digests]

\* TightenToolPolicy, for the tool the policy d allows.
Weakens(d, m) ==
    Strictest({RuleFor(d), m.approval}) # m.approval \/ StrictestMode({ModeFor(d), m.execution}) # m.execution

Tightened_X(d, m) ==
    [d EXCEPT !.override =
        [approval |-> m.approval,
         execution |-> "unset",
         allowStale |-> AllowsStale(d),
         expected |-> IF d.override = NoOverride THEN NoDigest ELSE d.override.expected]]

Tightened(d, m) ==
    [d EXCEPT !.override =
        [approval |-> m.approval,
         execution |-> m.execution,
         allowStale |-> AllowsStale(d),
         expected |-> IF d.override = NoOverride THEN NoDigest ELSE d.override.expected]]

\* EvaluateMapped: the request takes its digest from the mapping, which must be
\* that of the tool.
MappedVerdict(d, m, tool, source) ==
    IF m.digest # tool.digest \/ Weakens(d, m)
      THEN 2
      ELSE Decision(d, Tightened(d, m), tool, [digest |-> m.digest, source |-> source])

-----------------------------------------------------------------------------
(* What the server's document names and the installation selects.  The     *)
(* installation stores a whole list at a time; a step here changes one     *)
(* entry of it.                                                            *)

Full == Len(additional) >= MaxAdditional

Init == primary = NoPolicy /\ additional = <<>>

SetPrimary(p) == primary' = p /\ UNCHANGED additional

\* Where a policy comes in the order depends on its reference.
Select(p, i) ==
    /\ ~Full
    /\ additional' = InsertAt(additional, i, p)
    /\ UNCHANGED primary

Deselect(i) == additional' = RemoveAt(additional, i) /\ UNCHANGED primary

Next ==
    \/ \E p \in Policies \cup {NoPolicy} : SetPrimary(p)
    \/ \E p \in Policies, i \in 1 .. Len(additional) + 1 : Select(p, i)
    \/ \E i \in DOMAIN additional : Deselect(i)

Spec == Init /\ [][Next]_vars

-----------------------------------------------------------------------------
(* Properties.                                                             *)

Selecting == \E p \in Policies, i \in 1 .. Len(additional) + 1 : Select(p, i)

\* Requests the composition is monotone for: the digest is that of the tool, and
\* the tool is not hidden from the model that calls it.
Current(tool, request) ==
    /\ request.digest \in {NoDigest, tool.digest}
    /\ request.source # "app" => VisibleTo(tool, "model")

\* The decision on current requests is at least as strict after as before.
Tightens(before, after) ==
    \A tool \in Tools, request \in Requests :
        Current(tool, request) => Verdict(after, tool, request) >= Verdict(before, tool, request)

\* Selecting one more policy never makes the decision on a current request
\* weaker, wherever the policy comes in the order.
SelectionTightens ==
    [][Selecting /\ Named # <<>> => Tightens(Effective, Effective')]_vars

\* The order of the policies decides nothing.
OrderIsIrrelevant ==
    \A order \in {f \in [DOMAIN Applied -> DOMAIN Applied] : In(f) = DOMAIN Applied} :
        LET d == Effective
            e == Compose([i \in DOMAIN Applied |-> Applied[order[i]]])
        IN  \A tool \in Tools, request \in Requests :
                Verdict(d, tool, request) = Verdict(e, tool, request)

\* While a policy in force expects another digest than the tool's and does not
\* allow a stale one, no call of the tool is permitted, whatever the others say.
ExpectedDigestHolds ==
    LET d == Effective
    IN  \A p \in In(Applied), tool \in Tools, request \in Requests :
            UnexpectedDigest(p, tool) => Verdict(d, tool, request) = 2

\* A conversation's mapping weakens no decision of the policy, and what it asks
\* for itself is respected.
MappingIsRespected ==
    LET d == Effective
    IN  \A m \in Mappings, tool \in Tools, source \in {"user", "model", "app"} :
            LET verdict == MappedVerdict(d, m, tool, source)
            IN  /\ verdict >= Verdict(d, tool, [digest |-> m.digest, source |-> source])
                /\ m.approval = "deny" => verdict = 2
                /\ m.approval = "ask" => verdict >= 1
                /\ m.execution = "manual" /\ source # "user" => verdict >= 1
=============================================================================
