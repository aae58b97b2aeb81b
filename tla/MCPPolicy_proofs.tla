-------------------------- MODULE MCPPolicy_proofs --------------------------
(***************************************************************************)
(* Proofs about MCPPolicy.                                                 *)
(***************************************************************************)
EXTENDS MCPPolicy, WellFoundedInduction, SequenceTheorems, TLAPS

\* A set of numbers that is not empty has a least one.
LEMMA LeastExists ==
    ASSUME NEW T, T \subseteq Nat, T # {}
    PROVE  \E x \in T : \A y \in T : x <= y
<1>1. IsWellFoundedOn(OpToRel(<, Nat), Nat)
  BY NatLessThanWellFounded
<1>2. \E x \in T : \A y \in T : ~(<<y, x>> \in OpToRel(<, Nat))
  BY <1>1, WFMin
<1>3. PICK x \in T : \A y \in T : ~(<<y, x>> \in OpToRel(<, Nat))
  BY <1>2
<1>4. ASSUME NEW y \in T PROVE x <= y
  <2>1. x \in Nat /\ y \in Nat
    BY <1>4
  <2>2. ~(y < x)
    BY <2>1, <1>3 DEF OpToRel
  <2> QED BY <2>1, <2>2
<1> QED BY <1>4

-----------------------------------------------------------------------------
(* The composed policy.                                                    *)

\* The members of a sequence of policies, and those that override.
LEMMA Members ==
    ASSUME NEW ps \in Seq(Policy)
    PROVE  /\ In(ps) \subseteq Policy
           /\ Overriding(ps) \subseteq In(ps)
           /\ Expecting(ps) \subseteq Nat
           /\ \A i \in Expecting(ps) : ps[i] \in Overriding(ps) /\ ps[i].override \in Overrides
<1>1. \A i \in DOMAIN ps : ps[i] \in Policy /\ i \in Nat
  BY ElementOfSeq
<1>2. In(ps) \subseteq Policy
  BY <1>1 DEF In
<1>3. \A p \in Policy : p.override # NoOverride => p.override \in Overrides
  BY DEF Policy
<1> QED BY <1>1, <1>2, <1>3 DEF Overriding, Expecting, In

\* The composed override expects one of the digests that are expected.
LEMMA ExpectedIsOne ==
    ASSUME NEW ps \in Seq(Policy), Expecting(ps) # {}
    PROVE  \E i \in Expecting(ps) : Expected(ps) = ps[i].override.expected
<1>1. \E i \in Expecting(ps) : \A j \in Expecting(ps) : i <= j
  BY Members, LeastExists
<1> QED BY <1>1 DEF Expected

\* Without a conflict it is the digest every one of them expects.
LEMMA ExpectedIsAgreed ==
    ASSUME NEW ps \in Seq(Policy), ~Conflict(ps),
           NEW p \in Overriding(ps), p.override.expected # NoDigest
    PROVE  Expected(ps) = p.override.expected
<1>1. PICK i \in DOMAIN ps : ps[i] = p
  BY DEF Overriding, In
<1>2. i \in Expecting(ps)
  BY <1>1 DEF Expecting
<1>3. PICK j \in Expecting(ps) : Expected(ps) = ps[j].override.expected
  BY <1>2, ExpectedIsOne
<1> QED BY <1>1, <1>2, <1>3 DEF Conflict

\* What a policy says of a tool is a rule and a mode.
LEMMA RulesOfMembers ==
    ASSUME NEW p \in Policy
    PROVE  /\ RuleFor(p) \in Rules
           /\ ModeFor(p) \in Modes
BY DEF RuleFor, ModeFor, Policy, Overrides, Rules, Modes

\* There is a composed override exactly when a part overrides.
LEMMA OverrideOfComposed ==
    ASSUME NEW ps \in Seq(Policy)
    PROVE  /\ Overriding(ps) = {} => ComposedOverride(ps) = NoOverride
           /\ Overriding(ps) # {} => ComposedOverride(ps) \in Overrides /\ ComposedOverride(ps) # NoOverride
<1>1. ComposedRule(ps) \in Rules
  BY DEF ComposedRule, Strictest, Rules
<1>2. StrictestMode({ModeFor(p) : p \in In(ps)}) \in Modes
  BY DEF StrictestMode, Modes
<1>3. Expected(ps) \in Digests \cup {NoDigest}
  BY Members, ExpectedIsOne DEF Expected, Overrides
<1>4. StaleAllowed(ps) \in BOOLEAN
  BY DEF StaleAllowed
<1>5. Overriding(ps) # {} => ComposedOverride(ps) \in Overrides
  BY <1>1, <1>2, <1>3, <1>4 DEF ComposedOverride, Overrides
<1> QED BY <1>5, NoOverrideOutside DEF ComposedOverride

\* What the composed policy says of the tool is the strictest of what its parts
\* say, whether or not one of them overrides, and a denial if they conflict.
LEMMA RuleOfComposed ==
    ASSUME NEW ps \in Seq(Policy)
    PROVE  RuleFor(Compose(ps)) = ComposedRule(ps)
<1>1. CASE Overriding(ps) = {}
  <2>1. ~Conflict(ps)
    BY <1>1 DEF Conflict, Expecting
  <2>2. \A p \in In(ps) : RuleFor(p) = p.approval
    BY <1>1 DEF Overriding, RuleFor
  <2>3. {RuleFor(p) : p \in In(ps)} = {p.approval : p \in In(ps)}
    BY <2>2
  <2> QED BY <1>1, <2>1, <2>3 DEF RuleFor, Compose, ComposedOverride, ComposedRule
<1>2. CASE Overriding(ps) # {}
  <2>1. ComposedRule(ps) # "unset"
    BY DEF ComposedRule, Strictest
  <2> QED BY <1>2, <2>1, OverrideOfComposed DEF RuleFor, Compose, ComposedOverride
<1> QED BY <1>1, <1>2

\* The composed mode is the strictest of the members' modes.
LEMMA ModeOfComposed ==
    ASSUME NEW ps \in Seq(Policy)
    PROVE  ModeFor(Compose(ps)) = StrictestMode({ModeFor(p) : p \in In(ps)})
<1>1. CASE Overriding(ps) = {}
  <2>1. \A p \in In(ps) : ModeFor(p) = p.execution
    BY <1>1 DEF Overriding, ModeFor
  <2>2. {ModeFor(p) : p \in In(ps)} = {p.execution : p \in In(ps)}
    BY <2>1
  <2> QED BY <1>1, <2>2 DEF ModeFor, Compose, ComposedOverride
<1>2. CASE Overriding(ps) # {}
  <2>1. StrictestMode({ModeFor(p) : p \in In(ps)}) # "unset"
    BY DEF StrictestMode
  <2> QED BY <1>2, <2>1, OverrideOfComposed DEF ModeFor, Compose, ComposedOverride
<1> QED BY <1>1, <1>2

-----------------------------------------------------------------------------
(* More policies, stricter decisions.                                      *)

\* A conflict stays, and so does a denial or a question.
LEMMA RuleGrows ==
    ASSUME NEW ps \in Seq(Policy), NEW qs \in Seq(Policy), In(ps) \subseteq In(qs)
    PROVE  /\ Overriding(ps) \subseteq Overriding(qs)
           /\ Conflict(ps) => Conflict(qs)
           /\ ComposedRule(ps) = "deny" => ComposedRule(qs) = "deny"
           /\ ComposedRule(ps) = "ask" => ComposedRule(qs) \in {"ask", "deny"}
<1>1. Overriding(ps) \subseteq Overriding(qs)
  BY DEF Overriding
<1>2. ASSUME Conflict(ps) PROVE Conflict(qs)
  <2>1. PICK i, j \in Expecting(ps) : ps[i].override.expected # ps[j].override.expected
    BY <1>2 DEF Conflict
  <2>2. PICK k \in DOMAIN qs : qs[k] = ps[i]
    BY <1>1, Members DEF Overriding, In
  <2>3. PICK l \in DOMAIN qs : qs[l] = ps[j]
    BY <1>1, Members DEF Overriding, In
  <2>4. k \in Expecting(qs) /\ l \in Expecting(qs)
    BY <1>1, <2>2, <2>3 DEF Expecting
  <2> QED BY <2>1, <2>2, <2>3, <2>4 DEF Conflict
<1>3. {RuleFor(p) : p \in In(ps)} \subseteq {RuleFor(p) : p \in In(qs)}
  OBVIOUS
<1> QED BY <1>1, <1>2, <1>3 DEF ComposedRule, Strictest

\* A mode that is manual stays so when policies are added.
LEMMA ModeGrows ==
    ASSUME NEW ps \in Seq(Policy), NEW qs \in Seq(Policy), In(ps) \subseteq In(qs),
           ModeFor(Compose(ps)) = "manual"
    PROVE  ModeFor(Compose(qs)) = "manual"
BY ModeOfComposed DEF StrictestMode

\* A digest that is unexpected to some policies is unexpected to more of them, or
\* makes a conflict.
LEMMA UnexpectedStays ==
    ASSUME NEW ps \in Seq(Policy), NEW qs \in Seq(Policy), In(ps) \subseteq In(qs),
           NEW tool \in Tool, UnexpectedDigest(Compose(ps), tool)
    PROVE  UnexpectedDigest(Compose(qs), tool) \/ RuleFor(Compose(qs)) = "deny"
<1> DEFINE o == ComposedOverride(ps)
<1>1. /\ Overriding(ps) # {}
      /\ Expected(ps) \notin {NoDigest, tool.digest}
      /\ ~StaleAllowed(ps)
  <2>1. o # NoOverride /\ o.expected \notin {NoDigest, tool.digest} /\ ~o.allowStale
    BY DEF UnexpectedDigest, Compose
  <2> QED BY <2>1 DEF ComposedOverride
<1>2. CASE Conflict(qs)
  BY <1>2, RuleOfComposed DEF ComposedRule
<1>3. CASE ~Conflict(qs)
  <2>1. ~Conflict(ps)
    BY <1>3, RuleGrows
  <2>2. PICK p \in Overriding(ps) : ~p.override.allowStale
    BY <1>1, <2>1 DEF StaleAllowed
  <2>3. Expecting(ps) # {}
    BY <1>1 DEF Expected
  <2>4. PICK i \in Expecting(ps) : Expected(ps) = ps[i].override.expected
    BY <2>3, ExpectedIsOne
  <2>5. ps[i] \in Overriding(qs) /\ ps[i].override.expected # NoDigest
    BY <2>4, Members, RuleGrows DEF Expecting
  <2>6. Expected(qs) = Expected(ps)
    BY <1>3, <2>4, <2>5, ExpectedIsAgreed
  <2>7. p \in Overriding(qs) /\ ~StaleAllowed(qs)
    BY <2>2, RuleGrows DEF StaleAllowed
  <2>8. ComposedOverride(qs) # NoOverride
    BY <2>7, OverrideOfComposed
  <2>9. ComposedOverride(qs).expected = Expected(qs) /\ ComposedOverride(qs).allowStale = StaleAllowed(qs)
    BY <2>7 DEF ComposedOverride
  <2> QED BY <1>1, <2>6, <2>7, <2>8, <2>9 DEF UnexpectedDigest, Compose
<1> QED BY <1>2, <1>3

\* The flags and the trust of the composed policy.
LEMMA FlagsGrow ==
    ASSUME NEW ps \in Seq(Policy), NEW qs \in Seq(Policy), In(ps) \subseteq In(qs)
    PROVE  LET d == Compose(ps)
               e == Compose(qs)
           IN  /\ d.askUnknown => e.askUnknown
               /\ d.askWrite => e.askWrite
               /\ d.askDestructive => e.askDestructive
               /\ e.appsEnabled => d.appsEnabled
               /\ e.appCalls => d.appCalls
               /\ d.trust = "untrusted" => e.trust = "untrusted"
               /\ d.trust \in {"trusted", "untrusted"} /\ e.trust \in {"trusted", "untrusted"}
BY DEF Compose

\* A risk that needs approval still does when the trust or the flags get stricter.
LEMMA RiskGrows ==
    ASSUME NEW ps \in Seq(Policy), NEW qs \in Seq(Policy), In(ps) \subseteq In(qs),
           NEW tool \in Tool,
           RiskNeedsApproval(Compose(ps), Compose(ps), tool)
    PROVE  RiskNeedsApproval(Compose(qs), Compose(qs), tool)
<1> DEFINE d == Compose(ps)
           e == Compose(qs)
<1>1. Risk(tool, d.trust) # "read"
  BY DEF RiskNeedsApproval
<1>2. Risk(tool, e.trust) = Risk(tool, d.trust)
  BY <1>1, FlagsGrow DEF Risk
<1> QED BY <1>2, FlagsGrow DEF RiskNeedsApproval

\* The decision on a current request does not weaken when policies are added.
LEMMA DecisionGrows ==
    ASSUME NEW ps \in Seq(Policy), NEW qs \in Seq(Policy), In(ps) \subseteq In(qs),
           NEW tool \in Tool, NEW request \in Requests, Current(tool, request)
    PROVE  Verdict(Compose(qs), tool, request) >= Verdict(Compose(ps), tool, request)
<1> DEFINE d == Compose(ps)
           e == Compose(qs)
<1>1. RuleOf(d, d) = ComposedRule(ps) /\ RuleOf(e, e) = ComposedRule(qs)
  BY RuleOfComposed DEF RuleOf, Strictest, ComposedRule
<1>2. ModeOf(d, d) = "manual" => ModeOf(e, e) = "manual"
  BY ModeGrows DEF ModeOf, StrictestMode
<1>3. UnexpectedDigest(d, tool) => Denied(e, e, tool, request)
  BY UnexpectedStays DEF Denied, Enabled
<1>4. Invisible(d, tool, request) => Invisible(e, tool, request)
  BY FlagsGrow DEF Invisible, Current
<1>5. ~StaleRequest(d, tool, request)
  BY DEF StaleRequest, Current
<1>6. Denied(d, d, tool, request) => Denied(e, e, tool, request)
  <2>1. CASE tool.taskRequired
    BY <2>1 DEF Denied, Enabled
  <2>2. CASE RuleFor(d) = "deny" \/ RuleOf(d, d) = "deny"
    BY <2>2, <1>1, RuleOfComposed, RuleGrows DEF Denied
  <2> QED BY <2>1, <2>2, <1>3, <1>4, <1>5 DEF Denied, Enabled
<1>7. NeedsApproval(d, d, tool, request) =>
          Denied(e, e, tool, request) \/ NeedsApproval(e, e, tool, request)
  <2>1. CASE RuleOf(d, d) = "ask"
    BY <2>1, <1>1, RuleGrows DEF Denied, NeedsApproval
  <2> QED BY <2>1, <1>2, RiskGrows DEF NeedsApproval
<1> QED BY <1>6, <1>7 DEF Verdict, Decision

-----------------------------------------------------------------------------
(* The invariant and the theorems.                                         *)

\* InsertAt keeps every element, in its place or one place further.
LEMMA Insertion ==
    ASSUME NEW S, NEW s \in Seq(S), NEW e \in S, NEW i \in 1 .. Len(s) + 1
    PROVE  /\ InsertAt(s, i, e) \in Seq(S)
           /\ Len(InsertAt(s, i, e)) = Len(s) + 1
           /\ \A j \in 1 .. Len(s) : j < i => InsertAt(s, i, e)[j] = s[j]
           /\ \A j \in 1 .. Len(s) : ~(j < i) => InsertAt(s, i, e)[j + 1] = s[j]
<1> DEFINE front == SubSeq(s, 1, i - 1)
           back == SubSeq(s, i, Len(s))
<1>1. Len(s) \in Nat /\ i \in Nat
  BY LenProperties
<1>2. /\ front \in Seq(S) /\ Len(front) = i - 1
      /\ \A j \in 1 .. i - 1 : front[j] = s[j]
  BY <1>1
<1>3. /\ back \in Seq(S) /\ Len(back) = Len(s) - i + 1
      /\ \A j \in 1 .. Len(s) - i + 1 : back[j] = s[i + j - 1]
  BY <1>1
<1> DEFINE head == front \o <<e>>
<1>4. /\ head \in Seq(S) /\ Len(head) = i
      /\ \A j \in 1 .. i - 1 : head[j] = s[j]
  BY <1>1, <1>2
<1> HIDE DEF front, back, head
<1>5. /\ head \o back \in Seq(S) /\ Len(head \o back) = Len(s) + 1
      /\ \A j \in 1 .. i : (head \o back)[j] = head[j]
      /\ \A j \in i + 1 .. Len(s) + 1 : (head \o back)[j] = back[j - i]
  BY <1>1, <1>3, <1>4, ConcatProperties
<1>6. \A j \in 1 .. Len(s) : j < i => (head \o back)[j] = s[j]
  BY <1>1, <1>4, <1>5
<1>7. ASSUME NEW j \in 1 .. Len(s), ~(j < i) PROVE (head \o back)[j + 1] = s[j]
  <2>1. j + 1 \in i + 1 .. Len(s) + 1 /\ j + 1 - i \in 1 .. Len(s) - i + 1
    BY <1>1, <1>7
  <2>2. (head \o back)[j + 1] = back[j + 1 - i]
    BY <2>1, <1>5
  <2>3. back[j + 1 - i] = s[i + (j + 1 - i) - 1] /\ i + (j + 1 - i) - 1 = j
    BY <2>1, <1>1, <1>3
  <2> QED BY <2>2, <2>3
<1> QED BY <1>5, <1>6, <1>7 DEF InsertAt, head, front, back

\* The policies a server names are policies, and within the bound.
LEMMA TypeInvariant == Spec => []TypeOK
<1>1. Init => TypeOK
  BY MaxAdditionalType DEF Init, TypeOK
<1>2. TypeOK /\ [Next]_vars => TypeOK'
  <2> SUFFICES ASSUME TypeOK, [Next]_vars PROVE TypeOK'
    OBVIOUS
  <2> USE MaxAdditionalType DEF TypeOK
  <2>1. ASSUME NEW p \in Policies \cup {NoPolicy}, SetPrimary(p) PROVE TypeOK'
    BY <2>1 DEF SetPrimary
  <2>2. ASSUME NEW p \in Policies, NEW i \in 1 .. Len(additional) + 1, Select(p, i) PROVE TypeOK'
    <3>1. /\ additional' \in Seq(Policies)
          /\ Len(additional') = Len(additional) + 1
      BY <2>2, Insertion DEF Select
    <3> QED BY <2>2, <3>1, LenProperties DEF Select, Full
  <2>3. ASSUME NEW i \in DOMAIN additional, Deselect(i) PROVE TypeOK'
    BY <2>3 DEF Deselect, RemoveAt
  <2>4. CASE UNCHANGED vars
    BY <2>4 DEF vars
  <2> QED BY <2>1, <2>2, <2>3, <2>4 DEF Next
<1> QED BY <1>1, <1>2, PTL DEF Spec

\* The policies in force are policies, and there is at least one.
LEMMA AppliedType ==
    ASSUME TypeOK
    PROVE  Applied \in Seq(Policy) /\ In(Applied) # {} /\ In(Applied) \subseteq Policy
<1>1. additional \in Seq(Policy)
  BY PoliciesType DEF TypeOK
<1>2. Named \in Seq(Policy)
  BY <1>1, PoliciesType DEF Named, TypeOK
<1>3. Applied \in Seq(Policy) /\ Applied # <<>>
  BY <1>2, BaselineType DEF Applied
<1> QED BY <1>3, Members DEF In

\* Selecting a policy keeps those that were in force.
LEMMA SelectionGrows ==
    ASSUME TypeOK, NEW p \in Policies, NEW i \in 1 .. Len(additional) + 1, Select(p, i),
           Named # <<>>
    PROVE  In(Applied) \subseteq In(Applied') /\ Applied' \in Seq(Policy)
<1>1. additional \in Seq(Policies) /\ additional' = InsertAt(additional, i, p) /\ primary' = primary
  BY DEF TypeOK, Select
<1>2. /\ additional' \in Seq(Policies)
      /\ Len(additional') = Len(additional) + 1
      /\ \A j \in 1 .. Len(additional) : j < i => additional'[j] = additional[j]
      /\ \A j \in 1 .. Len(additional) : ~(j < i) => additional'[j + 1] = additional[j]
  BY <1>1, Insertion
<1>3. ASSUME NEW j \in DOMAIN additional
      PROVE  \E k \in DOMAIN additional' : additional'[k] = additional[j]
  <2>1. CASE j < i
    <3>1. j \in DOMAIN additional' /\ additional'[j] = additional[j]
      BY <1>1, <1>2, <1>3, <2>1
    <3> QED BY <3>1
  <2>2. CASE ~(j < i)
    <3>1. j + 1 \in DOMAIN additional' /\ additional'[j + 1] = additional[j]
      BY <1>1, <1>2, <1>3, <2>2
    <3> QED BY <3>1
  <2> QED BY <2>1, <2>2
<1>4. Named' # <<>> /\ In(Named) \subseteq In(Named')
  <2>1. CASE primary = NoPolicy
    <3>1. Named = additional /\ Named' = additional'
      BY <1>1, <1>2, <2>1 DEF Named
    <3>2. additional # <<>> /\ additional' # <<>>
      BY <3>1, <1>1, Insertion
    <3> QED BY <3>1, <3>2, <1>3 DEF In
  <2>2. CASE primary # NoPolicy
    <3>1. Named = <<primary>> \o additional /\ Named' = <<primary>> \o additional'
      BY <1>1, <2>2 DEF Named
    <3>2. primary \in Policies
      BY <2>2 DEF TypeOK
    <3>3. ASSUME NEW j \in DOMAIN Named PROVE \E k \in DOMAIN Named' : Named'[k] = Named[j]
      <4>1. CASE j = 1
        <5>1. 1 \in DOMAIN Named' /\ Named'[1] = primary /\ Named[1] = primary
          BY <3>1, <3>2, <1>1, <1>2
        <5> QED BY <4>1, <5>1
      <4>2. CASE j # 1
        <5>1. j - 1 \in DOMAIN additional /\ Named[j] = additional[j - 1]
          BY <4>2, <3>1, <3>2, <3>3, <1>1
        <5>2. PICK k \in DOMAIN additional' : additional'[k] = additional[j - 1]
          BY <5>1, <1>3
        <5>3. k + 1 \in DOMAIN Named' /\ Named'[k + 1] = additional'[k]
          BY <5>2, <3>1, <3>2, <1>2
        <5> QED BY <5>1, <5>2, <5>3
      <4> QED BY <4>1, <4>2
    <3>4. Named' # <<>>
      BY <3>1, <1>2, <3>2
    <3> QED BY <3>3, <3>4 DEF In
  <2> QED BY <2>1, <2>2
<1>5. Applied' \in Seq(Policy)
  <2>1. additional' \in Seq(Policy)
    BY <1>2, PoliciesType
  <2>2. Named' \in Seq(Policy)
    BY <1>1, <2>1, PoliciesType DEF Named, TypeOK
  <2> QED BY <2>2, BaselineType DEF Applied
<1> QED BY <1>4, <1>5 DEF Applied

\* Selecting an additional policy only tightens (SelectionTightens), for any
\* policies, tools and number of policies: restrictiveness of composePolicies.
THEOREM SelectionOnlyTightens == Spec => SelectionTightens
<1>1. TypeOK /\ [Next]_vars => [Selecting /\ Named # <<>> => Tightens(Effective, Effective')]_vars
  <2> SUFFICES ASSUME TypeOK, Selecting, Named # <<>>
               PROVE  Tightens(Effective, Effective')
    OBVIOUS
  <2>1. In(Applied) \subseteq In(Applied')
    BY SelectionGrows DEF Selecting
  <2>2. Applied \in Seq(Policy) /\ Applied' \in Seq(Policy)
    BY AppliedType, SelectionGrows DEF Selecting
  <2>3. Effective = Compose(Applied) /\ Effective' = Compose(Applied')
    BY DEF Effective
  <2> QED BY <2>1, <2>2, <2>3, DecisionGrows, ToolsType DEF Tightens
<1> QED BY <1>1, TypeInvariant, PTL DEF Spec, SelectionTightens

\* A digest that one of the policies does not expect is refused by all of them
\* together, because the composed policy does not expect it or there is a conflict.
LEMMA UnexpectedCounts ==
    ASSUME NEW ps \in Seq(Policy), NEW p \in In(ps), NEW tool \in Tool, UnexpectedDigest(p, tool)
    PROVE  UnexpectedDigest(Compose(ps), tool) \/ RuleFor(Compose(ps)) = "deny"
<1>1. p \in Overriding(ps) /\ p.override.expected # NoDigest
  BY DEF UnexpectedDigest, Overriding
<1>2. CASE Conflict(ps)
  BY <1>2, RuleOfComposed DEF ComposedRule
<1>3. CASE ~Conflict(ps)
  <2>1. Expected(ps) = p.override.expected
    BY <1>1, <1>3, ExpectedIsAgreed
  <2>2. ~StaleAllowed(ps)
    BY <1>1 DEF StaleAllowed, UnexpectedDigest
  <2>3. ComposedOverride(ps) # NoOverride
    BY <1>1, OverrideOfComposed
  <2>4. ComposedOverride(ps).expected = Expected(ps) /\ ComposedOverride(ps).allowStale = StaleAllowed(ps)
    BY <1>1 DEF ComposedOverride
  <2> QED BY <2>1, <2>2, <2>3, <2>4 DEF UnexpectedDigest, Compose
<1> QED BY <1>2, <1>3

\* A tool whose digest some policy in force does not expect is never called
\* (ExpectedDigestHolds): expectedDigest in composeToolPolicyOverride.
THEOREM ExpectedDigestIsEnforced == Spec => []ExpectedDigestHolds
<1>1. TypeOK => ExpectedDigestHolds
  <2> SUFFICES ASSUME TypeOK,
                      NEW p \in In(Applied), NEW tool \in Tools, NEW request \in Requests,
                      UnexpectedDigest(p, tool)
               PROVE  Verdict(Effective, tool, request) = 2
    BY DEF ExpectedDigestHolds
  <2>1. Applied \in Seq(Policy) /\ tool \in Tool
    BY AppliedType, ToolsType
  <2>2. UnexpectedDigest(Effective, tool) \/ RuleFor(Effective) = "deny"
    BY <2>1, UnexpectedCounts DEF Effective
  <2>3. Denied(Effective, Effective, tool, request)
    BY <2>2 DEF Denied, Enabled
  <2> QED BY <2>3 DEF Verdict, Decision
<1> QED BY <1>1, TypeInvariant, PTL

-----------------------------------------------------------------------------
(* The order of the policies.                                              *)

\* Sequences of the same policies, in whatever order and number, compose to the
\* same policy unless two of them conflict.
LEMMA SameMembersCompose ==
    ASSUME NEW ps \in Seq(Policy), NEW qs \in Seq(Policy), In(ps) = In(qs), ~Conflict(ps)
    PROVE  Compose(ps) = Compose(qs)
<1>1. ~Conflict(qs) /\ Overriding(ps) = Overriding(qs)
  BY RuleGrows
<1>2. Expected(ps) = Expected(qs)
  <2>1. CASE Expecting(ps) = {}
    <3>1. \A p \in Overriding(ps) : p.override.expected = NoDigest
      BY <2>1 DEF Expecting, Overriding, In
    <3>2. Expecting(qs) = {}
      BY <1>1, <3>1 DEF Expecting
    <3> QED BY <2>1, <3>2 DEF Expected
  <2>2. CASE Expecting(ps) # {}
    <3>1. PICK i \in Expecting(ps) : Expected(ps) = ps[i].override.expected
      BY <2>2, ExpectedIsOne
    <3>2. ps[i] \in Overriding(qs) /\ ps[i].override.expected # NoDigest
      BY <1>1, <3>1 DEF Expecting
    <3> QED BY <1>1, <3>1, <3>2, ExpectedIsAgreed
  <2> QED BY <2>1, <2>2
<1>3. ComposedRule(ps) = ComposedRule(qs) /\ StaleAllowed(ps) = StaleAllowed(qs)
  BY <1>1 DEF ComposedRule, StaleAllowed
<1>4. ComposedOverride(ps) = ComposedOverride(qs)
  BY <1>1, <1>2, <1>3 DEF ComposedOverride
<1> QED BY <1>4 DEF Compose

\* If they conflict, every call is denied in any order.
LEMMA ConflictDenies ==
    ASSUME NEW ps \in Seq(Policy), Conflict(ps), NEW tool \in Tool, NEW request \in Requests
    PROVE  Verdict(Compose(ps), tool, request) = 2
<1>1. RuleFor(Compose(ps)) = "deny"
  BY RuleOfComposed DEF ComposedRule
<1> QED BY <1>1 DEF Verdict, Decision, Denied, Enabled

\* A reordering is a sequence of the same policies.
LEMMA Reordered ==
    ASSUME NEW ps \in Seq(Policy), NEW order \in [DOMAIN ps -> DOMAIN ps],
           In(order) = DOMAIN ps
    PROVE  LET qs == [i \in DOMAIN ps |-> ps[order[i]]]
           IN  qs \in Seq(Policy) /\ In(qs) = In(ps)
<1> DEFINE qs == [i \in DOMAIN ps |-> ps[order[i]]]
<1>1. DOMAIN ps = 1 .. Len(ps) /\ Len(ps) \in Nat
  BY LenProperties
<1>2. \A i \in DOMAIN ps : ps[order[i]] \in Policy
  BY ElementOfSeq, <1>1
<1>3. qs \in Seq(Policy)
  BY <1>1, <1>2, IsASeq
<1>4. In(qs) = In(ps)
  <2>1. DOMAIN qs = DOMAIN ps /\ DOMAIN order = DOMAIN ps
    OBVIOUS
  <2>2. ASSUME NEW j \in DOMAIN ps PROVE \E i \in DOMAIN ps : order[i] = j
    BY <2>1 DEF In
  <2>3. \A p : p \in In(qs) <=> \E i \in DOMAIN ps : p = ps[order[i]]
    BY <2>1 DEF In
  <2>4. \A p : p \in In(ps) <=> \E i \in DOMAIN ps : p = ps[i]
    BY DEF In
  <2>5. \A i \in DOMAIN ps : order[i] \in DOMAIN ps
    OBVIOUS
  <2> HIDE DEF qs
  <2>6. \A p : p \in In(qs) <=> p \in In(ps)
    BY <2>2, <2>3, <2>4, <2>5
  <2> QED BY <2>6
<1> QED BY <1>3, <1>4

\* Whatever policies a server and an installation name, and however many, the
\* order in which their references come decides no call (OrderIsIrrelevant),
\* though the composition takes the first digest that one of them expects.
THEOREM OrderDecidesNothing == Spec => []OrderIsIrrelevant
<1>1. TypeOK => OrderIsIrrelevant
  <2> SUFFICES ASSUME TypeOK,
                      NEW order \in [DOMAIN Applied -> DOMAIN Applied],
                      In(order) = DOMAIN Applied,
                      NEW tool \in Tools, NEW request \in Requests
               PROVE  Verdict(Compose(Applied), tool, request)
                        = Verdict(Compose([i \in DOMAIN Applied |-> Applied[order[i]]]), tool, request)
    BY DEF OrderIsIrrelevant, Effective
  <2> DEFINE ps == Applied
             qs == [i \in DOMAIN Applied |-> Applied[order[i]]]
  <2>1. ps \in Seq(Policy) /\ tool \in Tool
    BY AppliedType, ToolsType
  <2>2. qs \in Seq(Policy) /\ In(qs) = In(ps)
    BY <2>1, Reordered
  <2> HIDE DEF ps, qs
  <2>3. CASE Conflict(ps)
    <3>1. Conflict(qs)
      BY <2>1, <2>2, <2>3, RuleGrows
    <3> QED BY <2>1, <2>2, <2>3, <3>1, ConflictDenies DEF ps, qs
  <2>4. CASE ~Conflict(ps)
    <3>1. Compose(ps) = Compose(qs)
      BY <2>1, <2>2, <2>4, SameMembersCompose
    <3> QED BY <3>1 DEF ps, qs
  <2> QED BY <2>3, <2>4
<1> QED BY <1>1, TypeInvariant, PTL

-----------------------------------------------------------------------------
(* The mapping of a conversation.                                          *)

\* The composition of policies is one.
LEMMA ComposedType ==
    ASSUME NEW ps \in Seq(Policy)
    PROVE  Compose(ps) \in Policy
<1>1. ComposedOverride(ps) \in Overrides \cup {NoOverride}
  BY OverrideOfComposed
<1>2. Strictest({p.approval : p \in In(ps)}) \in Rules
  BY DEF Strictest, Rules
<1>3. StrictestMode({p.execution : p \in In(ps)}) \in Modes
  BY DEF StrictestMode, Modes
<1> QED BY <1>1, <1>2, <1>3 DEF Compose, Policy

\* Tightening replaces the rule and the mode for the tool and nothing else that
\* a decision looks at.
LEMMA TightenedPolicy ==
    ASSUME NEW d \in Policy, NEW m \in Mappings, NEW tool \in Tool
    PROVE  LET q == Tightened(d, m)
           IN  /\ RuleFor(q) = m.approval
               /\ ModeFor(q) = m.execution
               /\ AllowsStale(q) = AllowsStale(d)
               /\ UnexpectedDigest(q, tool) <=> UnexpectedDigest(d, tool)
               /\ q.appsEnabled = d.appsEnabled
               /\ q.appCalls = d.appCalls
               /\ q.askUnknown = d.askUnknown
               /\ q.askWrite = d.askWrite
               /\ q.askDestructive = d.askDestructive
<1> DEFINE q == Tightened(d, m)
           o == [approval |-> m.approval,
                 execution |-> m.execution,
                 allowStale |-> AllowsStale(d),
                 expected |-> IF d.override = NoOverride THEN NoDigest ELSE d.override.expected]
<1>1. q.override = o
  BY DEF Tightened, Policy
<1>2. m.approval \in Rules /\ m.execution \in Modes
  BY DEF Mappings
<1>3. AllowsStale(d) \in BOOLEAN
  BY DEF AllowsStale, Policy, Overrides
<1>4. d.override # NoOverride => d.override.expected \in Digests \cup {NoDigest}
  BY DEF Policy, Overrides
<1>5. o \in Overrides
  BY <1>2, <1>3, <1>4 DEF Overrides
<1>6. o # NoOverride
  BY <1>5, NoOverrideOutside
<1>7. RuleFor(q) = m.approval /\ ModeFor(q) = m.execution
  BY <1>1, <1>2, <1>6 DEF RuleFor, ModeFor, Rules, Modes
<1>8. AllowsStale(q) = AllowsStale(d)
  <2>1. q.override # NoOverride /\ q.override.allowStale = AllowsStale(d)
    BY <1>1, <1>6
  <2>2. AllowsStale(q) <=> AllowsStale(d)
    BY <2>1 DEF AllowsStale
  <2>3. AllowsStale(q) \in BOOLEAN
    BY <2>1, <1>3 DEF AllowsStale
  <2> HIDE DEF q
  <2> QED BY <2>2, <2>3, <1>3
<1>9. UnexpectedDigest(q, tool) <=> UnexpectedDigest(d, tool)
  <2>1. /\ q.override # NoOverride
        /\ q.override.allowStale = AllowsStale(d)
        /\ q.override.expected = IF d.override = NoOverride THEN NoDigest ELSE d.override.expected
    BY <1>1, <1>6
  <2> HIDE DEF q, o
  <2>2. CASE d.override = NoOverride
    BY <2>1, <2>2 DEF UnexpectedDigest
  <2>3. CASE d.override # NoOverride
    <3>1. AllowsStale(d) <=> d.override.allowStale
      BY <2>3 DEF AllowsStale
    <3>2. q.override.expected = d.override.expected
      BY <2>1, <2>3
    <3>3. ~q.override.allowStale <=> ~d.override.allowStale
      BY <2>1, <3>1
    <3> QED BY <2>1, <2>3, <3>2, <3>3 DEF UnexpectedDigest
  <2> QED BY <2>2, <2>3
<1>10. /\ q.appsEnabled = d.appsEnabled
       /\ q.appCalls = d.appCalls
       /\ q.askUnknown = d.askUnknown
       /\ q.askWrite = d.askWrite
       /\ q.askDestructive = d.askDestructive
  BY DEF Tightened, Policy
<1> HIDE DEF q
<1> QED BY <1>7, <1>8, <1>9, <1>10 DEF q

\* A mapping that does not weaken the policy decides by its own rule and mode, and
\* they are no weaker than the policy's.
LEMMA MappedRules ==
    ASSUME NEW d \in Policy, NEW m \in Mappings, NEW tool \in Tool, ~Weakens(d, m)
    PROVE  /\ RuleOf(d, Tightened(d, m)) = m.approval
           /\ ModeOf(d, Tightened(d, m)) = m.execution
           /\ RuleOf(d, d) = "deny" => m.approval = "deny"
           /\ RuleOf(d, d) = "ask" => m.approval \in {"ask", "deny"}
           /\ ModeOf(d, d) = "manual" => m.execution = "manual"
<1>1. RuleFor(d) \in Rules /\ ModeFor(d) \in Modes
  BY RulesOfMembers
<1>2. m.approval \in Rules /\ m.execution \in Modes
  BY DEF Mappings
<1>3. /\ Strictest({RuleFor(d), m.approval}) = m.approval
      /\ StrictestMode({ModeFor(d), m.execution}) = m.execution
  BY DEF Weakens
<1>4. RuleOf(d, d) = RuleFor(d) /\ ModeOf(d, d) = ModeFor(d)
  BY <1>1 DEF RuleOf, ModeOf, Strictest, StrictestMode, Rules, Modes
<1>5. /\ RuleOf(d, Tightened(d, m)) = m.approval
      /\ ModeOf(d, Tightened(d, m)) = m.execution
  BY <1>3, TightenedPolicy DEF RuleOf, ModeOf
<1> QED BY <1>1, <1>2, <1>3, <1>4, <1>5 DEF Strictest, StrictestMode, Rules, Modes

\* A denial of the policy is one of the mapping, and so is a question unless the
\* mapping denies.
LEMMA MappingOnlyTightens ==
    ASSUME NEW d \in Policy, NEW m \in Mappings, NEW tool \in Tool, NEW request \in Requests,
           ~Weakens(d, m)
    PROVE  /\ Denied(d, d, tool, request) => Denied(d, Tightened(d, m), tool, request)
           /\ NeedsApproval(d, d, tool, request) =>
                 \/ Denied(d, Tightened(d, m), tool, request)
                 \/ NeedsApproval(d, Tightened(d, m), tool, request)
<1> DEFINE q == Tightened(d, m)
<1>1. StaleRequest(d, tool, request) => StaleRequest(q, tool, request)
  BY TightenedPolicy DEF StaleRequest
<1>2. Invisible(d, tool, request) => Invisible(q, tool, request)
  BY TightenedPolicy DEF Invisible
<1>3. UnexpectedDigest(d, tool) => UnexpectedDigest(q, tool)
  BY TightenedPolicy
<1>4. RiskNeedsApproval(d, d, tool) => RiskNeedsApproval(d, q, tool)
  BY TightenedPolicy DEF RiskNeedsApproval
<1> HIDE DEF q
<1>5. /\ RuleOf(d, q) = m.approval
      /\ ModeOf(d, q) = m.execution
      /\ RuleOf(d, d) = "deny" => m.approval = "deny"
      /\ RuleOf(d, d) = "ask" => m.approval \in {"ask", "deny"}
      /\ ModeOf(d, d) = "manual" => m.execution = "manual"
  BY MappedRules DEF q
<1>6. Denied(d, d, tool, request) => Denied(d, q, tool, request)
  BY <1>1, <1>2, <1>3, <1>5 DEF Denied
<1>7. NeedsApproval(d, d, tool, request) =>
        Denied(d, q, tool, request) \/ NeedsApproval(d, q, tool, request)
  BY <1>4, <1>5 DEF Denied, NeedsApproval
<1> QED BY <1>6, <1>7 DEF q

\* Whatever a conversation maps, for any policies, tools and sources: it weakens no
\* decision of the policy in force, and what it asks for itself is respected
\* (MappingIsRespected): TightenToolPolicy and EvaluateMapped.
THEOREM MappingsOnlyTighten == Spec => []MappingIsRespected
<1>1. TypeOK => MappingIsRespected
  <2> SUFFICES ASSUME TypeOK,
                      NEW m \in Mappings, NEW tool \in Tools,
                      NEW source \in {"user", "model", "app"}
               PROVE  LET verdict == MappedVerdict(Effective, m, tool, source)
                      IN  /\ verdict >= Verdict(Effective, tool, [digest |-> m.digest, source |-> source])
                          /\ m.approval = "deny" => verdict = 2
                          /\ m.approval = "ask" => verdict >= 1
                          /\ m.execution = "manual" /\ source # "user" => verdict >= 1
    BY DEF MappingIsRespected
  <2> DEFINE d == Effective
             q == Tightened(d, m)
             request == [digest |-> m.digest, source |-> source]
  <2>1. d \in Policy /\ tool \in Tool /\ request \in Requests
    BY AppliedType, ComposedType, ToolsType DEF Effective, Mappings, Requests
  <2>2. request.source = source
    OBVIOUS
  <2>3. Verdict(d, tool, request) \in {0, 1, 2}
    BY DEF Verdict, Decision
  <2>4. CASE m.digest # tool.digest \/ Weakens(d, m)
    <3>1. MappedVerdict(d, m, tool, source) = 2
      BY <2>4 DEF MappedVerdict
    <3> QED BY <2>3, <3>1
  <2>5. CASE ~(m.digest # tool.digest \/ Weakens(d, m))
    <3>1. MappedVerdict(d, m, tool, source) = Decision(d, q, tool, request)
      BY <2>5 DEF MappedVerdict
    <3> HIDE DEF d, q, request
    <3>2. RuleOf(d, q) = m.approval /\ ModeOf(d, q) = m.execution
      BY <2>1, <2>5, MappedRules DEF q
    <3>3. Decision(d, q, tool, request) >= Verdict(d, tool, request)
      BY <2>1, <2>5, MappingOnlyTightens DEF Decision, Verdict, q
    <3>4. m.approval = "deny" => Decision(d, q, tool, request) = 2
      BY <3>2 DEF Decision, Denied
    <3>5. m.approval = "ask" => Decision(d, q, tool, request) >= 1
      BY <3>2 DEF Decision, NeedsApproval
    <3>6. m.execution = "manual" /\ source # "user" => Decision(d, q, tool, request) >= 1
      BY <2>2, <3>2 DEF Decision, NeedsApproval
    <3> QED BY <3>1, <3>3, <3>4, <3>5, <3>6 DEF d, request
  <2> QED BY <2>4, <2>5
<1> QED BY <1>1, TypeInvariant, PTL
=============================================================================
