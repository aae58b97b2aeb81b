------------------------- MODULE MCPApproval_proofs -------------------------
(***************************************************************************)
(* The approvals of tool calls, for any evaluations, invocations and       *)
(* manager operations, and any policies, tools and requests.               *)
(***************************************************************************)
EXTENDS MCPApproval, TLAPS

\* The latest operation is a connect that has committed its session.
Connected == latest # None /\ mpc[latest] = "connected"

\* A ready session is connected, and has discovered the tool under some policy.
ReadyHasTool ==
    /\ ready = TRUE => Connected
    /\ Connected => tool \in Tools /\ policy \in Policies

\* A call that goes on after its dry run has seen a tool and a policy.
SeenSomething ==
    \A c \in Calls : cpc[c] \notin {"idle", "over"} =>
        saw[c].tool \in Tools /\ saw[c].policy \in Policies

Typed == TypeOK /\ ReadyHasTool /\ SeenSomething

USE CallsDiffer, ReqType, NoneOutside
    DEF sessionVars, approvalVars, callVars, Calls, Goto, NoSession, Live, Tokens

\* The decision key of a call that looks up is a key of the decisions.
LEMMA KeyType ==
    ASSUME Typed, NEW c \in Calls, cpc[c] \notin {"idle", "over"}
    PROVE  /\ Key(c) \in Keys
           /\ decisions[Key(c)] \in Evals \cup {None}
<1>1. saw[c].tool \in Tools /\ Req[c].caller \in Callers
  BY DEF Typed, SeenSomething, Request
<1>2. QED
  BY <1>1 DEF Key, Keys, Typed, TypeOK

\* The types of the variables are kept by every step.
LEMMA TypeInvariant == Spec => []Typed
<1>1. Init => Typed
  <2> SUFFICES ASSUME Init PROVE Typed
    OBVIOUS
  <2>1. TypeOK
    BY DEF Init, TypeOK, Seen
  <2>2. ReadyHasTool
    BY DEF Init, ReadyHasTool, Connected
  <2>3. SeenSomething
    BY DEF Init, SeenSomething
  <2>4. QED
    BY <2>1, <2>2, <2>3 DEF Typed
<1>2. Typed /\ [Next]_vars => Typed'
  <2> SUFFICES ASSUME Typed, [Next]_vars PROVE Typed'
    OBVIOUS
  <2> USE DEF TypeOK, ReadyHasTool, Connected, SeenSomething, Seen
  <2>1. ASSUME NEW m \in Managers, BeginConnection(m) PROVE Typed'
    BY <2>1 DEF Typed, BeginConnection
  <2>2. ASSUME NEW m \in Managers, EndSession(m) PROVE Typed'
    BY <2>2 DEF Typed, EndSession
  <2>3. ASSUME NEW m \in Managers, CloseManager(m) PROVE Typed'
    BY <2>3 DEF Typed, CloseManager
  <2>4. ASSUME NEW m \in Managers, ClearServer(m) PROVE Typed'
    BY <2>4 DEF Typed, ClearServer
  <2>5. ASSUME NEW m \in Managers, CommitConnection(m) PROVE Typed'
    BY <2>5 DEF Typed, CommitConnection
  <2>6. CASE Refresh
    BY <2>6 DEF Typed, Refresh
  <2>7. ASSUME NEW c \in Calls, DryRun(c) PROVE Typed'
    <3>1. CASE ready /\ DigestAccepted(c)
      <4>1. ready = TRUE
        BY <3>1 DEF Typed
      <4>2. tool \in Tools /\ policy \in Policies
        BY <4>1 DEF Typed
      <4>3. saw' = [saw EXCEPT ![c] = [session |-> latest, tool |-> tool,
                                       policy |-> policy]]
            /\ cpc' = [cpc EXCEPT ![c] = "lookup"]
        BY <2>7, <3>1 DEF DryRun
      <4>4. token' \in [Invokes -> Evals \cup {None}]
        BY <2>7 DEF DryRun, Typed
      <4>5. QED
        BY <2>7, <4>2, <4>3, <4>4 DEF Typed, DryRun
    <3>2. CASE ~(ready /\ DigestAccepted(c))
      <4>1. cpc' = [cpc EXCEPT ![c] = "over"] /\ saw' = saw
        BY <2>7, <3>2 DEF DryRun
      <4>2. token' \in [Invokes -> Evals \cup {None}]
        BY <2>7 DEF DryRun, Typed
      <4>3. QED
        BY <2>7, <4>1, <4>2 DEF Typed, DryRun
    <3>3. QED
      BY <3>1, <3>2
  <2>8. ASSUME NEW c \in Calls, LookupDecision(c) PROVE Typed'
    <3>1. decisions[Key(c)] \in Evals \cup {None}
      BY <2>8, KeyType DEF LookupDecision
    <3>2. QED
      BY <2>8, <3>1 DEF Typed, LookupDecision, After
  <2>9. ASSUME NEW c \in Calls, GiveUp(c) PROVE Typed'
    BY <2>9 DEF Typed, GiveUp
  <2>10. ASSUME NEW e \in Evals, Create(e) PROVE Typed'
    BY <2>10 DEF Typed, Create
  <2>11. ASSUME NEW e \in Evals, Expire(e) PROVE Typed'
    BY <2>11 DEF Typed, Expire
  <2>12. ASSUME NEW e \in Evals, NEW r \in Resolutions, Resolve(e, r) PROVE Typed'
    <3>1. Key(e) \in Keys
      BY <2>12, KeyType DEF Resolve
    <3>2. decisions' = decisions \/ decisions' = [decisions EXCEPT ![Key(e)] = e]
      BY <2>12 DEF Resolve
    <3>3. decisions' \in [Keys -> Evals \cup {None}]
      BY <3>1, <3>2 DEF Typed
    <3>4. answer' \in [Evals -> Resolutions \cup {"none"}]
      <4>1. answer' = [answer EXCEPT ![e] = r] /\ answer \in [Evals -> Resolutions \cup {"none"}]
        BY <2>12 DEF Typed, Resolve
      <4> QED
        BY <4>1
    <3>5. pending' \subseteq Evals /\ issued' \subseteq pending'
      BY <2>12 DEF Typed, Resolve
    <3>6. UNCHANGED <<sessionVars, expired, cpc, saw, token, authority>>
      BY <2>12 DEF Resolve
    <3> QED
      BY <3>3, <3>4, <3>5, <3>6 DEF Typed
  <2>13. ASSUME NEW i \in Invokes, VerifyAndConsumeToken(i) PROVE Typed'
    <3>1. authority' = authority \/ authority' = [authority EXCEPT ![i] = token[i]]
      BY <2>13 DEF VerifyAndConsumeToken
    <3>2. authority' \in [Invokes -> Evals \cup {None}]
      BY <3>1 DEF Typed, TypeOK
    <3>3. /\ cpc[i] = "verify"
          /\ \E where \in {"call", "over"} : cpc' = [cpc EXCEPT ![i] = where]
      BY <2>13 DEF VerifyAndConsumeToken
    <3>4. /\ cpc' \in [Calls -> {"idle", "lookup", "create", "offered", "verify", "call", "ran", "over"}]
          /\ \A c \in Calls : cpc'[c] \notin {"idle", "over"} => cpc[c] \notin {"idle", "over"}
      BY <3>3 DEF Typed, TypeOK
    <3>5. pending' \subseteq Evals /\ issued' \subseteq pending'
      BY <2>13 DEF Typed, TypeOK, VerifyAndConsumeToken, Consumed
    <3>6. UNCHANGED <<sessionVars, expired, decisions, saw, token, answer>>
      BY <2>13 DEF VerifyAndConsumeToken
    <3> QED
      BY <3>2, <3>4, <3>5, <3>6 DEF Typed, TypeOK, ReadyHasTool, Connected, SeenSomething
  <2>14. ASSUME NEW i \in Invokes, CallTool(i) PROVE Typed'
    BY <2>14 DEF Typed, CallTool
  <2>15. CASE UNCHANGED vars
    BY <2>15 DEF Typed, vars
  <2>16. QED
    BY <2>1, <2>2, <2>3, <2>4, <2>5, <2>6, <2>7, <2>8, <2>9, <2>10, <2>11, <2>12, <2>13,
       <2>14, <2>15 DEF Next
<1>3. QED
  BY <1>1, <1>2, PTL DEF Spec

\* Type correctness of the session, the approvals and the calls.
THEOREM TypeCorrect == Spec => []TypeOK
<1>1. Typed => TypeOK
  BY DEF Typed
<1>2. QED
  BY <1>1, TypeInvariant, PTL

-----------------------------------------------------------------------------
\* An approval in the pending map has been offered to the user, who has answered
\* it exactly when its token is issued.
PendingIsOffered ==
    \A e \in pending :
        /\ cpc[e] = "offered"
        /\ answer[e] = IF e \in issued THEN "allowOnce" ELSE "none"

\* The user answers nothing before it is offered.
AnsweredIsOffered == \A e \in Evals : answer[e] # "none" => cpc[e] = "offered"

\* A remembered decision is the user's, for the key it is remembered under.
RememberedIsAnswered ==
    \A k \in Keys : decisions[k] # None =>
        /\ cpc[decisions[k]] = "offered"
        /\ Key(decisions[k]) = k
        /\ answer[decisions[k]] \in {"allowAlways", "denyAlways"}

\* An approval an invocation goes on with has left the pending map.
AuthorityIsSpent ==
    \A i \in Invokes : authority[i] # None =>
        /\ cpc[i] \in {"call", "ran", "over"}
        /\ cpc[authority[i]] = "offered"
        /\ authority[i] \notin pending
        /\ answer[authority[i]] \in {"allowAlways", "allowOnce"}

\* A token is presented only where the policy asks.
TokenIsAsked == \A i \in Invokes : cpc[i] = "verify" => VerdictOf(i) = "ask"

\* Only evaluations create approvals.
InvokesOfferNothing == \A i \in Invokes : cpc[i] \notin {"create", "offered"}

ApprovalInv ==
    /\ PendingIsOffered
    /\ AnsweredIsOffered
    /\ RememberedIsAnswered
    /\ AuthorityIsSpent
    /\ TokenIsAsked
    /\ InvokesOfferNothing
    /\ AuthorityIsExact
    /\ TokenUsedOnce

\* What a remembered resolution makes of a decision.
LEMMA AppliedDecision ==
    ASSUME NEW v, NEW e
    PROVE  /\ Applied(v, e) = "ask" => v = "ask"
           /\ Applied(v, e) = "allowed" =>
                v = "allowed" \/ (v = "ask" /\ e # None /\ answer[e] = "allowAlways")
  BY DEF Applied

\* Where a call goes on after its decision.
LEMMA AfterDecision ==
    ASSUME NEW c \in Calls, NEW d
    PROVE  /\ After(c, d) \in {"create", "verify", "call", "over"}
           /\ After(c, d) = "create" => c \notin Invokes
           /\ After(c, d) = "verify" => d = "ask"
           /\ After(c, d) = "call" => c \in Invokes /\ d = "allowed"
  BY DEF After

\* Steps of the session change no call; they keep the approvals or clear them all.
LEMMA OnlySessionMoves ==
    ASSUME Typed, ApprovalInv, UNCHANGED callVars,
           \/ UNCHANGED <<pending, issued, decisions>>
           \/ pending' = {} /\ issued' = {} /\ decisions' = [k \in Keys |-> None]
    PROVE  ApprovalInv'
<1>1. /\ pending' \subseteq pending /\ \A e \in pending' : e \in issued' <=> e \in issued
      /\ \A k \in Keys : decisions'[k] \in {decisions[k], None}
  OBVIOUS
<1>2. PendingIsOffered' /\ AnsweredIsOffered'
  BY <1>1 DEF ApprovalInv, PendingIsOffered, AnsweredIsOffered
<1>3. RememberedIsAnswered'
  BY <1>1 DEF ApprovalInv, RememberedIsAnswered, Key
<1>4. AuthorityIsSpent'
  BY <1>1 DEF ApprovalInv, AuthorityIsSpent
<1>5. TokenIsAsked' /\ InvokesOfferNothing'
  BY DEF ApprovalInv, TokenIsAsked, InvokesOfferNothing, VerdictOf
<1>6. AuthorityIsExact'
  <2>1. \A c \in Calls : VerdictOf(c)' = VerdictOf(c) /\ (GoesOn(c)' <=> GoesOn(c))
    BY DEF VerdictOf, GoesOn
  <2>2. UNCHANGED <<token, answer, authority>>
    OBVIOUS
  <2>3. \A e : Key(e)' = Key(e)
    BY DEF Key
  <2> QED
    BY ONLY <2>1, <2>2, <2>3, ApprovalInv DEF ApprovalInv, AuthorityIsExact, Calls
<1>7. TokenUsedOnce'
  BY DEF ApprovalInv, TokenUsedOnce, GoesOn
<1> QED
  BY <1>2, <1>3, <1>4, <1>5, <1>6, <1>7 DEF ApprovalInv

\* A call moves on its own, to no offer of its own, and takes away approvals at most.
OnlyMoves(c) ==
    /\ cpc[c] # "offered" /\ cpc'[c] # "offered"
    /\ c \in Invokes => cpc'[c] # "create"
    /\ \A d \in Calls \ {c} : cpc'[d] = cpc[d] /\ saw'[d] = saw[d]
    /\ \A j \in Invokes \ {c} : token'[j] = token[j]
    /\ pending' \subseteq pending /\ issued' = issued \cap pending'
    /\ UNCHANGED <<decisions, answer>>

\* A step of one call that offers nothing leaves the offers of the others.
LEMMA MovesKeepOffers ==
    ASSUME Typed, ApprovalInv, NEW c \in Calls, OnlyMoves(c)
    PROVE  /\ PendingIsOffered' /\ AnsweredIsOffered' /\ RememberedIsAnswered'
           /\ InvokesOfferNothing'
<1> USE DEF OnlyMoves
<1>1. /\ pending \subseteq Evals /\ decisions \in [Keys -> Evals \cup {None}]
      /\ \A e \in Evals : cpc[e] = "offered" => cpc'[e] = "offered" /\ saw'[e] = saw[e]
  BY DEF Typed, TypeOK
<1>2. PendingIsOffered' /\ AnsweredIsOffered'
  BY <1>1 DEF ApprovalInv, PendingIsOffered, AnsweredIsOffered
<1>3. RememberedIsAnswered'
  BY <1>1 DEF ApprovalInv, RememberedIsAnswered, Key
<1>4. InvokesOfferNothing'
  BY DEF ApprovalInv, InvokesOfferNothing
<1> QED
  BY <1>2, <1>3, <1>4

\* It goes on as before, or with the policy's own allowance.
NoNewAuthority(c) ==
    /\ authority' = authority
    /\ c \in Invokes =>
         /\ cpc'[c] = "verify" => VerdictOf(c)' = "ask"
         /\ authority[c] # None => cpc'[c] \in {"call", "ran", "over"}
         /\ GoesOn(c)' => \/ GoesOn(c) /\ saw'[c] = saw[c] /\ token'[c] = token[c]
                          \/ authority[c] = None /\ VerdictOf(c)' = "allowed"

\* A step that gives nobody authority keeps the invariant.
LEMMA NoNewAuthorityKeeps ==
    ASSUME Typed, ApprovalInv, NEW c \in Calls, OnlyMoves(c), NoNewAuthority(c)
    PROVE  ApprovalInv'
<1> USE DEF NoNewAuthority
<1>1. /\ authority \in [Invokes -> Evals \cup {None}] /\ pending' \subseteq pending
      /\ \A d \in Calls \ {c} : cpc'[d] = cpc[d] /\ saw'[d] = saw[d]
      /\ \A j \in Invokes \ {c} : token'[j] = token[j]
      /\ \A e \in Evals : cpc[e] = "offered" => cpc'[e] = "offered" /\ saw'[e] = saw[e]
      /\ answer' = answer
  BY DEF OnlyMoves, Typed, TypeOK
<1>2. AuthorityIsSpent'
  BY <1>1 DEF ApprovalInv, AuthorityIsSpent
<1>3. TokenIsAsked'
  <2> SUFFICES ASSUME NEW i \in Invokes, cpc'[i] = "verify" PROVE VerdictOf(i)' = "ask"
    BY DEF TokenIsAsked
  <2>1. CASE i = c
    BY <2>1
  <2>2. CASE i # c
    BY <1>1, <2>2 DEF ApprovalInv, TokenIsAsked, VerdictOf
  <2> QED
    BY <2>1, <2>2
<1>4. AuthorityIsExact'
  <2> SUFFICES ASSUME NEW i \in Invokes, GoesOn(i)', ~(authority[i] = None /\ VerdictOf(i)' = "allowed")
               PROVE  /\ authority[i] # None /\ VerdictOf(i)' = "ask"
                      /\ Key(authority[i])' = Key(i)'
                      /\ \/ answer[authority[i]] = "allowAlways"
                         \/ /\ answer[authority[i]] = "allowOnce" /\ token'[i] = authority[i]
                            /\ Req[authority[i]].args = Req[i].args
    BY <1>1 DEF AuthorityIsExact
  <2>1. GoesOn(i) /\ saw'[i] = saw[i] /\ token'[i] = token[i]
    <3>1. CASE i = c
      BY <3>1
    <3>2. CASE i # c
      BY <1>1, <3>2 DEF GoesOn
    <3> QED
      BY <3>1, <3>2
  <2>2. VerdictOf(i)' = VerdictOf(i) /\ Key(i)' = Key(i)
    BY <2>1 DEF VerdictOf, Key
  <2>3. authority[i] # None
    BY <2>1, <2>2 DEF ApprovalInv, AuthorityIsExact
  <2>4. Key(authority[i])' = Key(authority[i])
    BY <1>1, <2>3 DEF ApprovalInv, AuthorityIsSpent, Key
  <2> QED
    BY <2>1, <2>2, <2>3, <2>4 DEF ApprovalInv, AuthorityIsExact
<1>5. TokenUsedOnce'
  <2>1. \A i \in Invokes : GoesOn(i)' /\ authority[i] # None => GoesOn(i)
    BY <1>1 DEF GoesOn
  <2> QED
    BY <1>1, <2>1 DEF ApprovalInv, TokenUsedOnce
<1> QED
  BY <1>2, <1>3, <1>4, <1>5, MovesKeepOffers DEF ApprovalInv

\* It goes on with an approval of exactly this call, which is no longer pending.
NewAuthority(i, e) ==
    /\ cpc'[i] = "call" /\ authority' = [authority EXCEPT ![i] = e]
    /\ UNCHANGED <<saw, token>>
    /\ VerdictOf(i) = "ask"
    /\ cpc[e] = "offered" /\ e \notin pending' /\ Key(e) = Key(i)
    /\ \/ answer[e] = "allowAlways"
       \/ /\ answer[e] = "allowOnce" /\ token[i] = e /\ Req[e].args = Req[i].args
          /\ \A j \in Invokes : authority[j] # e

\* An invocation that takes the authority of an evaluation keeps the invariant.
LEMMA NewAuthorityKeeps ==
    ASSUME Typed, ApprovalInv, NEW i \in Invokes, NEW e \in Evals,
           OnlyMoves(i), NewAuthority(i, e)
    PROVE  ApprovalInv'
<1>1. /\ authority \in [Invokes -> Evals \cup {None}] /\ pending' \subseteq pending
      /\ authority'[i] = e /\ \A j \in Invokes \ {i} : authority'[j] = authority[j]
      /\ \A d \in Calls \ {i} : cpc'[d] = cpc[d]
      /\ cpc'[i] = "call" /\ UNCHANGED <<saw, token, answer>>
  BY DEF OnlyMoves, NewAuthority, Typed, TypeOK
<1>2. /\ cpc[e] = "offered" /\ e # i /\ e \notin pending' /\ e # None
      /\ answer[e] \in {"allowAlways", "allowOnce"}
  BY DEF NewAuthority, OnlyMoves
<1>3. AuthorityIsSpent'
  <2> SUFFICES ASSUME NEW j \in Invokes, authority'[j] # None
               PROVE  /\ cpc'[j] \in {"call", "ran", "over"}
                      /\ cpc'[authority'[j]] = "offered"
                      /\ authority'[j] \notin pending'
                      /\ answer'[authority'[j]] \in {"allowAlways", "allowOnce"}
    BY DEF AuthorityIsSpent
  <2>1. CASE j = i
    BY <1>1, <1>2, <2>1
  <2>2. CASE j # i
    <3>1. authority[j] \in Evals /\ cpc[authority[j]] = "offered" /\ authority[j] # i
      BY <1>1, <2>2 DEF ApprovalInv, AuthorityIsSpent
    <3> QED
      BY <1>1, <2>2, <3>1 DEF ApprovalInv, AuthorityIsSpent
  <2> QED
    BY <2>1, <2>2
<1>4. TokenIsAsked'
  BY <1>1 DEF ApprovalInv, TokenIsAsked, VerdictOf
<1>5. \A d \in Calls : VerdictOf(d)' = VerdictOf(d) /\ Key(d)' = Key(d)
  BY <1>1 DEF VerdictOf, Key
<1>6. \A j \in Invokes \ {i} : GoesOn(j)' <=> GoesOn(j)
  BY <1>1 DEF GoesOn
<1>7. AuthorityIsExact'
  <2> SUFFICES ASSUME NEW j \in Invokes, GoesOn(j)'
               PROVE  \/ authority'[j] = None /\ VerdictOf(j) = "allowed"
                      \/ /\ authority'[j] # None /\ VerdictOf(j) = "ask"
                         /\ Key(authority'[j]) = Key(j)
                         /\ \/ answer[authority'[j]] = "allowAlways"
                            \/ /\ answer[authority'[j]] = "allowOnce" /\ token[j] = authority'[j]
                               /\ Req[authority'[j]].args = Req[j].args
    BY <1>1, <1>5 DEF AuthorityIsExact, Key
  <2>1. CASE j = i
    BY <1>1, <1>2, <2>1 DEF NewAuthority
  <2>2. CASE j # i
    BY <1>1, <1>6, <2>2 DEF ApprovalInv, AuthorityIsExact
  <2> QED
    BY <2>1, <2>2
<1>8. TokenUsedOnce'
  <2>1. answer[e] = "allowOnce" => \A j \in Invokes : authority[j] # e
    BY DEF NewAuthority
  <2> QED
    BY <1>1, <1>6, <2>1 DEF ApprovalInv, TokenUsedOnce
<1> QED
  BY <1>3, <1>4, <1>7, <1>8, MovesKeepOffers DEF ApprovalInv

\* A dry run keeps the invariant.
LEMMA DryRunKeeps == ASSUME Typed, ApprovalInv, NEW c \in Calls, DryRun(c) PROVE ApprovalInv'
<1>1. /\ cpc[c] = "idle"
      /\ \E where \in {"lookup", "over"} : cpc' = [cpc EXCEPT ![c] = where]
      /\ saw' = saw \/ saw' = [saw EXCEPT ![c] = saw'[c]]
      /\ \A k \in Invokes \ {c} : token'[k] = token[k]
      /\ UNCHANGED <<pending, issued, decisions, answer, authority>>
  BY DEF DryRun, Typed, TypeOK
<1>2. cpc'[c] \in {"lookup", "over"} /\ \A d \in Calls \ {c} : cpc'[d] = cpc[d] /\ saw'[d] = saw[d]
  BY <1>1 DEF Typed, TypeOK
<1>3. OnlyMoves(c)
  BY <1>1, <1>2 DEF OnlyMoves, Typed, TypeOK
<1>4. c \in Invokes => authority[c] = None
  BY <1>1 DEF ApprovalInv, AuthorityIsSpent
<1>5. NoNewAuthority(c)
  BY <1>1, <1>2, <1>4 DEF NoNewAuthority, GoesOn
<1> QED
  BY <1>3, <1>5, NoNewAuthorityKeeps

\* Looking up the session's decision keeps the invariant.
LEMMA LookupKeeps ==
    ASSUME Typed, ApprovalInv, NEW c \in Calls, LookupDecision(c) PROVE ApprovalInv'
<1> DEFINE e == decisions[Key(c)]
           d == Applied(VerdictOf(c), e)
           next == After(c, d)
<1>1. /\ cpc[c] = "lookup" /\ cpc' = [cpc EXCEPT ![c] = next]
      /\ authority' = IF next = "call" /\ VerdictOf(c) # "allowed"
                        THEN [authority EXCEPT ![c] = e] ELSE authority
      /\ pending' = Live /\ issued' = Tokens(Live)
      /\ UNCHANGED <<saw, answer, token, decisions>>
  BY DEF LookupDecision
<1>2. /\ d = "ask" => VerdictOf(c) = "ask"
      /\ d = "allowed" =>
           \/ VerdictOf(c) = "allowed"
           \/ VerdictOf(c) = "ask" /\ e # None /\ answer[e] = "allowAlways"
  BY ONLY AppliedDecision
<1>3. /\ next \in {"create", "verify", "call", "over"}
      /\ next = "create" => c \notin Invokes
      /\ next = "verify" => d = "ask"
      /\ next = "call" => c \in Invokes /\ d = "allowed"
  BY AfterDecision
<1>4. /\ Key(c) \in Keys
      /\ e # None => e \in Evals /\ cpc[e] = "offered" /\ Key(e) = Key(c) /\ answer[e] # "allowOnce"
  BY <1>1, KeyType DEF ApprovalInv, RememberedIsAnswered
<1> HIDE DEF e, d, next
<1>5. cpc'[c] = next /\ \A x \in Calls \ {c} : cpc'[x] = cpc[x]
  BY <1>1 DEF Typed, TypeOK
<1>6. OnlyMoves(c)
  BY <1>1, <1>3, <1>5 DEF OnlyMoves, Live, Tokens, Typed, TypeOK
<1>7. c \in Invokes => authority[c] = None
  BY <1>1 DEF ApprovalInv, AuthorityIsSpent
<1>8. VerdictOf(c)' = VerdictOf(c)
  BY <1>1 DEF VerdictOf
<1>9. CASE next = "call" /\ VerdictOf(c) # "allowed"
  <2>1. c \in Invokes /\ e \in Evals /\ answer[e] = "allowAlways" /\ VerdictOf(c) = "ask"
    BY <1>2, <1>3, <1>4, <1>9
  <2>2. e \notin pending
    BY <2>1 DEF ApprovalInv, PendingIsOffered
  <2>3. NewAuthority(c, e)
    BY <1>1, <1>4, <1>5, <1>6, <1>9, <2>1, <2>2 DEF NewAuthority, OnlyMoves
  <2> QED
    BY <1>6, <2>1, <2>3, NewAuthorityKeeps
<1>10. CASE ~(next = "call" /\ VerdictOf(c) # "allowed")
  <2>1. NoNewAuthority(c)
    BY <1>1, <1>2, <1>3, <1>5, <1>7, <1>8, <1>10 DEF NoNewAuthority, GoesOn
  <2> QED
    BY <1>6, <2>1, NoNewAuthorityKeeps
<1> QED
  BY <1>9, <1>10

\* Verifying and consuming a token keeps the invariant.
LEMMA VerifyKeeps ==
    ASSUME Typed, ApprovalInv, NEW i \in Invokes, VerifyAndConsumeToken(i) PROVE ApprovalInv'
<1> DEFINE e == token[i]
<1>1. cpc[i] = "verify" /\ VerdictOf(i) = "ask" /\ authority[i] = None /\ i \in Calls
  BY DEF VerifyAndConsumeToken, ApprovalInv, TokenIsAsked, AuthorityIsSpent
<1>2. CASE e \in issued \cap Live /\ Matches(e, i)
  <2>1. /\ cpc' = [cpc EXCEPT ![i] = "call"] /\ authority' = [authority EXCEPT ![i] = e]
        /\ pending' = Live \ {e} /\ issued' = Tokens(Live \ {e})
        /\ UNCHANGED <<decisions, saw, token, answer>>
    BY <1>2 DEF VerifyAndConsumeToken, Consumed
  <2>2. cpc'[i] = "call" /\ \A x \in Calls \ {i} : cpc'[x] = cpc[x]
    BY <1>1, <2>1 DEF Typed, TypeOK
  <2>3. OnlyMoves(i)
    BY <1>1, <2>1, <2>2 DEF OnlyMoves, Live, Tokens, Typed, TypeOK
  <2>4. e \in Evals /\ e \in pending /\ e \in issued
    BY <1>2 DEF Live, Typed, TypeOK
  <2>5. cpc[e] = "offered" /\ answer[e] = "allowOnce"
    BY <2>4 DEF ApprovalInv, PendingIsOffered
  <2>6. \A j \in Invokes : authority[j] # e
    BY <2>4 DEF ApprovalInv, AuthorityIsSpent
  <2>7. NewAuthority(i, e)
    BY <1>1, <1>2, <2>1, <2>2, <2>5, <2>6 DEF NewAuthority, Matches
  <2> QED
    BY <2>3, <2>4, <2>7, NewAuthorityKeeps
<1>3. CASE ~(e \in issued \cap Live /\ Matches(e, i))
  <2>1. /\ cpc' = [cpc EXCEPT ![i] = "over"] /\ authority' = authority
        /\ pending' = Live /\ issued' = Tokens(Live)
        /\ UNCHANGED <<decisions, saw, token, answer>>
    BY <1>3 DEF VerifyAndConsumeToken
  <2>2. cpc'[i] = "over" /\ \A x \in Calls \ {i} : cpc'[x] = cpc[x]
    BY <1>1, <2>1 DEF Typed, TypeOK
  <2>3. OnlyMoves(i)
    BY <1>1, <2>1, <2>2 DEF OnlyMoves, Live, Tokens, Typed, TypeOK
  <2>4. NoNewAuthority(i)
    BY <1>1, <2>1, <2>2 DEF NoNewAuthority, GoesOn
  <2> QED
    BY <1>1, <2>3, <2>4, NoNewAuthorityKeeps
<1> QED
  BY <1>2, <1>3

\* A call that gives up or goes through keeps the invariant.
LEMMA LeavingKeeps ==
    ASSUME Typed, ApprovalInv, NEW c \in Calls, GiveUp(c) \/ (c \in Invokes /\ CallTool(c))
    PROVE  ApprovalInv'
<1>1. /\ cpc[c] \in {"create", "verify", "call"}
      /\ \E where \in {"ran", "over"} :
           cpc' = [cpc EXCEPT ![c] = where] /\ (where = "ran" => cpc[c] = "call")
      /\ UNCHANGED <<pending, issued, decisions, saw, token, answer, authority>>
  BY DEF GiveUp, CallTool
<1>2. /\ cpc'[c] \in {"ran", "over"} /\ (cpc'[c] = "ran" => cpc[c] = "call")
      /\ \A x \in Calls \ {c} : cpc'[x] = cpc[x]
  BY <1>1 DEF Typed, TypeOK
<1>3. OnlyMoves(c)
  BY <1>1, <1>2 DEF OnlyMoves, Typed, TypeOK
<1>4. NoNewAuthority(c)
  BY <1>1, <1>2 DEF NoNewAuthority, GoesOn
<1> QED
  BY <1>3, <1>4, NoNewAuthorityKeeps

\* The creation of an approval keeps the invariant.
LEMMA CreateKeeps == ASSUME Typed, ApprovalInv, NEW e \in Evals, Create(e) PROVE ApprovalInv'
<1>1. /\ cpc[e] = "create" /\ cpc'[e] = "offered" /\ \A x \in Calls \ {e} : cpc'[x] = cpc[x]
      /\ pending' = Live \cup {e} /\ issued' = Tokens(Live)
      /\ UNCHANGED <<decisions, saw, token, answer, authority>>
  BY DEF Create, Typed, TypeOK
<1>2. answer[e] = "none" /\ e \notin issued /\ e \notin pending
  BY <1>1 DEF ApprovalInv, AnsweredIsOffered, PendingIsOffered, Typed, TypeOK
<1>3. PendingIsOffered' /\ AnsweredIsOffered'
  BY <1>1, <1>2 DEF ApprovalInv, PendingIsOffered, AnsweredIsOffered, Typed, TypeOK, Live, Tokens
<1>4. RememberedIsAnswered'
  BY <1>1 DEF ApprovalInv, RememberedIsAnswered, Key, Typed, TypeOK
<1>5. \A k \in Invokes : authority[k] # e /\ cpc'[k] = cpc[k]
  BY <1>1 DEF ApprovalInv, AuthorityIsSpent
<1>6. AuthorityIsSpent'
  BY <1>1, <1>5 DEF ApprovalInv, AuthorityIsSpent, Typed, TypeOK, Live
<1>7. TokenIsAsked' /\ InvokesOfferNothing'
  BY <1>1, <1>5 DEF ApprovalInv, TokenIsAsked, InvokesOfferNothing, VerdictOf
<1>8. AuthorityIsExact'
  BY <1>1, <1>5 DEF ApprovalInv, AuthorityIsExact, GoesOn, VerdictOf, Key
<1>9. TokenUsedOnce'
  BY <1>1, <1>5 DEF ApprovalInv, TokenUsedOnce, GoesOn
<1> QED
  BY <1>3, <1>4, <1>6, <1>7, <1>8, <1>9 DEF ApprovalInv

\* The resolution of an approval keeps the invariant.
LEMMA ResolveKeeps ==
    ASSUME Typed, ApprovalInv, NEW e \in Evals, NEW r \in Resolutions, Resolve(e, r)
    PROVE  ApprovalInv'
<1>1. /\ cpc[e] = "offered" /\ e \in pending /\ e \notin issued
      /\ answer'[e] = r /\ r # "none" /\ \A f \in Evals : f # e => answer'[f] = answer[f]
      /\ UNCHANGED <<cpc, saw, token, authority>>
  BY DEF Resolve, Live, Typed, TypeOK, Resolutions
<1>2. /\ pending' \subseteq pending
      /\ e \in pending' => r = "allowOnce" /\ e \in issued'
      /\ \A f \in pending' : f # e => (f \in issued' <=> f \in issued)
  BY DEF Resolve, Live, Tokens
<1>3. PendingIsOffered' /\ AnsweredIsOffered'
  BY <1>1, <1>2 DEF ApprovalInv, PendingIsOffered, AnsweredIsOffered, Typed, TypeOK
<1>4. answer[e] = "none"
  BY <1>1 DEF ApprovalInv, PendingIsOffered
<1>5. RememberedIsAnswered'
  <2>1. \A k \in Keys : decisions[k] # None => decisions[k] \in Evals \ {e}
    BY <1>4 DEF ApprovalInv, RememberedIsAnswered, Typed, TypeOK
  <2>2. \/ decisions' = decisions
        \/ r \in {"allowAlways", "denyAlways"} /\ decisions' = [decisions EXCEPT ![Key(e)] = e]
    BY DEF Resolve
  <2>3. \A k \in Keys :
          \/ decisions'[k] = decisions[k]
          \/ r \in {"allowAlways", "denyAlways"} /\ k = Key(e) /\ decisions'[k] = e
    <3> DEFINE key == Key(e)
    <3> SUFFICES ASSUME NEW k \in Keys
                 PROVE  \/ decisions'[k] = decisions[k]
                        \/ r \in {"allowAlways", "denyAlways"} /\ k = key /\ decisions'[k] = e
      OBVIOUS
    <3>1. decisions \in [Keys -> Evals \cup {None}]
      BY DEF Typed, TypeOK
    <3> HIDE DEF key
    <3>2. CASE decisions' = decisions
      BY <3>2
    <3>3. CASE r \in {"allowAlways", "denyAlways"} /\ decisions' = [decisions EXCEPT ![key] = e]
      BY <3>1, <3>3
    <3> QED
      BY <2>2, <3>2, <3>3 DEF key
  <2> QED
    BY <1>1, <2>1, <2>3 DEF ApprovalInv, RememberedIsAnswered, Key
<1>6. \A i \in Invokes : authority[i] # None =>
        authority[i] # e /\ answer'[authority[i]] = answer[authority[i]]
  BY <1>1, <1>4 DEF ApprovalInv, AuthorityIsSpent, Typed, TypeOK
<1>7. AuthorityIsSpent'
  BY <1>1, <1>2, <1>6 DEF ApprovalInv, AuthorityIsSpent
<1>8. TokenIsAsked' /\ InvokesOfferNothing'
  BY <1>1 DEF ApprovalInv, TokenIsAsked, InvokesOfferNothing, VerdictOf
<1>9. AuthorityIsExact'
  BY <1>1, <1>6 DEF ApprovalInv, AuthorityIsExact, GoesOn, VerdictOf, Key
<1>10. TokenUsedOnce'
  BY <1>1, <1>6 DEF ApprovalInv, TokenUsedOnce, GoesOn
<1> QED
  BY <1>3, <1>5, <1>7, <1>8, <1>9, <1>10 DEF ApprovalInv

\* The strengthened invariant: what is pending, remembered and used up.
LEMMA ApprovalInvariant == Spec => []ApprovalInv
<1>1. Init => ApprovalInv
  BY DEF Init, ApprovalInv, PendingIsOffered, AnsweredIsOffered, RememberedIsAnswered,
         AuthorityIsSpent, TokenIsAsked, InvokesOfferNothing, AuthorityIsExact, TokenUsedOnce, GoesOn
<1>2. Typed /\ ApprovalInv /\ [Next]_vars => ApprovalInv'
  <2> SUFFICES ASSUME Typed, ApprovalInv, [Next]_vars PROVE ApprovalInv'
    OBVIOUS
  <2>1. CASE \E m \in Managers : \/ BeginConnection(m) \/ EndSession(m) \/ CloseManager(m)
                                 \/ ClearServer(m) \/ CommitConnection(m)
    BY <2>1, OnlySessionMoves
    DEF BeginConnection, EndSession, CloseManager, ClearServer, CommitConnection
  <2>2. CASE Refresh \/ (\E e \in Evals : Expire(e)) \/ UNCHANGED vars
    BY <2>2, OnlySessionMoves DEF Refresh, Expire, vars
  <2> QED
    BY <2>1, <2>2, DryRunKeeps, LookupKeeps, VerifyKeeps, LeavingKeeps, CreateKeeps,
       ResolveKeeps DEF Next
<1> QED
  BY <1>1, <1>2, TypeInvariant, PTL DEF Spec

\* Whatever users, callers and sessions do in between: a call goes on only with
\* the policy's own allowance or an approval of exactly this call, and never
\* against a denial.
THEOREM ApprovalCorrect == Spec => []AuthorityIsExact
<1>1. ApprovalInv => AuthorityIsExact
  BY DEF ApprovalInv
<1>2. QED
  BY <1>1, ApprovalInvariant, PTL

\* However many invocations present the token of an approval given once, and
\* whatever is purged or cleared meanwhile, a single call goes on with it.
THEOREM TokensAreUsedOnce == Spec => []TokenUsedOnce
<1>1. ApprovalInv => TokenUsedOnce
  BY DEF ApprovalInv
<1>2. QED
  BY <1>1, ApprovalInvariant, PTL
=============================================================================
