---------------------------- MODULE MCPApproval ----------------------------
(***************************************************************************)
(* The approval of calls to the tools of one MCP server: ApprovalManager   *)
(* of internal/mcp/runtime/invocation/approval_manager.go, Evaluate and    *)
(* Invoke of bridge.go, and the steps of the session manager they meet     *)
(* (internal/mcp/runtime/connection/session_manager.go).                   *)
(*                                                                         *)
(* An evaluation asks whether a tool call needs approval and may leave an  *)
(* approval for the user to resolve; an invocation decides again, presents *)
(* the token of an approval when it has one, and calls the tool.  Each is  *)
(* a goroutine that reads the session, looks up the remembered decisions,  *)
(* creates an approval or consumes a token, and calls the tool, in         *)
(* critical sections of two mutexes: one action each.                      *)
(*                                                                         *)
(* An approval has the name of the evaluation that created it, and so has  *)
(* its token.  A tool stands for what the decision key and the summary     *)
(* record of it: name, digest and inferred risk.  A caller stands for the  *)
(* source of a call and its app instance.                                  *)
(***************************************************************************)
EXTENDS FiniteSets

CONSTANTS
    Evals,      \* calls of Evaluate
    Invokes,    \* calls of Invoke
    Managers,   \* Connect, Disconnect, Invalidate and Close of the manager
    Tools,      \* the tool as different discoveries describe it
    Policies,   \* effective policies a session may be configured with
    Callers,    \* who may call
    Args,       \* arguments of a call, normalised
    Req,        \* what each evaluation and invocation asks for
    Verdict,    \* decision of a policy on a caller and a tool
    AllowStale, \* policies whose override allows a stale digest
    Usable,     \* tools that are enabled and need no task support
    None        \* no digest, approval, tool, policy or manager operation

Calls == Evals \cup Invokes

Request == [caller : Callers, args : Args, digest : Tools \cup {None}]

Verdicts == {"allowed", "ask", "denied"}

ASSUME CallsDiffer == Evals \cap Invokes = {}
ASSUME ReqType == Req \in [Calls -> Request]
ASSUME VerdictType == Verdict \in [Policies -> [Callers -> [Tools -> Verdicts]]]
ASSUME SubsetTypes == AllowStale \subseteq Policies /\ Usable \subseteq Tools
ASSUME UnusableIsDenied ==
    \A p \in Policies, c \in Callers, t \in Tools \ Usable : Verdict[p][c][t] = "denied"
ASSUME NoneOutside == None \notin Evals \cup Tools \cup Policies \cup Managers

VARIABLES
    \* The session manager.
    closed,     \* Close has run
    latest,     \* the operation that took the server's generation last
    ready,      \* the session is ready
    tool,       \* the tool in the discovery snapshot of the connected session
    policy,     \* the policy in its configuration
    mpc,        \* where each manager operation stands
    \* The approval manager.
    pending,    \* approvals in the pending map
    issued,     \* those whose token has been issued
    expired,    \* approvals past their ExpiresAt
    decisions,  \* decision key -> the approval whose resolution is remembered
    \* The calls.
    cpc,        \* where each stands
    saw,        \* what CallToolDryRun returned to it
    token,      \* token an invocation presents
    \* Their outcome.
    answer,     \* resolution the user gave to each approval
    authority   \* approval an invocation goes on with; None: the policy's own

sessionVars  == <<closed, latest, ready, tool, policy, mpc>>
approvalVars == <<pending, issued, expired, decisions>>
callVars     == <<cpc, saw, token, answer, authority>>
vars == <<sessionVars, approvalVars, callVars>>

Resolutions == {"allowOnce", "allowAlways", "denyOnce", "denyAlways"}

Keys == Tools \X Callers

\* What a dry run returned: of which session, which tool, under which policy.
Seen == [session : Managers \cup {None}, tool : Tools \cup {None},
         policy : Policies \cup {None}]

TypeOK ==
    /\ closed \in BOOLEAN
    /\ latest \in Managers \cup {None}
    /\ ready \in BOOLEAN
    /\ tool \in Tools \cup {None}
    /\ policy \in Policies \cup {None}
    /\ mpc \in [Managers -> {"idle", "clearing", "connecting", "connected", "ending",
                          "closing", "done"}]
    /\ pending \subseteq Evals
    /\ issued \subseteq pending
    /\ expired \subseteq Evals
    /\ decisions \in [Keys -> Evals \cup {None}]
    /\ cpc \in [Calls -> {"idle", "lookup", "create", "offered", "verify", "call",
                          "ran", "over"}]
    /\ saw \in [Calls -> Seen]
    /\ token \in [Invokes -> Evals \cup {None}]
    /\ answer \in [Evals -> Resolutions \cup {"none"}]
    /\ authority \in [Invokes -> Evals \cup {None}]

Init ==
    /\ closed = FALSE
    /\ latest = None
    /\ ready = FALSE
    /\ tool = None
    /\ policy = None
    /\ mpc = [m \in Managers |-> "idle"]
    /\ pending = {}
    /\ issued = {}
    /\ expired = {}
    /\ decisions = [k \in Keys |-> None]
    /\ cpc = [c \in Calls |-> "idle"]
    /\ saw = [c \in Calls |-> [session |-> None, tool |-> None, policy |-> None]]
    /\ token = [i \in Invokes |-> None]
    /\ answer = [e \in Evals |-> "none"]
    /\ authority = [i \in Invokes |-> None]

-----------------------------------------------------------------------------
(* Helpers.  The definitions named ..._X are slips a change of the code    *)
(* could make; no action uses them.                                        *)

\* The decision of the policy a call has seen.
VerdictOf(c) == Verdict[saw[c].policy][Req[c].caller][saw[c].tool]

\* The checks of CallToolDryRun and CallTool on the digest of a request.
DigestAccepted(c) == Req[c].digest \in {None, tool} \/ policy \in AllowStale

\* approvalDecisionKeyFor of a call's summary.
Key(c) == <<saw[c].tool, Req[c].caller>>

Matches_X(e, i) == Key(e) = Key(i)

\* approvalSummaryMatches: a token is good for the call its approval describes.
Matches(e, i) == Key(e) = Key(i) /\ Req[e].args = Req[i].args

\* What purgeExpiredLocked leaves in the pending map.
Live == pending \ expired

\* A token is a field of its approval: those of the approvals left in the map.
Tokens(left) == issued \cap left

Consumed_X(e) == Live

\* The pending map without approval e.
Consumed(e) == Live \ {e}

\* applyCachedDecision: a remembered approval answers a question and overrides no
\* denial; a remembered denial overrides an allowance.
Applied(v, e) ==
    CASE e = None -> v
      [] e # None /\ answer[e] = "allowAlways" -> IF v = "ask" THEN "allowed" ELSE v
      [] OTHER -> "denied"

Goto(c, where) == cpc' = [cpc EXCEPT ![c] = where]

-----------------------------------------------------------------------------
(* The session manager.  A manager operation changes the session under the *)
(* manager's mutex, and clears the server's approvals after releasing it.  *)

\* No session is ready, or has a client.
NoSession == ready' = FALSE /\ tool' = None /\ policy' = None

\* beginConnection.
BeginConnection(m) ==
    /\ mpc[m] = "idle" /\ ~closed
    /\ mpc' = [mpc EXCEPT ![m] = "clearing"]
    /\ latest' = m
    /\ NoSession
    /\ UNCHANGED <<closed, approvalVars, callVars>>

\* disconnectSession and removeSession.
EndSession(m) ==
    /\ mpc[m] = "idle"
    /\ mpc' = [mpc EXCEPT ![m] = "ending"]
    /\ latest' = m
    /\ NoSession
    /\ UNCHANGED <<closed, approvalVars, callVars>>

\* The critical section of Close, which takes the cleaner away from the others.
CloseManager(m) ==
    /\ mpc[m] = "idle" /\ ~closed
    /\ mpc' = [mpc EXCEPT ![m] = "closing"]
    /\ closed' = TRUE
    /\ latest' = m
    /\ NoSession
    /\ UNCHANGED <<approvalVars, callVars>>

\* ClearServer, or Clear when the manager closes.  An operation that looks for the
\* cleaner after Close finds none.
ClearServer(m) ==
    /\ mpc[m] \in {"clearing", "ending", "closing"}
    /\ mpc' = [mpc EXCEPT ![m] = IF mpc[m] = "clearing" THEN "connecting" ELSE "done"]
    /\ \/ /\ pending' = {}
          /\ issued' = {}
          /\ decisions' = [k \in Keys |-> None]
       \/ /\ closed /\ mpc[m] # "closing"
          /\ UNCHANGED <<pending, issued, decisions>>
    /\ UNCHANGED <<closed, latest, ready, tool, policy, expired, callVars>>

\* commitConnection, with the configuration and the discovery of the attempt.
CommitConnection(m) ==
    /\ mpc[m] = "connecting" /\ latest = m /\ ~closed
    /\ mpc' = [mpc EXCEPT ![m] = "connected"]
    /\ ready' = TRUE
    /\ tool' \in Tools
    /\ policy' \in Policies
    /\ UNCHANGED <<closed, latest, approvalVars, callVars>>

\* A refresh of the connected session finds another tool list, or fails and
\* leaves the session in the error state.
Refresh ==
    /\ latest # None /\ mpc[latest] = "connected" /\ ~closed
    /\ \/ ready' = TRUE /\ tool' \in Tools
       \/ ready' = FALSE /\ UNCHANGED tool
    /\ UNCHANGED <<closed, latest, policy, mpc, approvalVars, callVars>>

-----------------------------------------------------------------------------
(* The bridge and the approval manager.                                    *)

\* CallToolDryRun, the first step of both: an invocation comes with a token the
\* user was given, or with none.
DryRun(c) ==
    /\ cpc[c] = "idle"
    /\ IF c \in Invokes
         THEN \E e \in {None} \cup {f \in Evals : answer[f] = "allowOnce"} :
                token' = [token EXCEPT ![c] = e]
         ELSE UNCHANGED token
    /\ IF ready /\ DigestAccepted(c)
         THEN /\ saw' = [saw EXCEPT ![c] = [session |-> latest, tool |-> tool,
                                            policy |-> policy]]
              /\ Goto(c, "lookup")
         ELSE Goto(c, "over") /\ UNCHANGED saw
    /\ UNCHANGED <<sessionVars, approvalVars, answer, authority>>

\* Where a call goes with its decision.
After(c, decision) ==
    CASE decision = "ask" /\ c \in Evals -> "create"
      [] decision = "ask" /\ c \in Invokes /\ token[c] # None -> "verify"
      [] decision = "allowed" /\ c \in Invokes -> "call"
      [] OTHER -> "over"

\* evaluateTool, visibility included, and applyCachedDecision.
LookupDecision(c) ==
    LET remembered == decisions[Key(c)]
        decision == Applied(VerdictOf(c), remembered)
    IN
    /\ cpc[c] = "lookup"
    /\ Goto(c, After(c, decision))
    /\ authority' = IF After(c, decision) = "call" /\ VerdictOf(c) # "allowed"
                      THEN [authority EXCEPT ![c] = remembered] ELSE authority
    /\ pending' = Live
    /\ issued' = Tokens(Live)
    /\ UNCHANGED <<sessionVars, expired, decisions, saw, token, answer>>

\* Create: the evaluation returns the approval to the caller.
Create(e) ==
    /\ cpc[e] = "create"
    /\ Goto(e, "offered")
    /\ pending' = Live \cup {e}
    /\ issued' = Tokens(Live)
    /\ UNCHANGED <<sessionVars, expired, decisions, saw, token, answer, authority>>

\* Resolve: the user answers an approval that is still pending.
Resolve(e, resolution) ==
    /\ cpc[e] = "offered"
    /\ e \in Live \ issued
    /\ answer' = [answer EXCEPT ![e] = resolution]
    /\ IF resolution = "allowOnce"
         THEN pending' = Live /\ issued' = Tokens(Live) \cup {e}
         ELSE pending' = Live \ {e} /\ issued' = Tokens(Live)
    /\ decisions' = IF resolution \in {"allowAlways", "denyAlways"}
                      THEN [decisions EXCEPT ![Key(e)] = e] ELSE decisions
    /\ UNCHANGED <<sessionVars, expired, cpc, saw, token, authority>>

\* VerifyAndConsumeToken.
VerifyAndConsumeToken(i) ==
    LET e == token[i] IN
    /\ cpc[i] = "verify"
    /\ IF e \in issued \cap Live /\ Matches(e, i)
         THEN /\ pending' = Consumed(e)
              /\ authority' = [authority EXCEPT ![i] = e]
              /\ Goto(i, "call")
         ELSE /\ pending' = Live
              /\ Goto(i, "over")
              /\ UNCHANGED authority
    /\ issued' = Tokens(pending')
    /\ UNCHANGED <<sessionVars, expired, decisions, saw, token, answer>>

\* CallTool reads the session again, and decides nothing again but the digest
\* and whether the tool can be used.
CallTool(i) ==
    /\ cpc[i] = "call"
    /\ Goto(i, IF ready /\ tool \in Usable /\ DigestAccepted(i) THEN "ran" ELSE "over")
    /\ UNCHANGED <<sessionVars, approvalVars, saw, token, answer, authority>>

\* The context of the caller ends: each of these steps checks it first.
GiveUp(c) ==
    /\ cpc[c] \in {"create", "verify", "call"}
    /\ Goto(c, "over")
    /\ UNCHANGED <<sessionVars, approvalVars, saw, token, answer, authority>>

\* An approval reaches its ExpiresAt.
Expire(e) ==
    /\ e \in pending
    /\ expired' = expired \cup {e}
    /\ UNCHANGED <<sessionVars, pending, issued, decisions, callVars>>

Next ==
    \/ \E m \in Managers :
        \/ BeginConnection(m) \/ EndSession(m) \/ CloseManager(m)
        \/ ClearServer(m) \/ CommitConnection(m)
    \/ Refresh
    \/ \E c \in Calls : DryRun(c) \/ LookupDecision(c) \/ GiveUp(c)
    \/ \E e \in Evals :
        Create(e) \/ Expire(e) \/ (\E r \in Resolutions : Resolve(e, r))
    \/ \E i \in Invokes : VerifyAndConsumeToken(i) \/ CallTool(i)

Spec == Init /\ [][Next]_vars

-----------------------------------------------------------------------------
(* Properties.                                                             *)

\* A call that goes on to its tool.
GoesOn(i) == cpc[i] \in {"call", "ran"}

\* A call goes on only if the policy it was decided by allows it, or asks and the
\* user has approved: always, for this tool and caller, or once, for this tool,
\* caller and arguments and with the token this call presents.  No approval
\* overrides a denial.
AuthorityIsExact ==
    \A i \in Invokes : GoesOn(i) =>
        LET e == authority[i] IN
        \/ e = None /\ VerdictOf(i) = "allowed"
        \/ /\ e # None
           /\ VerdictOf(i) = "ask"
           /\ Key(e) = Key(i)
           /\ \/ answer[e] = "allowAlways"
              \/ answer[e] = "allowOnce" /\ token[i] = e /\ Req[e].args = Req[i].args

\* An approval given once lets one call go on, however many present its token.
TokenUsedOnce ==
    \A i, j \in Invokes :
        /\ GoesOn(i) /\ GoesOn(j)
        /\ authority[i] # None
        /\ authority[i] = authority[j]
        /\ answer[authority[i]] = "allowOnce"
        => i = j
=============================================================================
