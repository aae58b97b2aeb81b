--------------------------- MODULE MCMCPApproval ---------------------------
(***************************************************************************)
(* MCPApproval with one evaluation, two invocations that repeat what it    *)
(* asked, one with other arguments, and two operations of the session      *)
(* manager.  The lax policy allows what the strict one asks about, and     *)
(* both deny the tool once the server turns it off.                        *)
(***************************************************************************)
EXTENDS MCPApproval, TLC

CONSTANTS e1, i1, i2, i3, m1, m2, old, new, off

MCRequest(a, d) == [caller |-> "model", args |-> a, digest |-> d]

MCRequests ==
    (e1 :> MCRequest("x", None))
    @@ (i1 :> MCRequest("x", None)) @@ (i2 :> MCRequest("x", None))
    @@ (i3 :> MCRequest("y", old))

MCReq == [c \in Calls |-> MCRequests[c]]

MCDecision(p, t) ==
    CASE t = off -> "denied"
      [] t # off /\ p = "lax" -> "allowed"
      [] OTHER -> "ask"

MCVerdict == [p \in Policies |-> [c \in Callers |-> [t \in Tools |-> MCDecision(p, t)]]]

\* The two equal invocations, and the two manager operations.
MCSymmetry == Permutations({i1, i2} \cap Invokes) \cup Permutations({m1, m2})
=============================================================================
