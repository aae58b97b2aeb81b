---------------------------- MODULE MCMCPSession ----------------------------
(***************************************************************************)
(* MCPSession with a choice of mixes: a behaviour chooses the invocations  *)
(* that may start in it, four that take the session over from each other,  *)
(* or those of a shutdown.                                                 *)
(***************************************************************************)
EXTENDS MCPSession, TLC

CONSTANTS a, b, c, d, e, f, g, h, i

MCKind == (a :> "connect") @@ (b :> "connect") @@ (c :> "refresh") @@ (d :> "disconnect")
          @@ (e :> "updateBundle") @@ (f :> "updateServer") @@ (g :> "notify")
          @@ (h :> "timer") @@ (i :> "close")

Mixes == {{a, b, c, d}, {a, b, c, e}, {a, b, d, e}, {a, f, g, h, i}}

VARIABLE mix

MCInit == Init /\ mix \in Mixes
MCNext == Next /\ mix' = mix /\ \A o \in Ops \ mix : pc'[o] = pc[o]
MCSpec == MCInit /\ [][MCNext]_<<vars, mix>> /\ Fairness
=============================================================================
