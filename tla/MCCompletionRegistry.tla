------------------------ MODULE MCCompletionRegistry ------------------------
(***************************************************************************)
(* CompletionRegistry on a small instance: two calls that share a request  *)
(* ID, which the interface of aggregate.ts allows, and one with an ID of   *)
(* its own, as use_send_message.ts makes them.                             *)
(***************************************************************************)
EXTENDS CompletionRegistry, TLC

CONSTANTS c1, c2, c3, i1, i2

MCIdOf == (c1 :> i1) @@ (c2 :> i1) @@ (c3 :> i2)
=============================================================================
