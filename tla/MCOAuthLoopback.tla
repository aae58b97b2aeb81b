--------------------------- MODULE MCOAuthLoopback ---------------------------
(***************************************************************************)
(* OAuthLoopback with three fetches: two for one server, and one for       *)
(* another whose state collides with the first one's.                      *)
(***************************************************************************)
EXTENDS OAuthLoopback, TLC

CONSTANTS f1, f2, f3, s1, s2, t1, t2

MCServerOf == (f1 :> s1) @@ (f2 :> s1) @@ (f3 :> s2)
MCStateOf  == (f1 :> t1) @@ (f2 :> t2) @@ (f3 :> t1)
=============================================================================
