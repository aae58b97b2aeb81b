-------------------------- MODULE MCComposerTools --------------------------
(***************************************************************************)
(* ComposerTools for two calls: one runs automatically and may be run      *)
(* again, the other is the user's and may wait for an approval.            *)
(***************************************************************************)
EXTENDS ComposerTools

CONSTANTS c1, c2

MCMaxRuns == [c \in Calls |-> IF c = c1 THEN 2 ELSE 1]
=============================================================================
