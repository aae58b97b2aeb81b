----------------------------- MODULE MCChatTabs -----------------------------
(***************************************************************************)
(* ChatTabs with three conversations of former sessions, one of which the  *)
(* user goes on with.  The two others are alike.                           *)
(***************************************************************************)
EXTENDS ChatTabs, TLC

CONSTANTS c1, c2, c3

MCSymmetry == Permutations({c2, c3})
=============================================================================
