--------------------------- MODULE MCSkillCatalog ---------------------------
(***************************************************************************)
(* SkillCatalog with two syncs and a removal of one catalog, a sync of     *)
(* another one that shares a definition with it, and Close.                *)
(***************************************************************************)
EXTENDS SkillCatalog, TLC

CONSTANTS a, b, c, d, e, one, two

MCKind == (a :> "sync") @@ (b :> "sync") @@ (c :> "remove") @@ (d :> "sync") @@ (e :> "close")
MCOf   == (a :> one) @@ (b :> one) @@ (c :> one) @@ (d :> two) @@ (e :> one)

\* Definition 1 at either revision, or definitions 1 and 2.
MCOffers == {(1 :> "r1") @@ (2 :> None), (1 :> "r2") @@ (2 :> "r1")}
=============================================================================
