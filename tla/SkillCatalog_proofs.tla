------------------------- MODULE SkillCatalog_proofs -------------------------
(***************************************************************************)
(* Proofs about SkillCatalog.  The inductive invariant has four parts: at  *)
(* most one invocation has catalogMu (MutexInv); what a closed service     *)
(* still does (CloseInv); the generations are given once (NumberInv); and  *)
(* how far a reconciliation has come (ApplyInv).                           *)
(***************************************************************************)
EXTENDS SkillCatalog, WellFoundedInduction, TLAPS

MutexInv == \A o, p \in Ops : HasCatalogMu(o) /\ HasCatalogMu(p) => o = p

CloseInv ==
    \A o \in Ops :
        /\ pc[o] \in {"closing", "closeLock", "clear"} => Kind[o] = "close"
        /\ pc[o] \in {"ready", "begin", "number", "read", "lock", "enter"} => Kind[o] # "close"
        /\ pc[o] \in {"closeLock", "clear"} => closed
        /\ pc[o] \in Applying =>
             (closed <=> Kind[o] = "close") /\ (closed => catalogs = [c \in Catalogs |-> NoSkills])

NumberInv ==
    /\ \A o \in Ops : Kind[o] = "close" \/ pc[o] \in {"idle", "ready", "begin", "number"} => gen[o] = 0
    /\ \A o \in Ops : ~closed => gen[o] <= generation[Of[o]]
    /\ \A o, p \in Ops : Of[o] = Of[p] /\ gen[o] = gen[p] /\ gen[o] # 0 => o = p

DecideInv ==
    \A o \in Ops :
        /\ pc[o] \in Applying \cup {"done"} /\ gen[o] # 0 /\ context[o] # "ended" /\ ~closed
        /\ gen[o] = generation[Of[o]]
        => catalogs[Of[o]] = view[o]

Done(d) == present[d] = Merged(catalogs)[d]
ApplyInv ==
    /\ RuntimeHoldsTheMerge
    /\ \A o \in Ops : pc[o] \in Applying => held = present
    /\ \A o \in Ops : pc[o] = "removing" /\ ~failed =>
         \A d \in Defs \ left : present[d] = None \/ Done(d)
    /\ \A o \in Ops : pc[o] = "adding" /\ ~failed => \A d \in Defs \ left : Done(d)

CatalogInv == TypeOK /\ MutexInv /\ CloseInv /\ NumberInv /\ DecideInv /\ ApplyInv

\* What the merge wants is a view, and the merge of empty catalogs wants nothing
\* (mergeCatalogViews).
LEMMA MergedIsView == ASSUME NEW cs PROVE Merged(cs) \in View
<1>1. ASSUME NEW d \in Defs PROVE (IF \E r \in Revisions : Wanted(cs, d) = {r}
                                   THEN CHOOSE r \in Revisions : Wanted(cs, d) = {r}
                                   ELSE None) \in Revisions \cup {None}
  OBVIOUS
<1> QED
  BY <1>1 DEF Merged, View

\* Empty catalogs merge to nothing.
LEMMA MergeOfNothing ==
    ASSUME NEW d \in Defs PROVE Merged([c \in Catalogs |-> NoSkills])[d] = None
<1>1. Wanted([c \in Catalogs |-> NoSkills], d) = {}
  BY DEF Wanted, NoSkills
<1> QED
  BY <1>1 DEF Merged

\* The service begins with its invariant.
LEMMA InitCatalogInv == Init => CatalogInv
<1> SUFFICES ASSUME Init PROVE CatalogInv
  OBVIOUS
<1> USE DEF Init
<1>1. TypeOK
  BY NoneOutside DEF TypeOK, PC, View, NoSkills
<1>2. MutexInv /\ CloseInv
  BY DEF MutexInv, CloseInv, HasCatalogMu, Applying
<1>3. NumberInv /\ DecideInv
  BY OpsType DEF NumberInv, DecideInv, Applying
<1>4. \A d \in Defs : Merged(catalogs)[d] = None
  BY MergeOfNothing
<1>5. Merged(catalogs) = NoSkills
  BY <1>4 DEF Merged, NoSkills
<1>6. ApplyInv
  BY <1>5 DEF ApplyInv, RuntimeHoldsTheMerge, Applying
<1> QED
  BY <1>1, <1>2, <1>3, <1>6 DEF CatalogInv

(***************************************************************************)
(* Types and places.                                                       *)
(***************************************************************************)
LEMMA TypeKept == ASSUME TypeOK, [Next]_vars PROVE TypeOK'
<1> USE DEF TypeOK, PC, Goto
<1>1. CASE UNCHANGED vars
  BY <1>1 DEF vars, applyVars, opVars
<1>2. ASSUME NEW o \in Ops, Start(o) \/ ContextEnds(o) \/ TakeCatalogMu(o) \/ Ready(o)
      PROVE  TypeOK'
  BY <1>2 DEF Start, ContextEnds, TakeCatalogMu, Ready, applyVars
<1>3. ASSUME NEW o \in Ops, Number(o) PROVE TypeOK'
  BY <1>3, OpsType DEF Number, applyVars
<1>4. ASSUME NEW o \in Ops, ReadSkills(o) \/ ReadFails(o) PROVE TypeOK'
  BY <1>4, OffersType DEF ReadSkills, ReadFails, applyVars
<1>5. ASSUME NEW o \in Ops, NEW cs \in [Catalogs -> View], Reconcile(o, cs)
      PROVE  /\ catalogs' \in [Catalogs -> View] /\ present' \in View /\ left' \subseteq Defs
             /\ failed' \in BOOLEAN /\ pc' \in [Ops -> PC]
  BY <1>5 DEF Reconcile, ToRemove
<1>6. ASSUME NEW o \in Ops, Enter(o) PROVE TypeOK'
  <2>1. [catalogs EXCEPT ![Of[o]] = view[o]] \in [Catalogs -> View]
    BY OpsType
  <2> QED
    BY <1>6, <1>5, <2>1 DEF Enter, applyVars
<1>7. ASSUME NEW o \in Ops, NEW d \in Defs, RemoveSkill(o, d) PROVE TypeOK'
  BY <1>7 DEF RemoveSkill, opVars, View
<1>8. ASSUME NEW o \in Ops, NEW d \in Defs, AddSkill(o, d) PROVE TypeOK'
  <2>1. Merged(catalogs)[d] \in Revisions \cup {None}
    BY MergedIsView DEF View
  <2> QED
    BY <1>8, <2>1 DEF AddSkill, opVars, View
<1>9. ASSUME NEW o \in Ops, RemovalsEnd(o) \/ AdditionsEnd(o) PROVE TypeOK'
  <2>1. failed' \in BOOLEAN
    BY <1>9, Zenon DEF RemovalsEnd, AdditionsEnd
  <2>2. /\ left' \subseteq Defs /\ registered' \in View
        /\ generation' \in [Catalogs -> Nat] /\ pc' \in [Ops -> PC]
    BY <1>9 DEF RemovalsEnd, AdditionsEnd, ToAdd
  <2> QED
    BY <1>9, <2>1, <2>2 DEF RemovalsEnd, AdditionsEnd
<1>10. ASSUME NEW o \in Ops, CloseLocks(o) PROVE TypeOK'
  BY <1>10 DEF CloseLocks, applyVars
<1>11. ASSUME NEW o \in Ops, Clear(o) PROVE TypeOK'
  <2>1. [c \in Catalogs |-> NoSkills] \in [Catalogs -> View]
    BY DEF NoSkills, View
  <2> QED
    BY <1>11, <1>5, <2>1 DEF Clear
<1> QED
  BY <1>1, <1>2, <1>3, <1>4, <1>6, <1>7, <1>8, <1>9, <1>10, <1>11 DEF Next, Continue

\* An invocation moves alone, and to a place where it has catalogMu only from one where
\* it has it, or when nobody has it.
LEMMA OneMoves ==
    ASSUME TypeOK, [Next]_vars
    PROVE  \/ UNCHANGED vars
           \/ \E o \in Ops : /\ \A p \in Ops \ {o} : pc'[p] = pc[p]
                             /\ HasCatalogMu(o)' => HasCatalogMu(o) \/ CatalogMuIsFree
<1> SUFFICES ASSUME NEW o \in Ops, Start(o) \/ ContextEnds(o) \/ Continue(o)
             PROVE  /\ \A p \in Ops \ {o} : pc'[p] = pc[p]
                    /\ HasCatalogMu(o)' => HasCatalogMu(o) \/ CatalogMuIsFree
  BY DEF Next
<1> USE DEF HasCatalogMu, Applying, Goto, TypeOK
<1>1. CASE Start(o) \/ ContextEnds(o) \/ TakeCatalogMu(o) \/ Ready(o) \/ Number(o)
  BY <1>1 DEF Start, ContextEnds, TakeCatalogMu, Ready, Number
<1>2. CASE ReadSkills(o) \/ ReadFails(o) \/ RemovalsEnd(o) \/ AdditionsEnd(o) \/ CloseLocks(o)
  BY <1>2 DEF ReadSkills, ReadFails, RemovalsEnd, AdditionsEnd, CloseLocks
<1>3. CASE Enter(o) \/ Clear(o)
  BY <1>3 DEF Enter, Clear, Reconcile
<1>4. CASE \E d \in Defs : RemoveSkill(o, d) \/ AddSkill(o, d)
  BY <1>4 DEF RemoveSkill, AddSkill, opVars
<1> QED
  BY <1>1, <1>2, <1>3, <1>4 DEF Continue

\* Every step keeps the locks exclusive.
LEMMA MutexKept == ASSUME TypeOK, MutexInv, [Next]_vars PROVE MutexInv'
<1>1. CASE UNCHANGED vars
  BY <1>1 DEF MutexInv, HasCatalogMu, vars, opVars
<1>2. ASSUME NEW o \in Ops, \A p \in Ops \ {o} : pc'[p] = pc[p],
             HasCatalogMu(o)' => HasCatalogMu(o) \/ CatalogMuIsFree
      PROVE  MutexInv'
  BY <1>2 DEF MutexInv, HasCatalogMu, CatalogMuIsFree
<1> QED
  BY <1>1, <1>2, OneMoves

\* Every step keeps what is known of closing.
LEMMA CloseKept == ASSUME TypeOK, MutexInv, CloseInv, [Next]_vars PROVE CloseInv'
<1> USE DEF CloseInv, TypeOK, Applying, Goto
<1>1. CASE UNCHANGED vars
  BY <1>1 DEF vars, opVars
<1>2. ASSUME NEW o \in Ops, Start(o) \/ ContextEnds(o) \/ TakeCatalogMu(o) \/ Ready(o) \/ Number(o)
      PROVE  CloseInv'
  BY <1>2, OpsType DEF Start, ContextEnds, TakeCatalogMu, Ready, Number, Kinds
<1>3. ASSUME NEW o \in Ops, ReadSkills(o) \/ ReadFails(o) \/ RemovalsEnd(o) \/ AdditionsEnd(o)
      PROVE  CloseInv'
  BY <1>3 DEF ReadSkills, ReadFails, RemovalsEnd, AdditionsEnd
<1>4. ASSUME NEW o \in Ops, NEW d \in Defs, RemoveSkill(o, d) \/ AddSkill(o, d) PROVE CloseInv'
  BY <1>4 DEF RemoveSkill, AddSkill, opVars
<1>5. ASSUME NEW o \in Ops, Enter(o) PROVE CloseInv'
  <2>1. \A p \in Ops \ {o} : pc[p] \notin Applying
    BY <1>5 DEF Enter, MutexInv, HasCatalogMu
  <2>2. Kind[o] # "close"
    BY <1>5 DEF Enter
  <2> QED
    BY <1>5, <2>1, <2>2 DEF Enter, Reconcile, Refuses
<1>6. ASSUME NEW o \in Ops, CloseLocks(o) PROVE CloseInv'
  BY <1>6 DEF CloseLocks, Readers
<1>7. ASSUME NEW o \in Ops, Clear(o) PROVE CloseInv'
  <2>1. \A p \in Ops \ {o} : pc[p] \notin Applying
    BY <1>7 DEF Clear, MutexInv, HasCatalogMu
  <2> QED
    BY <1>7, <2>1 DEF Clear, Reconcile
<1> QED
  BY <1>1, <1>2, <1>3, <1>4, <1>5, <1>6, <1>7 DEF Next, Continue

(***************************************************************************)
(* Generations, and what the latest invocation decides.                    *)
(***************************************************************************)
LEMMA NumberKept == ASSUME TypeOK, CloseInv, NumberInv, [Next]_vars PROVE NumberInv'
<1> USE DEF TypeOK, NumberInv, Goto
<1>1. CASE UNCHANGED vars
  BY <1>1 DEF vars, opVars
<1>2. ASSUME NEW o \in Ops, Start(o) \/ ContextEnds(o) \/ TakeCatalogMu(o) \/ Ready(o)
      PROVE  NumberInv'
  BY <1>2 DEF Start, ContextEnds, TakeCatalogMu, Ready
<1>3. ASSUME NEW o \in Ops, Number(o) PROVE NumberInv'
  <2>1. Kind[o] # "close" /\ gen[o] = 0 /\ Of[o] \in Catalogs
    BY <1>3, OpsType DEF Number, CloseInv
  <2>2. CASE closed
    BY <1>3, <2>1, <2>2 DEF Number, Refuses
  <2>3. CASE ~closed
    <3>1. /\ gen' = [gen EXCEPT ![o] = generation[Of[o]] + 1]
          /\ generation' = [generation EXCEPT ![Of[o]] = @ + 1]
          /\ closed' = closed
      BY <1>3, <2>3 DEF Number, Refuses
    <3>2. \A p \in Ops : Of[p] = Of[o] => gen[p] < generation[Of[o]] + 1
      BY <2>1, <2>3
    <3>3. \A p \in Ops : ~closed' => gen'[p] <= generation'[Of[p]]
      BY <2>1, <2>3, <3>1, OpsType
    <3>4. \A p, q \in Ops : Of[p] = Of[q] /\ gen'[p] = gen'[q] /\ gen'[p] # 0 => p = q
      BY <3>1, <3>2
    <3>5. \A p \in Ops : Kind[p] = "close" \/ pc'[p] \in {"idle", "ready", "begin", "number"}
                          => gen'[p] = 0
      BY <1>3, <2>1, <2>3, <3>1 DEF Number, Refuses
    <3> QED
      BY <3>3, <3>4, <3>5
  <2> QED
    BY <2>2, <2>3
<1>4. ASSUME NEW o \in Ops, ReadSkills(o) \/ ReadFails(o) \/ RemovalsEnd(o) \/ CloseLocks(o)
      PROVE  NumberInv'
  BY <1>4 DEF ReadSkills, ReadFails, RemovalsEnd, CloseLocks
<1>5. ASSUME NEW o \in Ops, Enter(o) \/ Clear(o) PROVE NumberInv'
  BY <1>5 DEF Enter, Clear, Reconcile
<1>6. ASSUME NEW o \in Ops, NEW d \in Defs, RemoveSkill(o, d) \/ AddSkill(o, d) PROVE NumberInv'
  BY <1>6 DEF RemoveSkill, AddSkill, opVars
<1>7. ASSUME NEW o \in Ops, AdditionsEnd(o) PROVE NumberInv'
  <2>1. Kind[o] = "close" => closed
    BY <1>7 DEF AdditionsEnd, CloseInv, Applying
  <2> QED
    BY <1>7, <2>1 DEF AdditionsEnd
<1> QED
  BY <1>1, <1>2, <1>3, <1>4, <1>5, <1>6, <1>7 DEF Next, Continue

\* Every step keeps what is known of the latest invocation.
LEMMA DecideKept ==
    ASSUME TypeOK, CloseInv, NumberInv, DecideInv, [Next]_vars PROVE DecideInv'
<1> USE DEF TypeOK, DecideInv, Applying, Goto
<1>1. CASE UNCHANGED vars
  BY <1>1 DEF vars, opVars
<1>2. ASSUME NEW o \in Ops, Start(o) \/ ContextEnds(o) \/ TakeCatalogMu(o) \/ Ready(o)
      PROVE  DecideInv'
  BY <1>2 DEF Start, ContextEnds, TakeCatalogMu, Ready, NumberInv
<1>3. ASSUME NEW o \in Ops, Number(o) PROVE DecideInv'
  <2>1. gen[o] = 0 /\ Of[o] \in Catalogs
    BY <1>3, OpsType DEF Number, NumberInv
  <2>2. CASE closed
    BY <1>3, <2>1, <2>2 DEF Number, Refuses
  <2>3. CASE ~closed
    <3>1. /\ generation' = [generation EXCEPT ![Of[o]] = @ + 1]
          /\ \A p \in Ops \ {o} : gen'[p] = gen[p] /\ pc'[p] = pc[p]
          /\ pc'[o] \in {"lock", "read"}
          /\ UNCHANGED <<closed, catalogs, view, context>>
      BY <1>3, <2>3 DEF Number, Refuses
    <3>2. \A p \in Ops \ {o} : Of[p] = Of[o] => gen'[p] # generation'[Of[p]]
      BY <2>1, <2>3, <3>1 DEF NumberInv
    <3>3. \A p \in Ops : Of[p] # Of[o] => generation'[Of[p]] = generation[Of[p]]
      BY <3>1, OpsType
    <3> QED
      BY <3>1, <3>2, <3>3
  <2> QED
    BY <2>2, <2>3
<1>4. ASSUME NEW o \in Ops, ReadSkills(o) \/ ReadFails(o) \/ RemovalsEnd(o) \/ CloseLocks(o)
      PROVE  DecideInv'
  BY <1>4 DEF ReadSkills, ReadFails, RemovalsEnd, CloseLocks, NumberInv
<1>5. ASSUME NEW o \in Ops, Enter(o) PROVE DecideInv'
  <2>1. CASE Refuses \/ Superseded(o)
    BY <1>5, <2>1 DEF Enter, Refuses, Superseded
  <2>2. CASE ~(Refuses \/ Superseded(o))
    <3>1. /\ catalogs' = [catalogs EXCEPT ![Of[o]] = view[o]]
          /\ pc' = [pc EXCEPT ![o] = "removing"]
          /\ UNCHANGED <<closed, generation, gen, view, context>>
      BY <1>5, <2>2 DEF Enter, Reconcile
    <3>2. gen[o] = generation[Of[o]]
      BY <2>2 DEF Superseded
    <3>3. catalogs'[Of[o]] = view[o]
      BY <3>1, OpsType
    <3>4. ASSUME NEW p \in Ops, Of[p] = Of[o], gen[p] = generation[Of[p]], gen[p] # 0 PROVE p = o
      BY <3>2, <3>4 DEF NumberInv
    <3>5. \A p \in Ops : Of[p] # Of[o] => catalogs'[Of[p]] = catalogs[Of[p]] /\ pc'[p] = pc[p]
      BY <3>1, OpsType
    <3> QED
      BY <3>1, <3>3, <3>4, <3>5
  <2> QED
    BY <2>1, <2>2
<1>6. ASSUME NEW o \in Ops, NEW d \in Defs, RemoveSkill(o, d) \/ AddSkill(o, d) PROVE DecideInv'
  BY <1>6 DEF RemoveSkill, AddSkill, opVars
<1>7. ASSUME NEW o \in Ops, AdditionsEnd(o) PROVE DecideInv'
  <2>1. Kind[o] = "close" => closed
    BY <1>7 DEF AdditionsEnd, CloseInv
  <2> QED
    BY <1>7, <2>1 DEF AdditionsEnd
<1>8. ASSUME NEW o \in Ops, Clear(o) PROVE DecideInv'
  <2>1. closed /\ closed' = closed
    BY <1>8 DEF Clear, CloseInv
  <2> QED
    BY <2>1
<1> QED
  BY <1>1, <1>2, <1>3, <1>4, <1>5, <1>6, <1>7, <1>8 DEF Next, Continue

(***************************************************************************)
(* Reconciliation.                                                         *)
(***************************************************************************)
\* What is still to do at the start of a reconciliation is all that differs and is there.
LEMMA ReconcileApplies ==
    ASSUME TypeOK, NEW o \in Ops, NEW cs \in [Catalogs -> View], MutexInv, ApplyInv,
           pc[o] \in {"enter", "clear"}, Reconcile(o, cs), UNCHANGED <<registered, held>>
    PROVE  ApplyInv'
<1>1. \A p \in Ops \ {o} : pc[p] \notin Applying
  BY DEF MutexInv, HasCatalogMu, Applying
<1>2. pc[o] \notin Applying
  BY DEF Applying
<1>3. held = registered
  BY <1>1, <1>2 DEF ApplyInv, RuntimeHoldsTheMerge
<1>4. /\ pc'[o] = "removing" /\ \A p \in Ops \ {o} : pc'[p] = pc[p]
      /\ present' = registered /\ catalogs' = cs
      /\ left' = ToRemove(registered, Merged(cs))
  BY DEF Reconcile, Goto, TypeOK
<1>5. \A d \in Defs \ left' : present'[d] = None \/ Done(d)'
  BY <1>4 DEF ToRemove, Done
<1> QED
  BY <1>1, <1>3, <1>4, <1>5 DEF ApplyInv, RuntimeHoldsTheMerge, Applying

\* Every step keeps what is known of the runtime's skills.
LEMMA ApplyKept ==
    ASSUME TypeOK, MutexInv, ApplyInv, [Next]_vars PROVE ApplyInv'
<1>1. CASE UNCHANGED vars
  BY <1>1 DEF ApplyInv, RuntimeHoldsTheMerge, Done, vars, opVars, applyVars
<1>2. ASSUME NEW o \in Ops, pc[o] \notin Applying, pc'[o] \notin Applying,
             \A p \in Ops \ {o} : pc'[p] = pc[p],
             UNCHANGED <<catalogs, registered, held, applyVars>>
      PROVE  ApplyInv'
  BY <1>2 DEF ApplyInv, RuntimeHoldsTheMerge, Done, Applying, applyVars
<1>3. ASSUME NEW o \in Ops, Start(o) \/ TakeCatalogMu(o) \/ Ready(o) \/ Number(o)
      PROVE  ApplyInv'
  BY <1>2, <1>3 DEF Start, TakeCatalogMu, Ready, Number, Goto, Applying, TypeOK
<1>4. ASSUME NEW o \in Ops, ReadSkills(o) \/ ReadFails(o) \/ CloseLocks(o) PROVE ApplyInv'
  BY <1>2, <1>4 DEF ReadSkills, ReadFails, CloseLocks, Goto, Applying, TypeOK
<1>5. ASSUME NEW o \in Ops, ContextEnds(o) PROVE ApplyInv'
  BY <1>5 DEF ContextEnds, ApplyInv, RuntimeHoldsTheMerge, Done, applyVars
<1>6. ASSUME NEW o \in Ops, Enter(o) PROVE ApplyInv'
  <2>1. CASE Refuses \/ Superseded(o)
    BY <1>2, <1>6, <2>1 DEF Enter, Goto, Applying, TypeOK
  <2>2. CASE ~(Refuses \/ Superseded(o))
    <3>1. [catalogs EXCEPT ![Of[o]] = view[o]] \in [Catalogs -> View]
      BY OpsType DEF TypeOK
    <3> QED
      BY <1>6, <2>2, <3>1, ReconcileApplies DEF Enter
  <2> QED
    BY <2>1, <2>2
<1>7. ASSUME NEW o \in Ops, Clear(o) PROVE ApplyInv'
  <2>1. [c \in Catalogs |-> NoSkills] \in [Catalogs -> View]
    BY DEF NoSkills, View
  <2> QED
    BY <1>7, <2>1, ReconcileApplies DEF Clear
<1>8. ASSUME NEW o \in Ops, pc[o] \in Applying
      PROVE  held = present /\ \A p \in Ops \ {o} : pc[p] \notin Applying
  BY <1>8 DEF ApplyInv, MutexInv, HasCatalogMu
<1>9. ASSUME NEW o \in Ops, NEW d \in Defs, RemoveSkill(o, d) PROVE ApplyInv'
  <2>1. /\ pc[o] = "removing" /\ pc[o] \in Applying /\ pc' = pc /\ catalogs' = catalogs
        /\ left' = left \ {d}
    BY <1>9 DEF RemoveSkill, Applying, opVars
  <2>2. held' = present' /\ (~failed' => ~failed /\ present'[d] = None)
    BY <1>8, <1>9, <2>1 DEF RemoveSkill, TypeOK, View
  <2>3. \A e \in Defs \ {d} : present'[e] = present[e] /\ (Done(e)' <=> Done(e))
    BY <1>9, <2>1 DEF RemoveSkill, TypeOK, View, Done
  <2>4. \A p \in Ops : pc[p] \in Applying => p = o /\ pc[p] # "adding"
    BY <1>8, <2>1
  <2>5. ~failed' => \A e \in Defs \ left' : present'[e] = None \/ Done(e)'
    <3> SUFFICES ASSUME ~failed', NEW e \in Defs \ left', e # d
                 PROVE  present'[e] = None \/ Done(e)'
      BY <2>2
    <3>1. present[e] = None \/ Done(e)
      BY <2>1, <2>2 DEF ApplyInv
    <3> QED
      BY <2>3, <3>1
  <2> QED
    BY <2>1, <2>2, <2>4, <2>5 DEF ApplyInv, RuntimeHoldsTheMerge, Applying
<1>10. ASSUME NEW o \in Ops, NEW d \in Defs, AddSkill(o, d) PROVE ApplyInv'
  <2>1. /\ pc[o] = "adding" /\ pc[o] \in Applying /\ pc' = pc /\ catalogs' = catalogs
        /\ left' = left \ {d}
    BY <1>10 DEF AddSkill, Applying, opVars
  <2>2. held' = present' /\ (~failed' => ~failed /\ Done(d)')
    BY <1>8, <1>10, <2>1 DEF AddSkill, TypeOK, View, Done
  <2>3. \A e \in Defs \ {d} : Done(e)' <=> Done(e)
    BY <1>10, <2>1 DEF AddSkill, TypeOK, View, Done
  <2> QED
    BY <1>8, <2>1, <2>2, <2>3 DEF ApplyInv, RuntimeHoldsTheMerge
<1>11. ASSUME NEW o \in Ops, RemovalsEnd(o) PROVE ApplyInv'
  <2>1. /\ pc[o] = "removing" /\ pc[o] \in Applying /\ pc' = [pc EXCEPT ![o] = "adding"]
        /\ left' = ToAdd(present, Merged(catalogs))
        /\ UNCHANGED <<catalogs, held, present>>
    BY <1>11 DEF RemovalsEnd, Applying, Goto
  <2>2. ~failed' => ~failed /\ left = {}
    BY <1>11, Zenon DEF RemovalsEnd
  <2>3. ~failed' => \A d \in Defs \ left' : Done(d)'
    BY <2>1, <2>2 DEF ApplyInv, ToAdd, Done
  <2> QED
    BY <1>8, <2>1, <2>3 DEF ApplyInv, RuntimeHoldsTheMerge, Applying, TypeOK
<1>12. ASSUME NEW o \in Ops, AdditionsEnd(o) PROVE ApplyInv'
  <2>1. /\ pc[o] = "adding" /\ pc[o] \in Applying /\ pc' = [pc EXCEPT ![o] = "done"]
        /\ registered' = present
        /\ UNCHANGED <<catalogs, held, present>>
    BY <1>12 DEF AdditionsEnd, Applying, Goto
  <2>2. ~failed' => ~failed /\ left = {}
    BY <1>12, Zenon DEF AdditionsEnd
  <2>3. ~failed' => registered' = Merged(catalogs)'
    <3>1. ~failed' => \A d \in Defs : present[d] = Merged(catalogs)[d]
      BY <2>1, <2>2 DEF ApplyInv, Done
    <3>2. present \in View /\ Merged(catalogs) \in View
      BY MergedIsView DEF TypeOK
    <3> QED
      BY <2>1, <3>1, <3>2 DEF View
  <2> QED
    BY <1>8, <2>1, <2>3 DEF ApplyInv, RuntimeHoldsTheMerge, Applying, TypeOK
<1> QED
  BY <1>1, <1>3, <1>4, <1>5, <1>6, <1>7, <1>9, <1>10, <1>11, <1>12 DEF Next, Continue

\* Every step keeps the invariant.
LEMMA NextCatalogInv == CatalogInv /\ [Next]_vars => CatalogInv'
  BY TypeKept, MutexKept, CloseKept, NumberKept, DecideKept, ApplyKept DEF CatalogInv

\* The inductive invariant of the catalogs.
LEMMA CatalogInvHolds == Spec => []CatalogInv
  BY InitCatalogInv, NextCatalogInv, PTL DEF Spec

\* The variables of the catalogs keep their types (Service).
THEOREM TypeCorrect == Spec => []TypeOK
<1>1. CatalogInv => TypeOK
  BY DEF CatalogInv
<1> QED
  BY <1>1, CatalogInvHolds, PTL

\* A catalog is what its latest sync or removal has read (s.generation).
THEOREM LatestDecides == Spec => []LatestInvocationDecides
<1>1. CatalogInv => LatestInvocationDecides
  BY DEF CatalogInv, DecideInv, LatestInvocationDecides
<1> QED
  BY <1>1, CatalogInvHolds, PTL

\* Whatever calls fail, the record is what the runtime holds; and it is the merge of the
\* catalogs when none did (applyDesiredLocked).
THEOREM RuntimeFollowsCatalogs == Spec => []RuntimeHoldsTheMerge
<1>1. CatalogInv => RuntimeHoldsTheMerge
  BY DEF CatalogInv, ApplyInv
<1> QED
  BY <1>1, CatalogInvHolds, PTL

\* Only a reconciliation of Close changes what the runtime holds of a closed service, and
\* that one wants nothing (Close).
THEOREM ClosedOnlyShrinks == Spec => NothingAfterClose
<1>1. ASSUME CatalogInv, [Next]_vars, closed, NEW d \in Defs PROVE held'[d] \in {held[d], None}
  <2> USE <1>1
  <2>1. CASE held' = held
    BY <2>1
  <2>2. ASSUME NEW o \in Ops, NEW e \in Defs, RemoveSkill(o, e)
        PROVE  held'[d] \in {held[d], None}
    BY <2>2 DEF RemoveSkill, CatalogInv, TypeOK, View
  <2>3. ASSUME NEW o \in Ops, NEW e \in Defs, AddSkill(o, e)
        PROVE  held'[d] \in {held[d], None}
    <3>1. catalogs = [c \in Catalogs |-> NoSkills]
      BY <2>3 DEF AddSkill, CatalogInv, CloseInv, Applying
    <3>2. Merged(catalogs)[e] = None
      BY <3>1, MergeOfNothing
    <3> QED
      BY <2>3, <3>2 DEF AddSkill, CatalogInv, TypeOK, View
  <2>4. held' = held \/ \E o \in Ops : \E e \in Defs : RemoveSkill(o, e) \/ AddSkill(o, e)
    BY DEF Next, Continue, vars, Start, ContextEnds, TakeCatalogMu, Ready, Number, ReadSkills,
           ReadFails, Enter, RemovalsEnd, AdditionsEnd, CloseLocks, Clear
  <2> QED
    BY <2>1, <2>2, <2>3, <2>4
<1>2. CatalogInv /\ [Next]_vars
        => [closed => \A d \in Defs : held'[d] \in {held[d], None}]_vars
  BY <1>1
<1> QED
  BY <1>2, CatalogInvHolds, PTL DEF Spec, NothingAfterClose

(***************************************************************************)
(* Deadlock.  An invocation that is under way waits for a lock or goes on: *)
(* MayGoOn is the guard of its next step.                                  *)
(***************************************************************************)
IsUnderWay(o) == pc[o] \notin {"idle", "done"}

MayGoOn(o) ==
    \/ pc[o] \in {"begin", "lock", "closeLock"} /\ CatalogMuIsFree
    \/ pc[o] \in {"ready", "number", "enter"} /\ MayRLock
    \/ pc[o] = "closing" /\ Readers = {}
    \/ pc[o] \in {"read", "clear"}
    \/ pc[o] \in Applying /\ (left = {} \/ context[o] = "ended" \/ \E d \in Defs : IsNext(d))

\* The guards are those of the actions: no step is made without them.
LEMMA StepsAreGuarded == ASSUME NEW o \in Ops, Continue(o) PROVE IsUnderWay(o) /\ MayGoOn(o)
<1> USE DEF IsUnderWay, MayGoOn, Applying
<1>1. CASE TakeCatalogMu(o) \/ Ready(o) \/ Number(o) \/ ReadSkills(o) \/ ReadFails(o)
  BY <1>1 DEF TakeCatalogMu, Ready, Number, ReadSkills, ReadFails
<1>2. CASE Enter(o) \/ RemovalsEnd(o) \/ AdditionsEnd(o) \/ CloseLocks(o) \/ Clear(o)
  BY <1>2 DEF Enter, RemovalsEnd, AdditionsEnd, CloseLocks, Clear
<1>3. CASE \E d \in Defs : RemoveSkill(o, d) \/ AddSkill(o, d)
  BY <1>3 DEF RemoveSkill, AddSkill
<1> QED
  BY <1>1, <1>2, <1>3 DEF Continue

\* Of the definitions still to remove or to add one comes first.
LEMMA OneIsNext == ASSUME TypeOK, left # {} PROVE \E d \in Defs : IsNext(d)
<1>1. left \subseteq Nat /\ left \subseteq Defs
  BY DefsType DEF TypeOK
<1>2. IsWellFoundedOn(OpToRel(<, Nat), Nat)
  BY NatLessThanWellFounded
<1>3. PICK d \in left : \A e \in left : ~(<<e, d>> \in OpToRel(<, Nat))
  BY <1>1, <1>2, WFMin
<1>4. ASSUME NEW e \in left PROVE d <= e
  <2>1. d \in Nat /\ e \in Nat
    BY <1>1, <1>4
  <2>2. ~(e < d)
    BY <1>3, <2>1 DEF OpToRel
  <2> QED
    BY <2>1, <2>2
<1> QED
  BY <1>1, <1>4 DEF IsNext

\* A reconciliation takes no more locks, so it goes on; without one nobody keeps the read
\* lock, so a Close gets the write lock; without that one whoever has catalogMu gets the
\* read lock; and when nobody has catalogMu it can be taken.
LEMMA NoCircle ==
    ASSUME TypeOK, NEW o \in Ops, IsUnderWay(o) PROVE \E p \in Ops : MayGoOn(p)
<1> USE DEF MayGoOn
<1>1. CASE \E p \in Ops : pc[p] \in Applying
  BY <1>1, OneIsNext
<1>2. CASE (\A p \in Ops : pc[p] \notin Applying) /\ \E p \in Ops : pc[p] = "closing"
  BY <1>2 DEF Readers
<1>3. CASE (\A p \in Ops : pc[p] \notin Applying) /\ \A p \in Ops : pc[p] # "closing"
  <2>1. MayRLock
    BY <1>3 DEF MayRLock
  <2>2. CASE CatalogMuIsFree
    BY <1>3, <2>1, <2>2 DEF IsUnderWay, TypeOK, PC, Applying
  <2>3. CASE ~CatalogMuIsFree
    BY <1>3, <2>1, <2>3 DEF CatalogMuIsFree, HasCatalogMu
  <2> QED
    BY <2>2, <2>3
<1> QED
  BY <1>1, <1>2, <1>3

\* As long as an invocation is under way the guard of one holds.
NoDeadlock == (\E o \in Ops : IsUnderWay(o)) => \E o \in Ops : MayGoOn(o)

\* However many invocations there are and in whatever order they ask for the two locks
\* (lifecycleMu, catalogMu), they never all wait for one another.
THEOREM LocksDoNotDeadlock == Spec => []NoDeadlock
<1>1. TypeOK => NoDeadlock
  BY NoCircle DEF NoDeadlock
<1> QED
  BY <1>1, TypeCorrect, PTL
=============================================================================
