---------------------------- MODULE SkillCatalog ----------------------------
(***************************************************************************)
(* The catalogs of the skill runtime: Service of                           *)
(* internal/skill/runtime (service.go, catalog.go).  A catalog is the      *)
(* skills of one collection; the service merges the catalogs and brings    *)
(* the agent runtime, an external library, to what the merge wants.        *)
(*                                                                         *)
(* Ops are the invocations of SyncCatalog, RemoveCatalog and Close, each   *)
(* in a goroutine of its own.  Two locks order them: catalogMu and the     *)
(* read-write lock lifecycleMu.  Who holds a lock follows from where the   *)
(* invocations stand, so neither lock is a variable.  A call of the        *)
(* catalog source or of the agent runtime, and everything between two      *)
(* acquisitions of a lock, is one action.  IsRegistered only reads, with   *)
(* the two locks taken in the same order.                                  *)
(***************************************************************************)
EXTENDS Naturals

CONSTANTS
    Ops,        \* invocations
    Kind,       \* the operation each invocation is
    Of,         \* the catalog it is about (unused by "close")
    Catalogs,   \* catalog IDs
    Defs,       \* skill definitions, naturals: the runtime is updated in their order
    Revisions,  \* revisions of a definition
    None,       \* no revision: the definition is not there
    Offers,     \* the views a catalog source may return
    Endable     \* the invocations whose context may end

Kinds == {"sync", "remove", "close"}
View == [Defs -> Revisions \cup {None}]
NoSkills == [d \in Defs |-> None]

ASSUME OpsType == Kind \in [Ops -> Kinds] /\ Of \in [Ops -> Catalogs]
ASSUME DefsType == Defs \subseteq Nat
ASSUME OffersType == Offers \subseteq View
ASSUME EndableType == Endable \subseteq Ops
ASSUME NoneOutside == None \notin Revisions

VARIABLES
    closed,      \* s.closed, guarded by lifecycleMu
    catalogs,    \* s.catalogs; a catalog that is absent has no skills
    registered,  \* s.registered: the revision the runtime was given for each definition
    generation,  \* s.generation: the number of the latest sync or removal of each catalog
    held,        \* external: the definitions the agent runtime holds, at the revision
                 \* that was current when they were added
    present,     \* applyDesiredLocked: present
    left,        \* ... the removals or additions still to make
    failed,      \* ... whether there is an applyErr; kept until the next reconciliation
    pc,          \* where each invocation stands
    gen,         \* its generation
    view,        \* the view it has read; none for a removal
    context      \* its context: live, ended, or WithoutCancel

applyVars == <<present, left, failed>>
opVars == <<pc, gen, view, context>>
vars == <<closed, catalogs, registered, generation, held, applyVars, opVars>>

PC == {"idle", "ready", "begin", "number", "read", "lock", "enter", "removing", "adding",
       "closing", "closeLock", "clear", "done"}

TypeOK ==
    /\ closed \in BOOLEAN
    /\ catalogs \in [Catalogs -> View]
    /\ registered \in View
    /\ generation \in [Catalogs -> Nat]
    /\ held \in View
    /\ present \in View
    /\ left \subseteq Defs
    /\ failed \in BOOLEAN
    /\ pc \in [Ops -> PC]
    /\ gen \in [Ops -> Nat]
    /\ view \in [Ops -> View]
    /\ context \in [Ops -> {"live", "ended", "detached"}]

Init ==
    /\ closed = FALSE
    /\ catalogs = [c \in Catalogs |-> NoSkills]
    /\ registered = NoSkills
    /\ generation = [c \in Catalogs |-> 0]
    /\ held = NoSkills
    /\ present = NoSkills /\ left = {} /\ failed = FALSE
    /\ pc = [o \in Ops |-> "idle"]
    /\ gen = [o \in Ops |-> 0]
    /\ view = [o \in Ops |-> NoSkills]
    /\ context = [o \in Ops |-> "live"]

(***************************************************************************)
(* The locks.                                                              *)
(***************************************************************************)
Applying == {"removing", "adding"}
HasCatalogMu(o) == pc[o] \in {"number", "enter", "clear"} \cup Applying
CatalogMuIsFree == \A o \in Ops : ~HasCatalogMu(o)

\* A reconciliation keeps the read lock of lifecycleMu; the other readers only look at
\* closed.  While Close waits for the write lock nobody gets the read lock.
Readers == {o \in Ops : pc[o] \in Applying /\ Kind[o] # "close"}
X_MayRLock == \A o \in Ops : pc[o] \notin {"closing", "closeLock"}
MayRLock == \A o \in Ops : pc[o] # "closing"

Goto(o, place) == pc' = [pc EXCEPT ![o] = place]

TakeCatalogMu(o) ==
    /\ CatalogMuIsFree
    /\ \/ pc[o] = "begin" /\ Goto(o, "number")
       \/ pc[o] = "lock" /\ Goto(o, "enter")
       \/ pc[o] = "closeLock" /\ Goto(o, "clear")
    /\ UNCHANGED <<closed, catalogs, registered, generation, held, applyVars, gen, view, context>>

(***************************************************************************)
(* Sync and removal, up to the view that is to be installed.               *)
(***************************************************************************)
Start(o) ==
    /\ pc[o] = "idle"
    /\ Goto(o, IF Kind[o] = "close" THEN "closing" ELSE "ready")
    /\ UNCHANGED <<closed, catalogs, registered, generation, held, applyVars, gen, view, context>>

X_Refuses == FALSE
Refuses == closed

\* beginCatalogSync and beginCatalogRemoval look at closed before catalogMu ...
Ready(o) ==
    /\ pc[o] = "ready" /\ MayRLock
    /\ Goto(o, IF Refuses THEN "done" ELSE "begin")
    /\ UNCHANGED <<closed, catalogs, registered, generation, held, applyVars, gen, view, context>>

\* ... and under it, before the next generation is taken.
Number(o) ==
    /\ pc[o] = "number" /\ MayRLock
    /\ IF Refuses
       THEN Goto(o, "done") /\ UNCHANGED <<generation, gen>>
       ELSE /\ generation' = [generation EXCEPT ![Of[o]] = @ + 1]
            /\ gen' = [gen EXCEPT ![o] = generation[Of[o]] + 1]
            /\ Goto(o, IF Kind[o] = "remove" THEN "lock" ELSE "read")
    /\ UNCHANGED <<closed, catalogs, registered, held, applyVars, view, context>>

ReadSkills(o) ==
    /\ pc[o] = "read"
    /\ \E v \in Offers : view' = [view EXCEPT ![o] = v]
    /\ Goto(o, IF context[o] = "ended" THEN "done" ELSE "lock")
    /\ UNCHANGED <<closed, catalogs, registered, generation, held, applyVars, gen, context>>

\* The source has an error, or two revisions of one definition: the catalog is
\* removed, under a context that does not end.
ReadFails(o) ==
    /\ pc[o] = "read"
    /\ context' = [context EXCEPT ![o] = "detached"]
    /\ Goto(o, "lock")
    /\ UNCHANGED <<closed, catalogs, registered, generation, held, applyVars, gen, view>>

ContextEnds(o) ==
    /\ o \in Endable /\ pc[o] \notin {"idle", "done"} /\ context[o] = "live"
    /\ context' = [context EXCEPT ![o] = "ended"]
    /\ UNCHANGED <<closed, catalogs, registered, generation, held, applyVars, pc, gen, view>>

(***************************************************************************)
(* Reconciliation, with catalogMu held throughout.                         *)
(***************************************************************************)
\* A definition that catalogs want at different revisions is not wanted at all.
Wanted(cs, d) == {cs[c][d] : c \in Catalogs} \ {None}
Merged(cs) == [d \in Defs |-> IF \E r \in Revisions : Wanted(cs, d) = {r}
                              THEN CHOOSE r \in Revisions : Wanted(cs, d) = {r}
                              ELSE None]

X_ToRemove(current, desired) == {d \in Defs : current[d] # None /\ desired[d] = None}
ToRemove(current, desired) == {d \in Defs : current[d] # None /\ desired[d] # current[d]}
ToAdd(current, desired) == {d \in Defs : desired[d] # None /\ current[d] = None}

\* reconcileCatalogsLocked up to the first call of the agent runtime
Reconcile(o, cs) ==
    /\ catalogs' = cs
    /\ present' = registered
    /\ left' = ToRemove(registered, Merged(cs))
    /\ failed' = FALSE
    /\ Goto(o, "removing")

X_Superseded(o) == FALSE
Superseded(o) == generation[Of[o]] # gen[o]

\* reconcileCatalogAtGeneration and removeCatalogAtGeneration
Enter(o) ==
    /\ pc[o] = "enter" /\ MayRLock
    /\ IF Refuses \/ Superseded(o)
       THEN Goto(o, "done") /\ UNCHANGED <<catalogs, applyVars>>
       ELSE Reconcile(o, [catalogs EXCEPT ![Of[o]] = view[o]])
    /\ UNCHANGED <<closed, registered, generation, held, gen, view, context>>

IsNext(d) == d \in left /\ \A e \in left : d <= e

\* RemoveSkill succeeds, a definition it does not find included, or fails.
RemoveSkill(o, d) ==
    /\ pc[o] = "removing" /\ IsNext(d) /\ context[o] # "ended"
    /\ left' = left \ {d}
    /\ \/ /\ held' = [held EXCEPT ![d] = None]
          /\ present' = [present EXCEPT ![d] = None]
          /\ failed' = failed
       \/ failed' = TRUE /\ UNCHANGED <<held, present>>
    /\ UNCHANGED <<closed, catalogs, registered, generation, opVars>>

RemovalsEnd(o) ==
    /\ pc[o] = "removing" /\ (left = {} \/ context[o] = "ended")
    /\ failed' = (failed \/ left # {})
    /\ left' = ToAdd(present, Merged(catalogs))
    /\ Goto(o, "adding")
    /\ UNCHANGED <<closed, catalogs, registered, generation, held, present, gen, view, context>>

AddSkill(o, d) ==
    /\ pc[o] = "adding" /\ IsNext(d) /\ context[o] # "ended"
    /\ left' = left \ {d}
    /\ \/ /\ held' = [held EXCEPT ![d] = Merged(catalogs)[d]]
          /\ present' = [present EXCEPT ![d] = Merged(catalogs)[d]]
          /\ failed' = failed
       \/ failed' = TRUE /\ UNCHANGED <<held, present>>
    /\ UNCHANGED <<closed, catalogs, registered, generation, opVars>>

\* The return of the operation, and of Close, which also drops the generations.
AdditionsEnd(o) ==
    /\ pc[o] = "adding" /\ (left = {} \/ context[o] = "ended")
    /\ failed' = (failed \/ left # {})
    /\ left' = {}
    /\ registered' = present
    /\ generation' = IF Kind[o] = "close" THEN [c \in Catalogs |-> 0] ELSE generation
    /\ Goto(o, "done")
    /\ UNCHANGED <<closed, catalogs, held, present, gen, view, context>>

(***************************************************************************)
(* Close: the write lock, which waits for the readers and is released      *)
(* again, then catalogMu.                                                  *)
(***************************************************************************)
CloseLocks(o) ==
    /\ pc[o] = "closing" /\ Readers = {}
    /\ closed' = TRUE
    /\ Goto(o, IF closed THEN "done" ELSE "closeLock")
    /\ UNCHANGED <<catalogs, registered, generation, held, applyVars, gen, view, context>>

Clear(o) ==
    /\ pc[o] = "clear"
    /\ Reconcile(o, [c \in Catalogs |-> NoSkills])
    /\ UNCHANGED <<closed, registered, generation, held, gen, view, context>>

Continue(o) ==
    \/ TakeCatalogMu(o)
    \/ Ready(o) \/ Number(o) \/ ReadSkills(o) \/ ReadFails(o)
    \/ Enter(o) \/ RemovalsEnd(o) \/ AdditionsEnd(o)
    \/ \E d \in Defs : RemoveSkill(o, d) \/ AddSkill(o, d)
    \/ CloseLocks(o) \/ Clear(o)

Next == \E o \in Ops : Start(o) \/ ContextEnds(o) \/ Continue(o)

Spec == Init /\ [][Next]_vars

(***************************************************************************)
(* Properties.                                                             *)
(***************************************************************************)
\* The latest sync or removal of a catalog decides: once it has returned, the catalog
\* is what that invocation has read, which it read after it began, however long an
\* older one takes; unless its context ended on the way (generation[id] != generation).
LatestInvocationDecides ==
    \A o \in Ops :
        /\ pc[o] = "done" /\ gen[o] # 0 /\ context[o] # "ended" /\ ~closed
        /\ gen[o] = generation[Of[o]]
        => catalogs[Of[o]] = view[o]

\* Between two reconciliations the record is what the agent runtime holds, each
\* definition at the revision it was added for, whatever calls of the runtime failed;
\* and when none failed in the last one, that is the merge of the catalogs
\* (applyDesiredLocked, mergeCatalogViews).
RuntimeHoldsTheMerge ==
    (\A o \in Ops : pc[o] \notin Applying) =>
        /\ held = registered
        /\ ~failed => registered = Merged(catalogs)

\* Once closed, the runtime gets nothing any more: an invocation that was under way
\* when Close began adds no skill behind it.
NothingAfterClose ==
    [][closed => \A d \in Defs : held'[d] \in {held[d], None}]_vars

\* The invocations never all wait for each other, in whatever order the two locks are
\* asked for while Close waits for its turn: as long as one is under way, one can go on.
\* None of them runs in a circle, so each returns.
SomebodyCanGoOn ==
    (\E o \in Ops : pc[o] \notin {"idle", "done"}) => \E o \in Ops : ENABLED Continue(o)
=============================================================================
