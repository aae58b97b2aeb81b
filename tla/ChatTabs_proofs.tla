-------------------------- MODULE ChatTabs_proofs --------------------------
(***************************************************************************)
(* The chat page, for any numbers of tabs, conversations, messages and     *)
(* texts.  Two inductive invariants carry the theorems at the end: Inv, of *)
(* the page, its loads and what is kept (with it the locked titles), and   *)
(* SavedInv, of what is queued to be saved, which needs that turns are not *)
(* stopped, titles not given and conversations not picked at the moments   *)
(* that EarlyStops, LateRenames and EarlyPicks stand for.                  *)
(***************************************************************************)
EXTENDS ChatTabs, FiniteSetTheorems, SequenceTheorems, TLAPS

(***************************************************************************)
(* Sequences without repetitions, and what is filtered out of them.        *)
(***************************************************************************)
\* The places of a sequence that are in a set, and how many of them come no later.
Places(s, S) == {i \in DOMAIN s : s[i] \in S}
Rank(K, i) == Cardinality({j \in K : j <= i})

\* The places of a sequence can be counted.
LEMMA PlacesAreFinite ==
    ASSUME NEW T, NEW s \in Seq(T), NEW K \in SUBSET DOMAIN s
    PROVE  IsFiniteSet(K) /\ Cardinality(K) \in Nat
<1>1. DOMAIN s = 1..Len(s) /\ Len(s) \in Nat
  BY LenProperties
<1>2. IsFiniteSet(1..Len(s))
  BY <1>1, FS_Interval
<1>3. IsFiniteSet(K)
  BY <1>1, <1>2, FS_Subset
<1> QED
  BY <1>3, FS_CardinalityType

\* Every number up to the size of K is the rank of exactly one of its elements.
LEMMA RanksAreExact ==
    ASSUME NEW n \in Nat, NEW K \in SUBSET (1..n)
    PROVE  /\ Cardinality(K) \in Nat
           /\ \A i \in K : Rank(K, i) \in 1..Cardinality(K)
           /\ \A i, j \in K : Rank(K, i) = Rank(K, j) => i = j
           /\ \A k \in 1..Cardinality(K) : \E i \in K : Rank(K, i) = k
<1>1. IsFiniteSet(K) /\ \A L \in SUBSET K : IsFiniteSet(L) /\ Cardinality(L) \in Nat
  <2>1. IsFiniteSet(1..n)
    BY FS_Interval
  <2>2. IsFiniteSet(K)
    BY <2>1, FS_Subset
  <2> QED
    BY <2>2, FS_Subset, FS_CardinalityType
<1>2. Cardinality(K) \in Nat
  BY <1>1
<1>3. ASSUME NEW i \in K PROVE Rank(K, i) \in 1..Cardinality(K)
  <2> DEFINE L == {j \in K : j <= i}
  <2>1. L \in SUBSET K /\ i \in L
    OBVIOUS
  <2>2. Cardinality(L) <= Cardinality(K)
    BY <1>1, <2>1, FS_Subset
  <2>3. Cardinality(L) \in Nat /\ Cardinality(L) # 0
    BY <1>1, <2>1, FS_EmptySet
  <2> QED
    BY <1>2, <2>2, <2>3 DEF Rank
<1>4. ASSUME NEW i \in K, NEW j \in K, i < j PROVE Rank(K, i) < Rank(K, j)
  <2> DEFINE L == {k \in K : k <= i}
             M == {k \in K : k <= j}
  <2>1. L \in SUBSET M /\ M \in SUBSET K /\ j \in M /\ j \notin L
    <3>1. \A k \in K : k \in 1..n
      OBVIOUS
    <3>2. \A k \in K : k <= i => k <= j
      BY <1>4, <3>1
    <3>3. ~(j <= i) /\ j <= j
      BY <1>4, <3>1
    <3> QED
      BY <3>2, <3>3
  <2>2. IsFiniteSet(M) /\ Cardinality(M) \in Nat /\ Cardinality(L) \in Nat
    BY <1>1, <2>1
  <2>3. Cardinality(L) <= Cardinality(M) /\ (Cardinality(M) = Cardinality(L) => M = L)
    BY <2>1, <2>2, FS_Subset
  <2>4. M # L
    BY <2>1
  <2> HIDE DEF L, M
  <2>5. Cardinality(L) < Cardinality(M)
    BY <2>2, <2>3, <2>4
  <2> QED
    BY <2>5 DEF Rank, L, M
<1>5. ASSUME NEW i \in K, NEW j \in K, Rank(K, i) = Rank(K, j) PROVE i = j
  BY <1>2, <1>3, <1>4, <1>5
<1>6. ASSUME NEW k \in 1..Cardinality(K) PROVE \E i \in K : Rank(K, i) = k
  <2> DEFINE C == 1..Cardinality(K)
             f == [i \in K |-> Rank(K, i)]
  <2>1. f \in Injection(K, C)
    BY <1>3, <1>5 DEF Injection, IsInjective
  <2>2. IsFiniteSet(C) /\ Cardinality(C) = Cardinality(K)
    BY <1>2, FS_Interval
  <2>3. f \in Surjection(K, C)
    BY <2>1, <2>2, FS_Injection
  <2> QED
    BY <2>3 DEF Surjection
<1> QED
  BY <1>2, <1>3, <1>5, <1>6

\* What is filtered are the elements that are in S, without new repetitions.
LEMMA Filtered ==
    ASSUME NEW T, NEW s \in Seq(T), NEW S
    PROVE  /\ Filter(s, S) \in Seq(T)
           /\ Len(Filter(s, S)) <= Len(s)
           /\ Range(Filter(s, S)) = Range(s) \cap S
           /\ IsInjective(s) => IsInjective(Filter(s, S))
<1> DEFINE K == Places(s, S)
           C == 1..Cardinality(K)
           nth(k) == CHOOSE i \in K : Rank(K, i) = k
<1>1. DOMAIN s = 1..Len(s) /\ Len(s) \in Nat /\ \A i \in DOMAIN s : s[i] \in T
  BY LenProperties, ElementOfSeq
<1>2. K \in SUBSET (1..Len(s)) /\ \A i \in K : s[i] \in T \cap S
  BY <1>1 DEF Places
<1>3. Filter(s, S) = [k \in C |-> s[nth(k)]]
  BY DEF Filter, Places, Rank
<1> HIDE DEF K
<1>4. /\ Cardinality(K) \in Nat
      /\ \A k \in C : nth(k) \in K /\ Rank(K, nth(k)) = k
      /\ \A i, j \in K : Rank(K, i) = Rank(K, j) => i = j
  BY <1>1, <1>2, RanksAreExact
<1>5. \A i \in K : Rank(K, i) \in C /\ nth(Rank(K, i)) = i
  <2> SUFFICES ASSUME NEW i \in K PROVE Rank(K, i) \in C /\ nth(Rank(K, i)) = i
    OBVIOUS
  <2>1. Rank(K, i) \in C
    BY <1>1, <1>2, RanksAreExact
  <2>2. nth(Rank(K, i)) \in K /\ Rank(K, nth(Rank(K, i))) = Rank(K, i)
    BY <1>4, <2>1
  <2> QED
    BY <1>4, <2>1, <2>2
<1> HIDE DEF nth
<1>6. Filter(s, S) \in Seq(T)
  <2>1. Filter(s, S) \in [1..Cardinality(K) -> T]
    BY <1>2, <1>3, <1>4
  <2> QED
    BY <1>4, <2>1, SeqDef
<1>0. Len(Filter(s, S)) <= Len(s)
  <2>1. DOMAIN Filter(s, S) = 1..Cardinality(K)
    BY <1>3
  <2>2. DOMAIN Filter(s, S) = 1..Len(Filter(s, S)) /\ Len(Filter(s, S)) \in Nat
    BY <1>6, LenProperties
  <2>3. Len(Filter(s, S)) = Cardinality(K)
    BY <1>4, <2>1, <2>2
  <2>4. IsFiniteSet(1..Len(s)) /\ Cardinality(1..Len(s)) = Len(s)
    BY <1>1, FS_Interval
  <2>5. Cardinality(K) <= Cardinality(1..Len(s))
    BY <1>2, <2>4, FS_Subset
  <2> QED
    BY <2>3, <2>4, <2>5
<1>7. Range(Filter(s, S)) = Range(s) \cap S
  <2>1. ASSUME NEW x \in Range(s) \cap S PROVE x \in Range(Filter(s, S))
    <3>1. PICK i \in DOMAIN s : s[i] = x
      BY DEF Range
    <3>2. i \in K
      BY <3>1 DEF K, Places
    <3> QED
      BY <1>3, <1>5, <3>1, <3>2 DEF Range
  <2>2. ASSUME NEW x \in Range(Filter(s, S)) PROVE x \in Range(s) \cap S
    <3>1. PICK k \in C : x = s[nth(k)]
      BY <1>3 DEF Range
    <3>2. nth(k) \in DOMAIN s /\ s[nth(k)] \in S
      BY <1>1, <1>2, <1>4
    <3> QED
      BY <3>1, <3>2 DEF Range
  <2> QED
    BY <2>1, <2>2
<1>8. ASSUME IsInjective(s) PROVE IsInjective(Filter(s, S))
  <2> SUFFICES ASSUME NEW k \in C, NEW m \in C, s[nth(k)] = s[nth(m)] PROVE k = m
    BY <1>3 DEF IsInjective
  <2>1. nth(k) = nth(m)
    BY <1>1, <1>2, <1>4, <1>8 DEF IsInjective
  <2> QED
    BY <1>4, <2>1
<1> QED
  BY <1>0, <1>6, <1>7, <1>8

\* The last element of a sequence is one of its elements.
LEMMA LastOf ==
    ASSUME NEW T, NEW s \in Seq(T)
    PROVE  /\ s = <<>> <=> Range(s) = {}
           /\ s # <<>> => Last(s) \in Range(s)
           /\ Range(s) \subseteq T
<1>1. DOMAIN s = 1..Len(s) /\ Len(s) \in Nat /\ \A i \in DOMAIN s : s[i] \in T
  BY LenProperties, ElementOfSeq
<1>2. s # <<>> => Len(s) \in DOMAIN s
  BY <1>1, EmptySeq
<1>3. s = <<>> => DOMAIN s = {}
  BY <1>1, EmptySeq
<1> QED
  BY <1>1, <1>2, <1>3 DEF Range, Last

\* A sequence without repetitions is as long as its range is large.
LEMMA Distinct ==
    ASSUME NEW T, NEW s \in Seq(T), IsInjective(s)
    PROVE  IsFiniteSet(Range(s)) /\ Cardinality(Range(s)) = Len(s) /\ Len(s) \in Nat
<1>1. DOMAIN s = 1..Len(s) /\ Len(s) \in Nat /\ s \in [1..Len(s) -> T]
  BY LenProperties
<1>2. s \in Bijection(1..Len(s), Range(s))
  BY <1>1 DEF Bijection, Injection, Surjection, IsInjective, Range
<1>3. ExistsBijection(1..Len(s), Range(s))
  BY <1>2 DEF ExistsBijection
<1>4. IsFiniteSet(Range(s))
  BY <1>1, <1>3, FS_NatBijection
<1>5. Cardinality(Range(s)) = Len(s)
  BY <1>1, <1>3, FS_CountingElements
<1> QED
  BY <1>1, <1>4, <1>5

\* A sequence without repetitions of one element is that element.
LEMMA Single ==
    ASSUME NEW T, NEW s \in Seq(T), IsInjective(s), NEW x, Range(s) = {x}
    PROVE  s = <<x>>
<1>1. Len(s) = 1
  BY Distinct, FS_Singleton
<1>2. DOMAIN s = 1..1 /\ s \in [1..1 -> T]
  BY <1>1, LenProperties
<1>3. s[1] = x
  BY <1>2 DEF Range
<1> QED
  BY <1>2, <1>3

\* The shorter of two sequences without repetitions.
LEMMA Shorter ==
    ASSUME NEW T, NEW s \in Seq(T), NEW r \in Seq(T), IsInjective(s), IsInjective(r),
           Range(r) \subseteq Range(s)
    PROVE  /\ Len(r) <= Len(s)
           /\ Range(r) # Range(s) => Len(r) < Len(s)
           /\ Len(r) \in Nat /\ Len(s) \in Nat
<1>1. /\ IsFiniteSet(Range(s)) /\ Cardinality(Range(s)) = Len(s) /\ Len(s) \in Nat
      /\ Cardinality(Range(r)) = Len(r) /\ Len(r) \in Nat
  BY Distinct
<1>2. /\ Cardinality(Range(r)) <= Cardinality(Range(s))
      /\ Cardinality(Range(s)) = Cardinality(Range(r)) => Range(s) = Range(r)
  BY <1>1, FS_Subset
<1> QED
  BY <1>1, <1>2

\* What an appended element changes.
LEMMA Appended ==
    ASSUME NEW T, NEW s \in Seq(T), NEW x \in T
    PROVE  /\ Append(s, x) \in Seq(T) /\ Append(s, x) # <<>>
           /\ Len(Append(s, x)) = Len(s) + 1 /\ Len(s) \in Nat
           /\ Range(Append(s, x)) = Range(s) \cup {x}
           /\ Last(Append(s, x)) = x
           /\ IsInjective(s) /\ x \notin Range(s) => IsInjective(Append(s, x))
<1> DEFINE r == Append(s, x)
<1>1. DOMAIN s = 1..Len(s) /\ Len(s) \in Nat
  BY LenProperties
<1>2. /\ r \in Seq(T) /\ r # <<>> /\ Len(r) = Len(s) + 1
      /\ \A i \in 1..Len(s) : r[i] = s[i]
      /\ r[Len(s) + 1] = x
  BY AppendProperties
<1>3. DOMAIN r = 1..(Len(s) + 1)
  BY <1>2, LenProperties
<1> HIDE DEF r
<1>4. Range(r) = Range(s) \cup {x}
  <2>1. Range(r) = {r[i] : i \in 1..Len(s)} \cup {r[Len(s) + 1]}
    BY <1>1, <1>3 DEF Range
  <2>2. {r[i] : i \in 1..Len(s)} = Range(s)
    BY <1>1, <1>2 DEF Range
  <2> QED
    BY <1>2, <2>1, <2>2
<1>5. Last(r) = x
  BY <1>2 DEF Last
<1>6. ASSUME IsInjective(s), x \notin Range(s) PROVE IsInjective(r)
  <2>1. \A i \in 1..Len(s) : s[i] # x
    BY <1>1, <1>6 DEF Range
  <2>2. \A i, j \in 1..Len(s) : s[i] = s[j] => i = j
    BY <1>1, <1>6 DEF IsInjective
  <2> QED
    BY <1>1, <1>2, <1>3, <2>1, <2>2 DEF IsInjective
<1> QED
  BY <1>1, <1>2, <1>4, <1>5, <1>6 DEF r

\* What is removed from the bar is gone, and nothing else is.
LEMMA Removed ==
    ASSUME NEW T, NEW s \in Seq(T), NEW x
    PROVE  /\ Without(s, x) \in Seq(T)
           /\ Range(Without(s, x)) = Range(s) \ {x}
           /\ IsInjective(s) => IsInjective(Without(s, x))
           /\ IsInjective(s) /\ x \in Range(s) => Len(Without(s, x)) < Len(s)
<1>1. /\ Without(s, x) \in Seq(T)
      /\ Range(Without(s, x)) = Range(s) \cap (Range(s) \ {x})
      /\ IsInjective(s) => IsInjective(Without(s, x))
  BY Filtered DEF Without
<1>2. Range(Without(s, x)) = Range(s) \ {x}
  BY <1>1
<1>3. ASSUME IsInjective(s), x \in Range(s) PROVE Len(Without(s, x)) < Len(s)
  <2>1. Range(Without(s, x)) \subseteq Range(s) /\ Range(Without(s, x)) # Range(s)
    BY <1>2, <1>3
  <2> QED
    BY <1>1, <1>3, <2>1, Shorter
<1> QED
  BY <1>1, <1>2, <1>3

\* An activated tab is among the activated ones, whether it was before or not.
LEMMA Touched ==
    ASSUME NEW T, NEW s \in Seq(T), NEW x \in T
    PROVE  Touch(s, x) \in Seq(T) /\ Range(Touch(s, x)) = Range(s) \cup {x}
<1>1. Without(s, x) \in Seq(T) /\ Range(Without(s, x)) = Range(s) \ {x}
  BY Removed
<1> QED
  BY <1>1, Appended DEF Touch

\* A set of numbers that is not empty has a least one.
LEMMA LeastExists ==
    ASSUME NEW T, T \subseteq Nat, T # {}
    PROVE  \E x \in T : \A y \in T : x <= y
<1>1. IsWellFoundedOn(OpToRel(<, Nat), Nat)
  BY NatLessThanWellFounded
<1>2. PICK x \in T : \A y \in T : ~(<<y, x>> \in OpToRel(<, Nat))
  BY <1>1, WFMin
<1>3. ASSUME NEW y \in T PROVE x <= y
  <2>1. x \in Nat /\ y \in Nat
    OBVIOUS
  <2>2. ~(y < x)
    BY <1>2, <2>1 DEF OpToRel
  <2> QED
    BY <2>1, <2>2
<1> QED
  BY <1>3
(***************************************************************************)
(* The inductive invariant.                                                *)
(***************************************************************************)
\* The tabs of a page, before they are brought into their normal form and after.
WellFormed(p) ==
    /\ p \in Page
    /\ IsInjective(p.order)
    /\ Len(p.order) <= MaxTabs
    /\ \A t \in TabIds : p.tab[t] # None <=> t \in Open(p)
    /\ Range(p.lastActive) \subseteq Open(p)

Normal(p) ==
    /\ WellFormed(p)
    /\ p.order # <<>>
    /\ p.selected \in Open(p)
    /\ Scratches(p) = <<Last(p.order)>>

\* No placeholder is left among the first n messages.  A rename confirmed during a
\* turn saves the placeholder of the turn.
Clean(messages, n) == ~LateRenames => \A i \in 1..n : messages[i] # Placeholder

\* What may be saved, and shown by a tab no turn runs in.
Settled(messages) ==
    /\ messages \in Seq(Message)
    /\ Len(messages) <= MaxMessages
    /\ Clean(messages, Len(messages))

\* The messages of a turn: a placeholder after what the user sent.
Asked(messages) ==
    /\ messages \in Seq(Message)
    /\ Len(messages) \in 2..MaxMessages
    /\ messages[Len(messages)] = Placeholder
    /\ messages[Len(messages) - 1].role = "user"
    /\ Clean(messages, Len(messages) - 1)

TabOK(tab) ==
    /\ tab \in Tab
    /\ tab.isPersisted <=> tab.conv.id # None
    /\ tab.isPersisted \/ tab.conv.messages = <<>>
    /\ tab.isLoaded \/ tab.conv.messages = <<>>
    /\ tab.editing <= Len(tab.conv.messages)
    /\ IF tab.isBusy
       THEN /\ tab.isPersisted /\ tab.isLoaded /\ ~tab.isHydrating /\ tab.editing = 0
            /\ Asked(tab.conv.messages)
       ELSE Settled(tab.conv.messages)

\* A turn is busy with what its tab shows.
RequestOK(tab, request) ==
    IF tab.isBusy
    THEN /\ request \in Request
         /\ request.asked.id = tab.conv.id /\ request.asked.messages = tab.conv.messages
         /\ LateRenames \/ request.asked.title = tab.conv.title
    ELSE request = None

FileOK(file) == file \in File /\ Settled(file.messages)

SaveOK(save) == save \in Save /\ save.conv.id # None /\ Settled(save.conv.messages)

SavedTabOK(d) == d \in SavedTab /\ (d.isPersisted <=> d.conv # None)

BrowserOK(d) ==
    /\ d \in Browser
    /\ d.tabs # <<>> /\ Len(d.tabs) <= MaxTabs
    /\ \A i \in DOMAIN d.tabs : SavedTabOK(d.tabs[i])
    /\ \A i, j \in DOMAIN d.tabs :
         i # j => /\ d.tabs[i].tab # d.tabs[j].tab
                  /\ d.tabs[i].conv # None => d.tabs[i].conv # d.tabs[j].conv
    /\ \A t \in Range(d.lastActive) : \E i \in DOMAIN d.tabs : d.tabs[i].tab = t

\* The last load of a tab that is still open.
Latest(l) == l.tab \in Open(page) /\ version[l.tab] = l.version

LatestOK(l) ==
    LET tab == page.tab[l.tab] IN
    /\ tab.isHydrating
    /\ (l.kind = "restore" \/ l.phase = "paint") => tab.conv.id = l.conv
    /\ l.kind = "restore" /\ l.phase # "paint" => l.title = tab.conv.title
    /\ l.kind = "open" /\ l.phase # "paint" =>
         /\ ~tab.isPersisted
         /\ store[l.conv] # None
         /\ \A u \in Open(page) : page.tab[u].conv.id # l.conv
    /\ l.phase = "hydrate" => FileOK(l.found) /\ l.found.title = l.title

TabInv == \A t \in Open(page) : TabOK(page.tab[t]) /\ RequestOK(page.tab[t], requests[t])

ClosedInv == \A t \in TabIds \ Open(page) : requests[t] = None /\ version[t] = 0

LatestInv == \A l \in loads : Latest(l) => LatestOK(l)

LoadInv ==
    /\ loads \in SUBSET Load
    /\ \A l \in loads : l.version >= 1 /\ (l.tab \in Open(page) => l.version <= version[l.tab])
    /\ LatestInv
    /\ \A l, m \in loads : l.tab = m.tab /\ (l.version = m.version => l = m)
    /\ \A t \in Open(page) : page.tab[t].isHydrating => \E l \in loads : l.tab = t /\ Latest(l)

RenameInv ==
    renaming # None => /\ renaming \in Open(page)
                       /\ page.tab[renaming].conv.messages # <<>>
                       /\ ~page.tab[renaming].isHydrating

Kept ==
    /\ store \in [ConvIds -> File \cup {None}]
    /\ \A c \in ConvIds : store[c] # None => FileOK(store[c])
    /\ saves \in [TabIds -> Seq(Save)]
    /\ \A t \in TabIds : \A i \in DOMAIN saves[t] : SaveOK(saves[t][i])
    /\ disk # None => BrowserOK(disk)
    /\ restarts \in 0..MaxRestarts

PageInv ==
    /\ Normal(page)
    /\ DOMAIN requests = TabIds /\ version \in [TabIds -> Nat]
    /\ TabInv /\ ClosedInv /\ OpenOnce /\ RenameInv

Inv == PageInv /\ LoadInv /\ Kept

-----------------------------------------------------------------------------
(***************************************************************************)
(* The page.                                                               *)
(***************************************************************************)
\* The tab with the least stamp, the first of those that share it.
LEMMA VictimIsPooled ==
    ASSUME NEW p, WellFormed(p), EvictionPool(p) # <<>>
    PROVE  Victim(p) \in Range(EvictionPool(p))
<1> DEFINE pool == EvictionPool(p)
           stamp(i) == Stamp(p, pool[i])
           Least(i) == \A j \in DOMAIN pool : stamp(i) < stamp(j) \/ (stamp(i) = stamp(j) /\ i <= j)
<1>1. p.order \in Seq(TabIds) /\ p.lastActive \in Seq(TabIds)
  BY DEF WellFormed, Page
<1>2. pool \in Seq(TabIds)
  BY <1>1, Filtered DEF EvictionPool
<1>3. DOMAIN pool \subseteq Nat /\ DOMAIN pool # {}
  <2>1. DOMAIN pool = 1..Len(pool) /\ Len(pool) \in Nat
    BY <1>2, LenProperties
  <2>2. Len(pool) # 0
    BY <1>2, EmptySeq
  <2> QED
    BY <2>1, <2>2
<1>4. \A i \in DOMAIN pool : stamp(i) \in Nat
  <2>1. DOMAIN p.lastActive \subseteq Nat
    BY <1>1, LenProperties
  <2>2. \A t \in Range(p.lastActive) : \E i \in DOMAIN p.lastActive : p.lastActive[i] = t
    BY DEF Range
  <2>3. \A t \in Range(p.lastActive) : Stamp(p, t) \in DOMAIN p.lastActive
    BY <2>2 DEF Stamp
  <2>4. \A t : t \notin Range(p.lastActive) => Stamp(p, t) = 0
    BY DEF Stamp
  <2> QED
    BY <2>1, <2>3, <2>4
<1> HIDE DEF pool, stamp
<1>5. PICK m \in {stamp(i) : i \in DOMAIN pool} : \A j \in DOMAIN pool : m <= stamp(j)
  <2> DEFINE T == {stamp(i) : i \in DOMAIN pool}
  <2>1. T \subseteq Nat /\ T # {}
    BY <1>3, <1>4
  <2>2. \A j \in DOMAIN pool : stamp(j) \in T
    OBVIOUS
  <2> HIDE DEF T
  <2>3. \E m \in T : \A y \in T : m <= y
    BY <2>1, LeastExists
  <2> QED
    BY <2>2, <2>3 DEF T
<1>6. PICK k \in {i \in DOMAIN pool : stamp(i) = m} :
        \A j \in DOMAIN pool : stamp(j) = m => k <= j
  <2> DEFINE T == {i \in DOMAIN pool : stamp(i) = m}
  <2>1. T \subseteq Nat /\ T # {}
    BY <1>3
  <2> HIDE DEF T
  <2>2. \E x \in T : \A y \in T : x <= y
    BY <2>1, LeastExists
  <2> QED
    BY <2>2 DEF T
<1>7. Least(k)
  <2> SUFFICES ASSUME NEW j \in DOMAIN pool
               PROVE  stamp(k) < stamp(j) \/ (stamp(k) = stamp(j) /\ k <= j)
    OBVIOUS
  <2>1. stamp(k) = m /\ m \in Nat /\ stamp(j) \in Nat /\ m <= stamp(j)
    BY <1>4, <1>5
  <2> QED
    BY <1>6, <2>1
<1>8. (CHOOSE i \in DOMAIN pool : Least(i)) \in DOMAIN pool
  BY <1>7
<1>9. Victim(p) = pool[CHOOSE i \in DOMAIN pool : Least(i)]
  BY DEF Victim, pool, stamp
<1> QED
  BY <1>8, <1>9 DEF Range, pool

\* The tabs that may be evicted are neither selected nor scratch; if there is none, all are.
LEMMA PoolIsIdleTabs ==
    ASSUME NEW p, WellFormed(p)
    PROVE  /\ Range(EvictionPool(p)) \subseteq
                {t \in Open(p) : t # p.selected /\ ~IsScratch(p.tab[t])}
           /\ EvictionPool(p) = <<>> =>
                \A t \in Open(p) : t = p.selected \/ IsScratch(p.tab[t])
<1> DEFINE S == {t \in Open(p) : t # p.selected /\ ~IsScratch(p.tab[t])}
           I == {t \in Open(p) : ~p.tab[t].isBusy}
           base == Filter(p.order, S)
           idle == Filter(base, I)
<1>1. p.order \in Seq(TabIds)
  BY DEF WellFormed, Page
<1>2. base \in Seq(TabIds) /\ Range(base) = Open(p) \cap S
  BY <1>1, Filtered DEF Open
<1> HIDE DEF base
<1>3. Range(idle) = Range(base) \cap I
  BY <1>2, Filtered
<1>4. EvictionPool(p) = IF idle # <<>> THEN idle ELSE base
  BY DEF EvictionPool, base
<1> HIDE DEF idle, I
<1>5. base = <<>> <=> S = {}
  BY <1>2, LastOf
<1> QED
  BY <1>2, <1>3, <1>4, <1>5

\* Eviction makes room for one more tab.
LEMMA EvictMakesRoom ==
    ASSUME NEW p, WellFormed(p), Scratches(p) = <<>>
    PROVE  /\ Evict(p) \in Seq(TabIds) /\ IsInjective(Evict(p))
           /\ Range(Evict(p)) \subseteq Open(p)
           /\ Len(Evict(p)) < MaxTabs
<1>1. p.order \in Seq(TabIds) /\ IsInjective(p.order) /\ Len(p.order) <= MaxTabs
  BY DEF WellFormed, Page
<1>2. MaxTabs \in Nat /\ MaxTabs >= 2 /\ Len(p.order) \in Nat
  BY <1>1, BoundsAssumption, LenProperties
<1>3. \A t \in Open(p) : ~IsScratch(p.tab[t])
  <2> DEFINE S == {t \in Open(p) : IsScratch(p.tab[t])}
  <2>1. Range(Scratches(p)) = Range(p.order) \cap S /\ Scratches(p) \in Seq(TabIds)
    BY <1>1, Filtered DEF Scratches
  <2>2. Range(p.order) \cap S = {}
    BY <2>1, LastOf
  <2> QED
    BY <2>2 DEF Open
<1>4. CASE Len(p.order) >= MaxTabs /\ EvictionPool(p) # <<>>
  <2>1. Evict(p) = Without(p.order, Victim(p))
    BY <1>4 DEF Evict
  <2>2. Victim(p) \in Range(p.order)
    BY <1>4, VictimIsPooled, PoolIsIdleTabs DEF Open
  <2>3. Len(Evict(p)) < Len(p.order) /\ Len(Evict(p)) \in Nat
    BY <1>1, <2>1, <2>2, Removed, LenProperties
  <2>4. /\ Evict(p) \in Seq(TabIds) /\ IsInjective(Evict(p))
        /\ Range(Evict(p)) = Range(p.order) \ {Victim(p)}
    BY <1>1, <2>1, Removed
  <2> QED
    BY <1>1, <1>2, <2>2, <2>3, <2>4 DEF Open
<1>5. CASE ~(Len(p.order) >= MaxTabs /\ EvictionPool(p) # <<>>)
  <2>1. Evict(p) = p.order
    BY <1>5 DEF Evict
  <2>2. CASE EvictionPool(p) = <<>>
    <3>1. Range(p.order) \subseteq {p.selected}
      BY <1>3, <2>2, PoolIsIdleTabs DEF Open
    <3>2. p.selected \in TabIds
      BY DEF WellFormed, Page
    <3>3. <<p.selected>> \in Seq(TabIds) /\ Len(<<p.selected>>) = 1
          /\ Range(<<p.selected>>) = {p.selected} /\ IsInjective(<<p.selected>>)
      BY <3>2 DEF Range, IsInjective
    <3>4. Len(p.order) <= 1
      BY <1>1, <3>1, <3>3, Shorter
    <3> QED
      BY <1>1, <1>2, <2>1, <3>4 DEF Open
  <2>3. CASE Len(p.order) < MaxTabs
    BY <1>1, <2>1, <2>3 DEF Open
  <2> QED
    BY <1>2, <1>5, <2>2, <2>3
<1> QED
  BY <1>4, <1>5

\* A new tab is a scratch tab.
LEMMA EmptyTabIsATab == EmptyTab \in Tab /\ EmptyTab # None /\ IsScratch(EmptyTab)
<1>1. <<>> \in Seq(Message)
  BY EmptySeq
<1>2. EmptyTab \in Tab
  BY <1>1 DEF EmptyTab, Tab, Conversation, Titles
<1> QED
  BY <1>2, NoneAssumption DEF EmptyTab, IsScratch

\* The scratch tabs in the order of the bar.
LEMMA ScratchTabs ==
    ASSUME NEW p, WellFormed(p)
    PROVE  /\ Scratches(p) \in Seq(TabIds)
           /\ IsInjective(Scratches(p))
           /\ Range(Scratches(p)) = {t \in Open(p) : IsScratch(p.tab[t])}
           /\ Scratches(p) = <<>> <=> \A t \in Open(p) : ~IsScratch(p.tab[t])
<1> DEFINE S == {t \in Open(p) : IsScratch(p.tab[t])}
<1>1. p.order \in Seq(TabIds) /\ IsInjective(p.order)
  BY DEF WellFormed, Page
<1>2. /\ Scratches(p) \in Seq(TabIds) /\ IsInjective(Scratches(p))
      /\ Range(Scratches(p)) = Range(p.order) \cap S
  BY <1>1, Filtered DEF Scratches
<1>3. Range(p.order) \cap S = S
  BY DEF Open
<1>4. Scratches(p) = <<>> <=> S = {}
  BY <1>2, <1>3, LastOf
<1> QED
  BY <1>2, <1>3, <1>4

\* The tab to start in is the last of the bar, and the only one.
LEMMA ScratchIsLast ==
    ASSUME NEW p, Normal(p)
    PROVE  /\ Last(p.order) \in Open(p)
           /\ \A t \in Open(p) : IsScratch(p.tab[t]) <=> t = Last(p.order)
           /\ Last(Scratches(p)) = Last(p.order)
           /\ Open(p) \subseteq TabIds
<1>1. p.order \in Seq(TabIds)
  BY DEF Normal, WellFormed, Page
<1>2. Last(p.order) \in Open(p) /\ Open(p) \subseteq TabIds
  BY <1>1, LastOf DEF Normal, Open
<1>3. Range(Scratches(p)) = {t \in Open(p) : IsScratch(p.tab[t])}
  BY ScratchTabs DEF Normal
<1>4. Scratches(p) = <<Last(p.order)>>
  BY DEF Normal
<1>5. Range(Scratches(p)) = {Last(p.order)} /\ Last(Scratches(p)) = Last(p.order)
  BY <1>4 DEF Range, Last
<1> QED
  BY <1>2, <1>3, <1>5

\* The order of the tabs after an update, with a tab to start in.
LEMMA NormalOrdered ==
    ASSUME NEW p, WellFormed(p), NEW fresh,
           Scratches(p) # <<>> \/ fresh \in TabIds \ Open(p)
    PROVE  LET order == NormalOrder(p, fresh)
           IN  /\ order \in Seq(TabIds) /\ order # <<>> /\ IsInjective(order) /\ Len(order) <= MaxTabs
               /\ Scratches(p) = <<>> =>
                    Range(order) \subseteq Open(p) \cup {fresh} /\ Last(order) = fresh
               /\ Scratches(p) # <<>> =>
                    /\ Range(order) = {t \in Open(p) : ~IsScratch(p.tab[t])} \cup {Last(order)}
                    /\ Last(order) \in Open(p) /\ IsScratch(p.tab[Last(order)])
<1> DEFINE order == NormalOrder(p, fresh)
           S == {t \in Open(p) : ~IsScratch(p.tab[t])}
           scratches == Scratches(p)
           keep == IF p.selected \in Range(scratches) THEN p.selected ELSE Last(scratches)
<1>1. p.order \in Seq(TabIds) /\ IsInjective(p.order) /\ Len(p.order) <= MaxTabs
  BY DEF WellFormed, Page
<1>2. CASE scratches = <<>>
  <2>1. order = Append(Evict(p), fresh)
    BY <1>2 DEF NormalOrder
  <2>2. /\ Evict(p) \in Seq(TabIds) /\ IsInjective(Evict(p))
        /\ Range(Evict(p)) \subseteq Open(p) /\ Len(Evict(p)) < MaxTabs
    BY <1>2, EvictMakesRoom
  <2>3. fresh \in TabIds /\ fresh \notin Range(Evict(p)) /\ MaxTabs \in Nat
    BY <1>2, <2>2, BoundsAssumption
  <2> QED
    BY <1>2, <2>1, <2>2, <2>3, Appended
<1>3. CASE scratches # <<>>
  <2>1. order = Append(Filter(p.order, S), keep)
    BY <1>3 DEF NormalOrder
  <2>2. /\ Filter(p.order, S) \in Seq(TabIds) /\ IsInjective(Filter(p.order, S))
        /\ Range(Filter(p.order, S)) = Range(p.order) \cap S
    BY <1>1, Filtered
  <2>3. Range(p.order) \cap S = S
    BY DEF Open
  <2>4. keep \in Range(scratches)
    BY <1>3, ScratchTabs, LastOf
  <2>5. keep \in Open(p) /\ IsScratch(p.tab[keep]) /\ keep \in TabIds
    <3>1. keep \in {t \in Open(p) : IsScratch(p.tab[t])}
      BY <2>4, ScratchTabs
    <3>2. Range(p.order) \subseteq TabIds
      BY <1>1, LastOf
    <3> QED
      BY <3>1, <3>2 DEF Open
  <2> HIDE DEF keep
  <2>6. /\ order \in Seq(TabIds) /\ order # <<>> /\ IsInjective(order)
        /\ Range(order) = S \cup {keep} /\ Last(order) = keep
    <3> DEFINE f == Filter(p.order, S)
    <3>1. Range(f) = S /\ keep \notin Range(f)
      BY <2>2, <2>3, <2>5
    <3> HIDE DEF f
    <3>2. order = Append(f, keep) /\ f \in Seq(TabIds) /\ IsInjective(f)
      BY <2>1, <2>2 DEF f
    <3> HIDE DEF order
    <3>3. /\ order \in Seq(TabIds) /\ order # <<>> /\ IsInjective(order)
          /\ Range(order) = Range(f) \cup {keep} /\ Last(order) = keep
      BY <2>5, <3>1, <3>2, Appended
    <3> QED
      BY <3>1, <3>3
  <2>7. Range(order) \subseteq Range(p.order)
    BY <2>5, <2>6 DEF Open
  <2>8. Len(order) <= Len(p.order) /\ Len(order) \in Nat /\ Len(p.order) \in Nat
    BY <1>1, <2>6, <2>7, Shorter
  <2> QED
    BY <1>1, <1>3, <2>5, <2>6, <2>8, BoundsAssumption
<1> QED
  BY <1>2, <1>3

\* Whatever becomes of the tabs, normalizeTabsForInvariants brings the page into its
\* normal form and changes no tab it keeps.
LEMMA Normalizes ==
    ASSUME NEW p, WellFormed(p), NEW fresh, NEW preferred,
           Scratches(p) # <<>> \/ fresh \in TabIds \ Open(p)
    PROVE  LET q == NormalizeAndCommit(p, fresh, preferred)
           IN  /\ Normal(q)
               /\ Open(q) \subseteq Open(p) \cup {fresh}
               /\ \A u \in Open(q) : q.tab[u] = IF u \in Open(p) THEN p.tab[u] ELSE EmptyTab
               /\ Scratches(p) # <<>> =>
                    /\ Open(q) \subseteq Open(p)
                    /\ \A u \in Open(p) : ~IsScratch(p.tab[u]) => u \in Open(q)
<1> DEFINE q == NormalizeAndCommit(p, fresh, preferred)
           order == NormalOrder(p, fresh)
           stamps == Filter(p.lastActive, Range(order))
           added == fresh \in Range(order) /\ fresh \notin Open(p)
           tabs == [t \in TabIds |-> CASE t = fresh /\ added -> EmptyTab
                                       [] t \in Range(order) \cap Open(p) -> p.tab[t]
                                       [] OTHER -> None]
           active == IF added THEN Touch(stamps, fresh) ELSE stamps
           r == [order |-> order, tab |-> tabs, selected |-> p.selected, lastActive |-> active]
           chosen == Selection(p, order, preferred)
<1>1. p \in Page /\ p.order \in Seq(TabIds) /\ p.lastActive \in Seq(TabIds) /\ p.selected \in TabIds
      /\ p.tab \in [TabIds -> Tab \cup {None}] /\ \A t \in TabIds : p.tab[t] # None <=> t \in Open(p)
  BY DEF WellFormed, Page
<1>2. /\ order \in Seq(TabIds) /\ order # <<>> /\ IsInjective(order) /\ Len(order) <= MaxTabs
      /\ Scratches(p) = <<>> => Range(order) \subseteq Open(p) \cup {fresh} /\ Last(order) = fresh
      /\ Scratches(p) # <<>> =>
           /\ Range(order) = {t \in Open(p) : ~IsScratch(p.tab[t])} \cup {Last(order)}
           /\ Last(order) \in Open(p) /\ IsScratch(p.tab[Last(order)])
  BY NormalOrdered
<1>3. q = Select(r, chosen)
  BY DEF NormalizeAndCommit
<1> HIDE DEF q, order
<1>4. Range(order) \subseteq TabIds /\ Last(order) \in Range(order) /\ order[1] \in Range(order)
  <2>1. 1 \in DOMAIN order
    BY <1>2, LenProperties, EmptySeq
  <2> QED
    BY <1>2, <2>1, LastOf DEF Range
<1>5. chosen \in Range(order)
  BY <1>4 DEF Selection
<1>6. Range(order) \subseteq Open(p) \cup {fresh}
  BY <1>2
<1>7. \A u \in Range(order) : tabs[u] = IF u \in Open(p) THEN p.tab[u] ELSE EmptyTab
  BY <1>4, <1>6
<1>8. tabs \in [TabIds -> Tab \cup {None}] /\ \A t \in TabIds : tabs[t] # None <=> t \in Range(order)
  <2> SUFFICES ASSUME NEW t \in TabIds
               PROVE  tabs[t] \in Tab \cup {None} /\ (tabs[t] # None <=> t \in Range(order))
    OBVIOUS
  <2>1. CASE t \in Range(order)
    <3>1. t \notin Open(p) => t = fresh
      BY <1>6, <2>1
    <3> QED
      BY <1>1, <1>7, <2>1, <3>1, EmptyTabIsATab
  <2>2. CASE t \notin Range(order)
    BY <2>2
  <2> QED
    BY <2>1, <2>2
<1>9. active \in Seq(TabIds) /\ Range(active) \subseteq Range(order)
  <2>1. stamps \in Seq(TabIds) /\ Range(stamps) \subseteq Range(order)
    BY <1>1, Filtered
  <2> HIDE DEF stamps
  <2>2. added => fresh \in TabIds /\ fresh \in Range(order)
    BY <1>4
  <2> QED
    BY <2>1, <2>2, Touched
<1> HIDE DEF tabs, active, chosen, added
<1>10. /\ q.order = order /\ q.tab = tabs /\ q.selected = chosen /\ q \in Page
       /\ Range(q.lastActive) \subseteq Range(order)
  <2>1. chosen \in TabIds /\ r \in Page
    BY <1>1, <1>2, <1>4, <1>5, <1>8, <1>9 DEF Page
  <2>2. Touch(active, chosen) \in Seq(TabIds) /\ Range(Touch(active, chosen)) \subseteq Range(order)
    BY <1>5, <1>9, <2>1, Touched
  <2>3. CASE chosen = p.selected
    BY <1>3, <1>9, <2>1, <2>3 DEF Select
  <2>4. CASE chosen # p.selected
    <3>1. q = [order |-> order, tab |-> tabs, selected |-> chosen, lastActive |-> Touch(active, chosen)]
      BY <1>3, <2>4 DEF Select
    <3> QED
      BY <1>2, <1>8, <2>1, <2>2, <3>1 DEF Page
  <2> QED
    BY <2>3, <2>4
<1>11. Open(q) = Range(order)
  BY <1>10 DEF Open
<1>12. WellFormed(q)
  BY <1>2, <1>8, <1>10, <1>11 DEF WellFormed
<1>13. \A t \in Range(order) : IsScratch(tabs[t]) <=> t = Last(order)
  <2>1. CASE Scratches(p) = <<>>
    <3>1. fresh \notin Open(p) /\ \A t \in Open(p) : ~IsScratch(p.tab[t])
      BY <2>1, ScratchTabs
    <3> QED
      BY <1>2, <1>6, <1>7, <2>1, <3>1, EmptyTabIsATab
  <2>2. CASE Scratches(p) # <<>>
    BY <1>2, <1>7, <2>2
  <2> QED
    BY <2>1, <2>2
<1>14. Scratches(q) = <<Last(order)>>
  <2>1. Scratches(q) \in Seq(TabIds) /\ IsInjective(Scratches(q))
        /\ Range(Scratches(q)) = {t \in Open(q) : IsScratch(q.tab[t])}
    BY <1>12, ScratchTabs
  <2>2. {t \in Open(q) : IsScratch(q.tab[t])} = {Last(order)}
    BY <1>4, <1>10, <1>11, <1>13
  <2> QED
    BY <2>1, <2>2, Single
<1>15. Normal(q)
  BY <1>2, <1>5, <1>10, <1>11, <1>12, <1>14 DEF Normal
<1> QED
  BY <1>2, <1>6, <1>7, <1>10, <1>11, <1>15 DEF q

\* updateTab gives a normal page with the tab replaced; what comes new is an empty scratch tab.
LEMMA UpdateNormalizes ==
    ASSUME NEW p, Normal(p), NEW t \in Open(p), NEW tab \in Tab, NEW fresh,
           \/ fresh \in TabIds \ Open(p)
           \/ IsScratch(tab) \/ ~IsScratch(p.tab[t])
    PROVE  LET q == UpdateTab(p, t, tab, fresh)
           IN  /\ Normal(q)
               /\ Open(q) \subseteq Open(p) \cup {fresh}
               /\ \A u \in Open(q) : q.tab[u] = IF u = t THEN tab
                                                ELSE IF u \in Open(p) THEN p.tab[u] ELSE EmptyTab
               /\ IsScratch(tab) \/ ~IsScratch(p.tab[t]) => Open(q) \subseteq Open(p)
               /\ ~IsScratch(tab) /\ ~IsScratch(p.tab[t]) => Open(q) = Open(p)
<1> DEFINE r == [p EXCEPT !.tab[t] = tab]
           q == UpdateTab(p, t, tab, fresh)
<1>1. /\ p \in Page /\ p.tab \in [TabIds -> Tab \cup {None}] /\ t \in TabIds
      /\ Open(p) \subseteq TabIds /\ WellFormed(p)
  BY ScratchIsLast DEF Normal, WellFormed, Page
<1>2. q = NormalizeAndCommit(r, fresh, None)
  BY DEF UpdateTab
<1>3. /\ r \in Page /\ r.order = p.order /\ r.lastActive = p.lastActive /\ r.selected = p.selected
      /\ r.tab = [p.tab EXCEPT ![t] = tab]
  BY <1>1 DEF Page
<1> HIDE DEF r, q
<1>4. Open(r) = Open(p)
  BY <1>3 DEF Open
<1>5. \A u \in Open(p) : r.tab[u] = IF u = t THEN tab ELSE p.tab[u]
  BY <1>1, <1>3
<1>6. WellFormed(r)
  BY <1>1, <1>3, <1>4, NoneAssumption DEF WellFormed
<1> DEFINE last == Last(p.order)
<1>7. last \in Open(p) /\ \A u \in Open(p) : IsScratch(p.tab[u]) <=> u = last
  BY ScratchIsLast
<1>8. IsScratch(tab) \/ ~IsScratch(p.tab[t]) => Scratches(r) # <<>>
  BY <1>4, <1>5, <1>6, <1>7, ScratchTabs
<1>9. /\ Normal(q)
      /\ Open(q) \subseteq Open(r) \cup {fresh}
      /\ \A u \in Open(q) : q.tab[u] = IF u \in Open(r) THEN r.tab[u] ELSE EmptyTab
      /\ Scratches(r) # <<>> =>
           /\ Open(q) \subseteq Open(r)
           /\ \A u \in Open(r) : ~IsScratch(r.tab[u]) => u \in Open(q)
  BY <1>2, <1>4, <1>6, <1>8, Normalizes
<1>10. \A u \in Open(q) : q.tab[u] = IF u = t THEN tab
                                     ELSE IF u \in Open(p) THEN p.tab[u] ELSE EmptyTab
  BY <1>4, <1>5, <1>9
<1>11. ASSUME ~IsScratch(tab), ~IsScratch(p.tab[t]) PROVE Open(q) = Open(p)
  <2>1. Open(q) \subseteq Open(p) /\ \A u \in Open(p) : u # last => u \in Open(q)
    BY <1>4, <1>5, <1>7, <1>8, <1>9, <1>11
  <2>2. Last(q.order) \in Open(q) /\ IsScratch(q.tab[Last(q.order)])
    BY <1>9, ScratchIsLast
  <2>3. Last(q.order) = last
    BY <1>7, <1>10, <1>11, <2>1, <2>2
  <2> QED
    BY <2>1, <2>2, <2>3
<1> QED
  BY <1>4, <1>8, <1>9, <1>10, <1>11 DEF q

\* The ID of a new tab is that of no tab of the page.
LEMMA FreshTabIsFresh ==
    /\ FreshTabs # {} => FreshTab \in FreshTabs
    /\ FreshTabs \subseteq TabIds \ Open(page)
<1>1. FreshTabs \subseteq TabIds \ Open(page) /\ FreshTabs \subseteq Nat
  BY BoundsAssumption DEF FreshTabs
<1>2. FreshTabs # {} => \E t \in FreshTabs : \A u \in FreshTabs : t <= u
  BY <1>1, LeastExists
<1> QED
  BY <1>1, <1>2 DEF FreshTab

\* The page with a tab in a new state.  Other tabs may have been closed to make room
\* for one to start in.
Becomes(q, t, tab) ==
    /\ Normal(q)
    /\ Open(q) \subseteq Open(page) \cup FreshTabs
    /\ \A u \in Open(q) : q.tab[u] = IF u = t THEN tab
                                     ELSE IF u \in Open(page) THEN page.tab[u] ELSE EmptyTab

\* updateTab is the change of one tab that the steps below speak of.
LEMMA UpdateBecomes ==
    ASSUME NEW p, Normal(p), p.tab = page.tab, Open(p) = Open(page),
           NEW t \in Open(page), NEW tab \in Tab,
           FreshTabs # {} \/ IsScratch(tab) \/ ~IsScratch(page.tab[t])
    PROVE  Becomes(UpdateTab(p, t, tab, FreshTab), t, tab)
<1> DEFINE q == UpdateTab(p, t, tab, FreshTab)
<1>1. FreshTabs # {} => FreshTab \in FreshTabs /\ FreshTab \in TabIds \ Open(p)
  BY FreshTabIsFresh
<1>2. /\ Normal(q)
      /\ Open(q) \subseteq Open(p) \cup {FreshTab}
      /\ \A u \in Open(q) : q.tab[u] = IF u = t THEN tab
                                       ELSE IF u \in Open(p) THEN p.tab[u] ELSE EmptyTab
      /\ IsScratch(tab) \/ ~IsScratch(p.tab[t]) => Open(q) \subseteq Open(p)
  BY <1>1, UpdateNormalizes
<1> HIDE DEF q
<1>3. Open(q) \subseteq Open(page) \cup FreshTabs
  BY <1>1, <1>2
<1> QED
  BY <1>2, <1>3 DEF Becomes, q

\* A send and the end of a turn give the tab two new states in one step.
LEMMA UpdatedTwice ==
    ASSUME NEW p, NEW t \in Open(page), NEW tab \in Tab, NEW next \in Tab, NEW fresh,
           Becomes(p, t, tab), ~IsScratch(tab), ~IsScratch(next)
    PROVE  Becomes(UpdateTab(p, t, next, fresh), t, next)
<1> DEFINE q == UpdateTab(p, t, next, fresh)
<1>1. CASE t \notin Open(p)
  <2>1. q = p
    BY <1>1 DEF UpdateTab
  <2> QED
    BY <1>1, <2>1 DEF Becomes
<1>2. CASE t \in Open(p)
  <2>1. Normal(p) /\ p.tab[t] = tab
    BY <1>2 DEF Becomes
  <2>2. /\ Normal(q) /\ Open(q) \subseteq Open(p)
        /\ \A u \in Open(q) : q.tab[u] = IF u = t THEN next
                                         ELSE IF u \in Open(p) THEN p.tab[u] ELSE EmptyTab
    BY <1>2, <2>1, UpdateNormalizes
  <2> HIDE DEF q
  <2> QED
    BY <2>2 DEF Becomes, q
<1> QED
  BY <1>1, <1>2

\* Selecting a tab changes neither the tabs nor that the page is normal.
LEMMA SelectKeeps ==
    ASSUME NEW p, Normal(p), NEW t \in Open(p)
    PROVE  Normal(Select(p, t)) /\ Select(p, t).tab = p.tab /\ Open(Select(p, t)) = Open(p)
<1> DEFINE q == Select(p, t)
<1>1. CASE t = p.selected
  <2>1. q = p
    BY <1>1 DEF Select
  <2> QED
    BY <2>1
<1>2. CASE t # p.selected
  <2>1. p \in Page /\ p.lastActive \in Seq(TabIds) /\ t \in TabIds
    BY ScratchIsLast DEF Normal, WellFormed, Page
  <2>2. Touch(p.lastActive, t) \in Seq(TabIds)
        /\ Range(Touch(p.lastActive, t)) = Range(p.lastActive) \cup {t}
    BY <2>1, Touched
  <2>3. /\ q \in Page /\ q.order = p.order /\ q.tab = p.tab /\ q.selected = t
        /\ q.lastActive = Touch(p.lastActive, t)
    BY <1>2, <2>1, <2>2 DEF Select, Page
  <2> HIDE DEF q
  <2>4. Open(q) = Open(p) /\ Scratches(q) = Scratches(p)
    BY <2>3 DEF Open, Scratches
  <2>5. WellFormed(q)
    BY <2>2, <2>3, <2>4 DEF Normal, WellFormed
  <2> QED
    BY <2>3, <2>4, <2>5 DEF Normal, q
<1> QED
  BY <1>1, <1>2

-----------------------------------------------------------------------------
(***************************************************************************)
(* Messages and saves.                                                     *)
(***************************************************************************)
\* What the model takes for messages are messages, and only one is the placeholder.
LEMMA MessageTypes ==
    /\ \A score \in Scores \cup {0} : /\ FromUser(score) \in Message
                                      /\ FromUser(score) # Placeholder
                                      /\ FromUser(score).role = "user"
    /\ \A state \in {"answer", "calls", "failed", "stopped"} :
         FromAssistant(state) \in Message /\ FromAssistant(state) # Placeholder
    /\ Placeholder \in Message /\ Placeholder.role # "user"
BY DEF FromUser, FromAssistant, Placeholder, Message

\* The end of a turn in the messages: the last is replaced.
LEMMA AnswerSettles ==
    ASSUME NEW messages, Asked(messages), NEW state \in {"answer", "calls", "failed", "stopped"}
    PROVE  LET next == [messages EXCEPT ![Len(messages)] = FromAssistant(state)]
           IN  Settled(next) /\ next # <<>>
<1> DEFINE next == [messages EXCEPT ![Len(messages)] = FromAssistant(state)]
           n == Len(messages)
<1>1. messages \in Seq(Message) /\ n \in Nat /\ n >= 2 /\ n <= MaxMessages
  BY BoundsAssumption, LenProperties DEF Asked
<1>2. FromAssistant(state) \in Message /\ FromAssistant(state) # Placeholder
  BY MessageTypes
<1>3. /\ next \in Seq(Message) /\ Len(next) = n
      /\ \A i \in 1..n : next[i] = IF i = n THEN FromAssistant(state) ELSE messages[i]
  BY <1>1, <1>2, ExceptSeq
<1>4. Clean(messages, n - 1)
  BY DEF Asked
<1> HIDE DEF next, n
<1>5. Clean(next, n)
  BY <1>1, <1>2, <1>3, <1>4 DEF Clean
<1>6. next # <<>>
  BY <1>1, <1>3, EmptySeq
<1> QED
  BY <1>1, <1>3, <1>5, <1>6 DEF Settled, next

\* A turn stopped before it has streamed anything: what the user sent stays.
LEMMA StopSettles ==
    ASSUME NEW messages, Asked(messages)
    PROVE  LET next == Filter(messages, Range(messages) \ {Placeholder})
           IN  Settled(next) /\ next # <<>>
<1> DEFINE next == Filter(messages, Range(messages) \ {Placeholder})
           n == Len(messages)
<1>1. /\ messages \in Seq(Message) /\ n \in Nat /\ n >= 2 /\ n <= MaxMessages /\ MaxMessages \in Nat
      /\ messages[n - 1].role = "user" /\ DOMAIN messages = 1..n
  BY BoundsAssumption, LenProperties DEF Asked
<1>2. /\ next \in Seq(Message) /\ Len(next) <= n
      /\ Range(next) = Range(messages) \cap (Range(messages) \ {Placeholder})
  BY <1>1, Filtered
<1>3. Range(next) = Range(messages) \ {Placeholder}
  BY <1>2
<1> HIDE DEF next
<1>4. messages[n - 1] \in Range(messages) /\ messages[n - 1] # Placeholder
  BY <1>1, MessageTypes DEF Range
<1>5. next # <<>>
  BY <1>2, <1>3, <1>4, LastOf
<1>6. DOMAIN next = 1..Len(next) /\ Len(next) \in Nat
  BY <1>2, LenProperties
<1>7. Clean(next, Len(next))
  BY <1>3, <1>6 DEF Clean, Range
<1> QED
  BY <1>1, <1>2, <1>5, <1>6, <1>7 DEF Settled, next

\* The messages a user sends: what precedes an edited message, and the new one.
LEMMA SendSettles ==
    ASSUME NEW messages, Settled(messages), Len(messages) + 2 <= MaxMessages,
           NEW editing \in Nat, editing <= Len(messages), NEW score \in Scores \cup {0}
    PROVE  LET kept == IF editing = 0 THEN messages ELSE SubSeq(messages, 1, editing - 1)
               sent == Append(kept, FromUser(score))
           IN  Settled(sent) /\ sent # <<>> /\ Asked(Append(sent, Placeholder))
<1> DEFINE kept == IF editing = 0 THEN messages ELSE SubSeq(messages, 1, editing - 1)
           sent == Append(kept, FromUser(score))
           asked == Append(sent, Placeholder)
<1>1. /\ messages \in Seq(Message) /\ Len(messages) \in Nat /\ MaxMessages \in Nat
      /\ Clean(messages, Len(messages)) /\ \A i \in 1..Len(messages) : messages[i] \in Message
  BY BoundsAssumption, LenProperties, ElementOfSeq DEF Settled
<1>2. /\ kept \in Seq(Message) /\ Len(kept) \in Nat /\ Len(kept) + 2 <= MaxMessages
      /\ Clean(kept, Len(kept))
  <2>1. CASE editing = 0
    BY <1>1, <2>1
  <2>2. CASE editing # 0
    <3>1. \A i \in 1..(editing - 1) : messages[i] \in Message
      BY <1>1, <2>2
    <3>2. /\ kept \in Seq(Message) /\ Len(kept) = editing - 1
          /\ \A i \in 1..(editing - 1) : kept[i] = messages[i]
      <4>1. editing - 1 \in Int /\ 1 \in Int /\ kept = SubSeq(messages, 1, editing - 1)
        BY <2>2
      <4> HIDE DEF kept
      <4>2. /\ kept \in Seq(Message)
            /\ Len(kept) = IF 1 <= editing - 1 THEN editing - 1 - 1 + 1 ELSE 0
            /\ \A i \in 1..(editing - 1 - 1 + 1) : kept[i] = messages[1 + i - 1]
        BY <3>1, <4>1, SubSeqProperties
      <4> QED
        BY <2>2, <4>2
    <3> HIDE DEF kept
    <3> QED
      BY <1>1, <2>2, <3>2 DEF Clean
  <2> QED
    BY <2>1, <2>2
<1> HIDE DEF kept
<1>3. FromUser(score) \in Message /\ Placeholder \in Message /\ FromUser(score) # Placeholder
      /\ FromUser(score).role = "user"
  BY MessageTypes
<1>4. /\ sent \in Seq(Message) /\ sent # <<>> /\ Len(sent) = Len(kept) + 1
      /\ \A i \in 1..Len(kept) : sent[i] = kept[i]
      /\ sent[Len(kept) + 1] = FromUser(score)
  BY <1>2, <1>3, AppendProperties
<1> HIDE DEF sent
<1>5. Clean(sent, Len(sent))
  BY <1>2, <1>3, <1>4 DEF Clean
<1>6. /\ asked \in Seq(Message) /\ Len(asked) = Len(sent) + 1
      /\ \A i \in 1..Len(sent) : asked[i] = sent[i]
      /\ asked[Len(sent) + 1] = Placeholder
  BY <1>3, <1>4, AppendProperties
<1> HIDE DEF asked
<1>7. Clean(asked, Len(asked) - 1)
  BY <1>2, <1>4, <1>5, <1>6 DEF Clean
<1>8. Len(asked) - 1 \in 1..Len(sent) /\ Len(asked) - 1 = Len(kept) + 1
  BY <1>2, <1>4, <1>6
<1>9. asked[Len(asked) - 1].role = "user" /\ asked[Len(asked)] = Placeholder
  BY <1>2, <1>3, <1>4, <1>6, <1>8
<1>10. Settled(sent)
  BY <1>1, <1>2, <1>4, <1>5 DEF Settled
<1>11. Asked(asked)
  BY <1>1, <1>2, <1>4, <1>6, <1>7, <1>9 DEF Asked
<1> QED
  BY <1>4, <1>10, <1>11 DEF sent, asked, kept

\* The automatic title is a title.
LEMMA AutoTitleIsATitle ==
    ASSUME NEW conv \in Conversation
    PROVE  AutoTitle(conv) \in Titles
<1> DEFINE users == Users(conv.messages)
<1>1. conv.messages \in Seq(Message) /\ conv.title \in Titles
  BY DEF Conversation
<1>2. users \in Seq(Message)
  BY <1>1, Filtered DEF Users
<1> HIDE DEF users
<1>3. \A i \in 1..Len(users) : users[i].score \in Titles
  <2>1. \A i \in 1..Len(users) : users[i] \in Message
    BY <1>2, ElementOfSeq
  <2> QED
    BY <2>1 DEF Message, Titles, NewTitle
<1>4. /\ Len(users) = 1 => users[1].score \in Titles
      /\ Len(users) = 2 => users[1].score \in Titles /\ users[2].score \in Titles
  BY <1>2, <1>3
<1> QED
  BY <1>1, <1>4 DEF AutoTitle, users

\* What is saved of a conversation is the conversation, but for its title.
LEMMA SaveIsOfConversation ==
    ASSUME NEW tab \in Tab, NEW conv \in Conversation, NEW byUser \in BOOLEAN
    PROVE  LET save == SaveOf(tab, conv, byUser)
           IN  /\ save \in Save
               /\ save.conv.id = conv.id /\ save.conv.messages = conv.messages
               /\ tab.locked \/ byUser => save.conv.title = conv.title
               /\ save.full <=> ~tab.isPersisted \/ byUser \/ save.conv.title # conv.title
<1> DEFINE auto == ~byUser /\ ~tab.locked /\ Len(conv.messages) <= 4
           title == IF auto THEN AutoTitle(conv) ELSE conv.title
           save == SaveOf(tab, conv, byUser)
<1>1. title \in Titles /\ (tab.locked \/ byUser => title = conv.title)
  BY AutoTitleIsATitle DEF Conversation
<1>2. save = [conv |-> [conv EXCEPT !.title = title],
              full |-> ~tab.isPersisted \/ byUser \/ title # conv.title]
  BY DEF SaveOf
<1> HIDE DEF save, title
<1>3. /\ [conv EXCEPT !.title = title] \in Conversation
      /\ [conv EXCEPT !.title = title].id = conv.id
      /\ [conv EXCEPT !.title = title].messages = conv.messages
      /\ [conv EXCEPT !.title = title].title = title
  BY <1>1 DEF Conversation
<1>4. save.full \in BOOLEAN /\ save \in Save
  BY <1>2, <1>3 DEF Save, Tab
<1>5. save.full <=> (~tab.isPersisted \/ byUser \/ save.conv.title # conv.title)
  BY <1>2, <1>3 DEF Tab
<1>6. /\ save.conv.id = conv.id /\ save.conv.messages = conv.messages
      /\ tab.locked \/ byUser => save.conv.title = conv.title
  BY <1>1, <1>2, <1>3
<1> QED
  BY <1>4, <1>5, <1>6 DEF save

-----------------------------------------------------------------------------
(***************************************************************************)
(* What a step keeps.                                                      *)
(***************************************************************************)
\* A new tab is as it has to be.
LEMMA NewTabIsOK ==
    /\ TabOK(EmptyTab) /\ RequestOK(EmptyTab, None)
    /\ EmptyTab.conv.id = None /\ ~EmptyTab.isHydrating
<1>1. <<>> \in Seq(Message) /\ Len(<<>>) = 0
  BY EmptySeq
<1>2. Settled(<<>>)
  BY <1>1, BoundsAssumption DEF Settled, Clean
<1> QED
  BY <1>1, <1>2, EmptyTabIsATab DEF TabOK, RequestOK, EmptyTab

\* A change of one tab keeps what holds of the page, if it holds of that tab.
LEMMA TabsStay ==
    ASSUME Inv, NEW q, NEW t, NEW tab, NEW versions, NEW rs,
           Becomes(q, t, tab), Commit(q, versions, rs), versions \in [TabIds -> Nat],
           \A u \in TabIds \ {t} : rs[u] = requests[u],
           t \in Open(q) =>
             /\ TabOK(tab) /\ RequestOK(tab, rs[t])
             /\ tab.conv.id # None => \A u \in Open(page) \ {t} : page.tab[u].conv.id # tab.conv.id
             /\ t = renaming => tab.conv.messages # <<>> /\ ~tab.isHydrating
    PROVE  PageInv'
<1>1. /\ Normal(page) /\ TabInv /\ ClosedInv /\ OpenOnce /\ RenameInv
      /\ Open(page) \subseteq TabIds /\ FreshTabs \subseteq TabIds \ Open(page)
  BY ScratchIsLast, FreshTabIsFresh DEF Inv, PageInv
<1>2. /\ page' = q /\ Normal(q)
      /\ version' = [u \in TabIds |-> IF u \in Open(q) THEN versions[u] ELSE 0]
      /\ requests' = [u \in TabIds |-> IF u \in Open(q) THEN rs[u] ELSE None]
      /\ renaming' = IF renaming \in Open(q) THEN renaming ELSE None
  BY DEF Commit, Becomes
<1>3. \A u \in Open(q) : \/ u = t /\ q.tab[u] = tab
                         \/ u # t /\ u \in Open(page) /\ q.tab[u] = page.tab[u]
                         \/ u # t /\ u \notin Open(page) /\ q.tab[u] = EmptyTab
  BY DEF Becomes
<1>4. Open(q) \subseteq TabIds
  BY <1>2, ScratchIsLast
<1>5. version' \in [TabIds -> Nat] /\ DOMAIN requests' = TabIds
  BY <1>2
<1>6. TabInv'
  <2> SUFFICES ASSUME NEW u \in Open(q) PROVE TabOK(q.tab[u]) /\ RequestOK(q.tab[u], rs[u])
    BY <1>2, <1>4 DEF TabInv
  <2>1. CASE u = t
    BY <1>3, <2>1
  <2>2. CASE u # t /\ u \in Open(page) /\ q.tab[u] = page.tab[u]
    BY <1>1, <2>2 DEF TabInv
  <2>3. CASE u # t /\ u \notin Open(page) /\ q.tab[u] = EmptyTab
    BY <1>1, <1>4, <2>3, NewTabIsOK DEF ClosedInv
  <2> QED
    BY <1>3, <2>1, <2>2, <2>3
<1>7. ClosedInv'
  BY <1>2 DEF ClosedInv
<1>8. OpenOnce'
  <2> SUFFICES ASSUME NEW u \in Open(q), NEW v \in Open(q), u # v, q.tab[u].conv.id # None
               PROVE  q.tab[u].conv.id # q.tab[v].conv.id
    BY <1>2 DEF OpenOnce
  <2>1. CASE u = t
    BY <1>3, <2>1, NewTabIsOK
  <2>2. CASE v = t
    BY <1>3, <2>2, NewTabIsOK
  <2>3. CASE u # t /\ v # t
    BY <1>1, <1>3, <2>3, NewTabIsOK DEF OpenOnce
  <2> QED
    BY <2>1, <2>2, <2>3
<1>9. RenameInv'
  <2> SUFFICES ASSUME renaming' # None
               PROVE  /\ renaming' \in Open(q)
                      /\ q.tab[renaming'].conv.messages # <<>>
                      /\ ~q.tab[renaming'].isHydrating
    BY <1>2 DEF RenameInv
  <2>1. renaming' = renaming /\ renaming \in Open(q) /\ renaming # None
    BY <1>2
  <2>2. renaming \in Open(page) /\ page.tab[renaming].conv.messages # <<>>
        /\ ~page.tab[renaming].isHydrating
    BY <1>1, <2>1 DEF RenameInv
  <2> QED
    BY <1>3, <2>1, <2>2
<1> QED
  BY <1>2, <1>5, <1>6, <1>7, <1>8, <1>9 DEF PageInv

\* A step that changes a tab but begins and ends no load.
LEMMA LoadsStay ==
    ASSUME Inv, NEW q, NEW t, NEW tab, NEW rs,
           Becomes(q, t, tab), Commit(q, version, rs), loads' = loads, store' = store,
           t \in Open(q) =>
             /\ t \in Open(page) /\ ~tab.isHydrating /\ ~page.tab[t].isHydrating
             /\ tab.conv.id \in {page.tab[t].conv.id} \cup FreshConvs
    PROVE  LoadInv'
<1>1. /\ Normal(page) /\ LoadInv /\ version \in [TabIds -> Nat]
      /\ Open(page) \subseteq TabIds /\ FreshTabs \subseteq TabIds \ Open(page)
      /\ \A u \in FreshTabs : \A l \in loads : l.tab # u
  BY ScratchIsLast, FreshTabIsFresh DEF Inv, PageInv, FreshTabs
<1>2. /\ page' = q /\ Open(q) \subseteq TabIds
      /\ version' = [u \in TabIds |-> IF u \in Open(q) THEN version[u] ELSE 0]
  BY ScratchIsLast DEF Commit, Becomes
<1>3. \A u \in Open(q) : \/ u = t /\ q.tab[u] = tab
                         \/ u # t /\ u \in Open(page) /\ q.tab[u] = page.tab[u]
                         \/ u # t /\ u \in FreshTabs /\ q.tab[u] = EmptyTab
  BY DEF Becomes
<1>4. ASSUME NEW l \in loads, l.tab \in Open(q)
      PROVE  l.tab \in Open(page) /\ version'[l.tab] = version[l.tab]
  BY <1>1, <1>2, <1>3, <1>4
<1>5. ASSUME NEW l \in loads, Latest(l)' PROVE LatestOK(l)'
  <2>1. l.tab \in Open(q) /\ Latest(l)
    BY <1>2, <1>4, <1>5 DEF Latest
  <2>2. LatestOK(l)
    BY <1>1, <2>1 DEF LoadInv, LatestInv
  <2>3. l.tab # t /\ q.tab[l.tab] = page.tab[l.tab]
    BY <1>1, <1>3, <2>1, <2>2 DEF LatestOK
  <2>4. ASSUME store[l.conv] # None, \A u \in Open(page) : page.tab[u].conv.id # l.conv,
               NEW u \in Open(q)
        PROVE  q.tab[u].conv.id # l.conv
    <3>1. l.conv \notin FreshConvs /\ l.conv # None
      BY <1>1, <2>4, NoneAssumption DEF FreshConvs, UsedConvs, LoadInv, Load
    <3> QED
      BY <1>3, <2>4, <3>1, NewTabIsOK
  <2> QED
    BY <1>2, <2>2, <2>3, <2>4 DEF LatestOK
<1>6. ASSUME NEW u \in Open(q), q.tab[u].isHydrating
      PROVE  \E l \in loads : l.tab = u /\ Latest(l)'
  <2>1. u \in Open(page) /\ page.tab[u].isHydrating
    BY <1>3, <1>6, NewTabIsOK
  <2>2. PICK l \in loads : l.tab = u /\ Latest(l)
    BY <1>1, <2>1 DEF LoadInv
  <2>3. Latest(l)'
    BY <1>2, <1>4, <1>6, <2>2 DEF Latest
  <2> QED
    BY <2>2, <2>3
<1> QED
  BY <1>1, <1>2, <1>4, <1>5, <1>6 DEF LoadInv, LatestInv

-----------------------------------------------------------------------------
(***************************************************************************)
(* The steps of a turn.                                                    *)
(***************************************************************************)
\* The tab saveUpdatedConversation leaves.
AfterSave(tab, conv, byUser) ==
    [tab EXCEPT !.conv = SaveOf(tab, conv, byUser).conv, !.isLoaded = TRUE,
                !.isPersisted = TRUE, !.isHydrating = FALSE, !.locked = @ \/ byUser]

\* What a save makes of a tab: the conversation is the saved one, the rest is kept.
LEMMA AfterSaveIsATab ==
    ASSUME NEW tab \in Tab, NEW conv \in Conversation, NEW byUser \in BOOLEAN
    PROVE  LET next == AfterSave(tab, conv, byUser)
           IN  /\ next \in Tab
               /\ next.conv = SaveOf(tab, conv, byUser).conv
               /\ next.conv.id = conv.id /\ next.conv.messages = conv.messages
               /\ next.isLoaded /\ next.isPersisted /\ ~next.isHydrating
               /\ next.isBusy = tab.isBusy /\ next.editing = tab.editing
               /\ next.locked <=> (tab.locked \/ byUser)
               /\ ~IsScratch(next)
<1> DEFINE next == AfterSave(tab, conv, byUser)
           saved == SaveOf(tab, conv, byUser).conv
<1>1. saved \in Conversation /\ saved.id = conv.id /\ saved.messages = conv.messages
  BY SaveIsOfConversation DEF Save
<1>2. next = [tab EXCEPT !.conv = saved, !.isLoaded = TRUE, !.isPersisted = TRUE,
                         !.isHydrating = FALSE, !.locked = @ \/ byUser]
  BY DEF AfterSave
<1> HIDE DEF next, saved
<1>3. tab.locked \/ byUser \in BOOLEAN
  BY DEF Tab
<1>4. /\ next \in Tab /\ next.conv = saved
      /\ next.isLoaded = TRUE /\ next.isPersisted = TRUE /\ next.isHydrating = FALSE
      /\ next.isBusy = tab.isBusy /\ next.editing = tab.editing
      /\ next.locked = (tab.locked \/ byUser)
  BY <1>1, <1>2, <1>3 DEF Tab
<1> QED
  BY <1>1, <1>4 DEF next, saved, IsScratch

\* A save in a queue keeps what holds of what is kept.
LEMMA EnqueueKeeps ==
    ASSUME Kept, NEW t \in TabIds, NEW save, SaveOK(save),
           saves' = [saves EXCEPT ![t] = Append(@, save)], UNCHANGED <<store, disk, restarts>>
    PROVE  Kept'
<1>1. /\ saves \in [TabIds -> Seq(Save)] /\ save \in Save
      /\ \A u \in TabIds : \A i \in DOMAIN saves[u] : SaveOK(saves[u][i])
  BY DEF Kept, SaveOK
<1> DEFINE queue == Append(saves[t], save)
<1>2. /\ queue \in Seq(Save) /\ Len(queue) = Len(saves[t]) + 1 /\ Len(saves[t]) \in Nat
      /\ \A i \in 1..Len(saves[t]) : queue[i] = saves[t][i]
      /\ queue[Len(saves[t]) + 1] = save
  BY <1>1, AppendProperties, LenProperties
<1>3. saves' = [saves EXCEPT ![t] = queue]
  OBVIOUS
<1> HIDE DEF queue
<1>4. \A i \in DOMAIN queue : SaveOK(queue[i])
  <2>1. DOMAIN queue = 1..(Len(saves[t]) + 1) /\ DOMAIN saves[t] = 1..Len(saves[t])
    BY <1>1, <1>2, LenProperties
  <2> QED
    BY <1>1, <1>2, <2>1
<1>5. saves' \in [TabIds -> Seq(Save)]
      /\ \A u \in TabIds : \A i \in DOMAIN saves'[u] : SaveOK(saves'[u][i])
  BY <1>1, <1>2, <1>3, <1>4
<1> QED
  BY <1>5 DEF Kept, BrowserOK

\* What a send does: the tab shows what was sent and a placeholder, and what was
\* sent is queued to be saved.
Sends(t, score, conv, next, request) ==
    LET tab == page.tab[t]
        kept == IF tab.editing = 0 THEN tab.conv.messages
                ELSE SubSeq(tab.conv.messages, 1, tab.editing - 1)
    IN  /\ Becomes(page', t, next) /\ Commit(page', version, [requests EXCEPT ![t] = request])
        /\ TabOK(next) /\ RequestOK(next, request) /\ ~request.stopped
        /\ next.isBusy /\ next.locked = tab.locked
        /\ next.conv.id = conv.id /\ next.conv.title = conv.title
        /\ next.conv.messages = Append(conv.messages, Placeholder)
        /\ conv \in Conversation /\ conv.title = tab.conv.title
        /\ IF tab.conv.id = None THEN conv.id \in FreshConvs ELSE conv.id = tab.conv.id
        /\ conv.messages = Append(kept, FromUser(score))
        /\ SaveOK(SaveOf(tab, conv, FALSE))
        /\ saves' = [saves EXCEPT ![t] = Append(@, SaveOf(tab, conv, FALSE))]
        /\ UNCHANGED <<loads, store, unsaved, disk, restarts>>

\* sendMessageForTab, seen as the change of one tab and of its request.
LEMMA SendStep ==
    ASSUME Inv, NEW t \in Open(page), NEW score \in Scores \cup {0}, Send(t, score)
    PROVE  \E conv, next, request : Sends(t, score, conv, next, request)
<1> DEFINE tab == page.tab[t]
           kept == IF tab.editing = 0 THEN tab.conv.messages
                   ELSE SubSeq(tab.conv.messages, 1, tab.editing - 1)
           sent == Append(kept, FromUser(score))
           id == IF tab.conv.id = None THEN FreshConv ELSE tab.conv.id
           conv == [tab.conv EXCEPT !.id = IF @ = None THEN FreshConv ELSE @,
                                    !.messages = Append(kept, FromUser(score))]
           asked == [conv EXCEPT !.messages = Append(@, Placeholder)]
           edited == [page EXCEPT !.tab[t].editing = 0]
           saved == SaveUpdated(edited, t, conv, FALSE, FreshTab)
           after == AfterSave([tab EXCEPT !.editing = 0], conv, FALSE)
           next == [after EXCEPT !.isBusy = TRUE, !.conv = asked]
           request == [asked |-> asked, streamed |-> FALSE, stopped |-> FALSE]
           rs == [requests EXCEPT ![t] = request]
           q == UpdateTab(saved, t, [saved.tab[t] EXCEPT !.isBusy = TRUE, !.conv = asked], FreshTab)
<1>1. /\ Normal(page) /\ TabOK(tab) /\ RequestOK(tab, requests[t])
      /\ ~tab.isBusy /\ ~tab.isHydrating /\ tab.isLoaded
      /\ Len(tab.conv.messages) + 2 <= MaxMessages
      /\ t \in TabIds /\ page \in Page /\ page.tab \in [TabIds -> Tab \cup {None}]
      /\ version \in [TabIds -> Nat] /\ DOMAIN requests = TabIds
  BY ScratchIsLast DEF Inv, PageInv, TabInv, Send, MaySend, Normal, WellFormed, Page
<1>2. /\ FreshTabs # {} /\ (tab.conv.id = None => FreshConvs # {})
      /\ saves' = [saves EXCEPT ![t] = Append(@, SaveOf(tab, conv, FALSE))]
      /\ Commit(q, version, rs)
      /\ UNCHANGED <<loads, store, unsaved, disk, restarts>>
  BY DEF Send, EnqueueSave
<1>3. tab \in Tab /\ Settled(tab.conv.messages) /\ tab.editing \in Nat
      /\ tab.editing <= Len(tab.conv.messages) /\ tab.conv \in Conversation
  BY <1>1 DEF TabOK, Tab
<1>4. id \in ConvIds /\ id # None /\ (tab.conv.id = None => id \in FreshConvs)
  BY <1>2, <1>3, NoneAssumption DEF FreshConv, FreshConvs, Conversation
<1>5. Settled(sent) /\ sent # <<>> /\ Asked(Append(sent, Placeholder))
  BY <1>1, <1>3, SendSettles
<1>6. /\ conv \in Conversation /\ conv.id = id /\ conv.messages = sent
      /\ conv.title = tab.conv.title
  <2>1. sent \in Seq(Message)
    BY <1>5 DEF Settled
  <2>2. conv = [tab.conv EXCEPT !.id = id, !.messages = sent]
    BY <1>3 DEF Conversation
  <2> HIDE DEF conv, sent, id
  <2> QED
    BY <1>3, <1>4, <2>1, <2>2 DEF Conversation
<1> HIDE DEF id
<1>7. /\ asked \in Conversation /\ asked.id = id /\ asked.title = tab.conv.title
      /\ Asked(asked.messages) /\ asked.messages # <<>>
  <2>1. asked = [conv EXCEPT !.messages = Append(sent, Placeholder)]
    BY <1>6
  <2>2. Append(sent, Placeholder) \in Seq(Message) /\ Append(sent, Placeholder) # <<>>
    <3> DEFINE m == Append(sent, Placeholder)
    <3>1. Asked(m)
      BY <1>5
    <3> HIDE DEF m
    <3>2. m \in Seq(Message) /\ Len(m) # 0
      BY <3>1 DEF Asked
    <3>3. m # <<>>
      BY <3>2, EmptySeq
    <3> QED
      BY <3>2, <3>3 DEF m
  <2> HIDE DEF conv, asked, sent
  <2>3. /\ asked \in Conversation /\ asked.id = conv.id /\ asked.title = conv.title
        /\ asked.messages = Append(sent, Placeholder)
    BY <1>6, <2>1, <2>2 DEF Conversation
  <2> QED
    BY <1>5, <1>6, <2>2, <2>3
<1> HIDE DEF kept, sent, conv, asked
<1>8. /\ after \in Tab /\ ~IsScratch(after) /\ after.isLoaded /\ after.isPersisted
      /\ ~after.isHydrating /\ after.editing = 0 /\ after.locked = tab.locked
  <2>1. /\ [tab EXCEPT !.editing = 0] \in Tab /\ [tab EXCEPT !.editing = 0].editing = 0
        /\ [tab EXCEPT !.editing = 0].locked = tab.locked
    BY <1>3 DEF Tab
  <2>2. after.locked \in BOOLEAN /\ tab.locked \in BOOLEAN /\ (after.locked <=> tab.locked)
    BY <1>3, <1>6, <2>1, AfterSaveIsATab DEF Tab
  <2>3. /\ after \in Tab /\ ~IsScratch(after) /\ after.isLoaded /\ after.isPersisted
        /\ ~after.isHydrating /\ after.editing = 0
    BY <1>6, <2>1, AfterSaveIsATab
  <2> HIDE DEF after
  <2>4. after.locked = tab.locked
    BY <2>2
  <2> QED
    BY <2>3, <2>4
<1> HIDE DEF after
<1>9. /\ next \in Tab /\ next.conv = asked /\ next.isBusy = TRUE /\ next.isPersisted = after.isPersisted
      /\ next.isLoaded = after.isLoaded /\ next.isHydrating = after.isHydrating /\ next.editing = 0
      /\ next.locked = after.locked
  BY <1>7, <1>8 DEF Tab
<1>10. ~IsScratch(next) /\ TabOK(next)
  BY <1>4, <1>7, <1>8, <1>9 DEF IsScratch, TabOK
<1>11. Becomes(saved, t, after)
  <2>1. edited.tab[t] = [tab EXCEPT !.editing = 0] /\ Open(edited) = Open(page)
        /\ [edited EXCEPT !.tab[t] = after] = [page EXCEPT !.tab[t] = after]
    BY <1>1 DEF Page, Open
  <2>2. saved = UpdateTab(edited, t, after, FreshTab)
    BY <2>1 DEF SaveUpdated, AfterSave, after
  <2>3. saved = UpdateTab(page, t, after, FreshTab)
    BY <2>1, <2>2 DEF UpdateTab
  <2> HIDE DEF saved
  <2> QED
    BY <1>1, <1>2, <1>8, <2>3, UpdateBecomes
<1> HIDE DEF edited, saved
<1>12. q = UpdateTab(saved, t, next, FreshTab)
  BY <1>11 DEF Becomes, UpdateTab
<1> HIDE DEF next, q
<1>13. Becomes(q, t, next)
  BY <1>8, <1>9, <1>10, <1>11, <1>12, UpdatedTwice
<1>14. RequestOK(next, request) /\ ~request.stopped
  <2>1. request \in Request /\ request.asked = asked /\ ~request.stopped
    BY <1>7 DEF Request
  <2> QED
    BY <1>7, <1>9, <2>1 DEF RequestOK
<1>15. page' = q /\ Commit(page', version, rs)
  BY <1>2 DEF Commit
<1>16. SaveOK(SaveOf(tab, conv, FALSE))
  BY <1>3, <1>4, <1>5, <1>6, SaveIsOfConversation DEF SaveOK
<1>17. asked.messages = Append(sent, Placeholder)
  BY <1>6 DEF asked, Conversation
<1>18. Sends(t, score, conv, next, request)
  BY <1>2, <1>4, <1>6, <1>7, <1>8, <1>9, <1>10, <1>13, <1>14, <1>15, <1>16, <1>17 DEF Sends, id, sent, kept
<1> QED
  BY <1>18

\* A send keeps the invariant.
LEMMA SendKeepsInv ==
    ASSUME Inv, NEW t \in Open(page), NEW score \in Scores \cup {0}, Send(t, score)
    PROVE  Inv'
<1>1. PICK conv, next, request : Sends(t, score, conv, next, request)
  BY SendStep
<1> DEFINE tab == page.tab[t]
           rs == [requests EXCEPT ![t] = request]
<1>2. /\ Becomes(page', t, next) /\ Commit(page', version, rs)
      /\ TabOK(next) /\ RequestOK(next, request) /\ next.isBusy
      /\ next.conv.id = conv.id
      /\ IF tab.conv.id = None THEN conv.id \in FreshConvs ELSE conv.id = tab.conv.id
      /\ SaveOK(SaveOf(tab, conv, FALSE))
      /\ saves' = [saves EXCEPT ![t] = Append(@, SaveOf(tab, conv, FALSE))]
      /\ UNCHANGED <<loads, store, disk, restarts>>
  BY <1>1 DEF Sends
<1>3. /\ t \in TabIds /\ ~tab.isHydrating /\ OpenOnce
      /\ version \in [TabIds -> Nat] /\ DOMAIN requests = TabIds
  BY ScratchIsLast DEF Inv, PageInv, Send, MaySend
<1>4. ~next.isHydrating /\ next.conv.messages # <<>>
  <2>1. Asked(next.conv.messages) /\ ~next.isHydrating
    BY <1>2 DEF TabOK
  <2> QED
    BY <2>1, EmptySeq DEF Asked
<1>5. rs[t] = request /\ \A u \in TabIds \ {t} : rs[u] = requests[u]
  BY <1>3
<1>6. \A u \in Open(page) \ {t} : next.conv.id # None => page.tab[u].conv.id # next.conv.id
  BY <1>2, <1>3 DEF OpenOnce, FreshConvs, UsedConvs
<1> HIDE DEF rs
<1>7. PageInv'
  BY <1>2, <1>3, <1>4, <1>5, <1>6, TabsStay
<1>8. LoadInv'
  BY <1>2, <1>3, <1>4, LoadsStay
<1>9. Kept'
  BY <1>2, <1>3, EnqueueKeeps DEF Inv
<1> QED
  BY <1>7, <1>8, <1>9 DEF Inv

\* What the end of a turn does: the answer takes the place of the placeholder, and
\* the conversation is queued to be saved.
Settles(t, state, conv, next) ==
    LET tab == page.tab[t]
        asked == requests[t].asked
    IN  /\ Becomes(page', t, next) /\ Commit(page', version, [requests EXCEPT ![t] = None])
        /\ t \in Open(page) /\ tab.isBusy /\ TabOK(tab) /\ RequestOK(tab, requests[t])
        /\ TabOK(next) /\ ~next.isBusy /\ ~next.isHydrating /\ next.locked = tab.locked
        /\ next.conv = SaveOf(tab, conv, FALSE).conv
        /\ conv \in Conversation /\ conv.id = tab.conv.id /\ conv.title = asked.title
        /\ conv.messages = [asked.messages EXCEPT ![Len(asked.messages)] = FromAssistant(state)]
        /\ Settled(conv.messages) /\ conv.messages # <<>>
        /\ next.conv.id = conv.id /\ next.conv.messages = conv.messages
        /\ SaveOK(SaveOf(tab, conv, FALSE))
        /\ saves' = [saves EXCEPT ![t] = Append(@, SaveOf(tab, conv, FALSE))]

\* The end of a turn, seen as the change of one tab.
LEMMA SettleStep ==
    ASSUME Inv, NEW t \in TabIds, requests[t] # None,
           NEW state \in {"answer", "calls", "failed", "stopped"}, Settle(t, state)
    PROVE  \E conv, next : Settles(t, state, conv, next)
<1> DEFINE tab == page.tab[t]
           asked == requests[t].asked
           conv == [asked EXCEPT !.messages[Len(asked.messages)] = FromAssistant(state)]
           messages == [asked.messages EXCEPT ![Len(asked.messages)] = FromAssistant(state)]
           saved == SaveUpdated(page, t, conv, FALSE, FreshTab)
           after == AfterSave(tab, conv, FALSE)
           next == [after EXCEPT !.isBusy = FALSE]
           rs == [requests EXCEPT ![t] = None]
           q == UpdateTab(saved, t, [saved.tab[t] EXCEPT !.isBusy = FALSE], FreshTab)
<1>1. /\ Normal(page) /\ t \in Open(page) /\ TabOK(tab) /\ RequestOK(tab, requests[t])
      /\ version \in [TabIds -> Nat] /\ DOMAIN requests = TabIds /\ Open(page) \subseteq TabIds
  BY ScratchIsLast DEF Inv, PageInv, TabInv, ClosedInv
<1>2. /\ saves' = [saves EXCEPT ![t] = Append(@, SaveOf(tab, conv, FALSE))]
      /\ Commit(q, version, rs)
  BY DEF Settle, EnqueueSave
<1>3. /\ tab \in Tab /\ tab.isBusy /\ tab.isPersisted /\ tab.isLoaded /\ ~tab.isHydrating
      /\ tab.editing = 0 /\ Asked(tab.conv.messages) /\ tab.conv.id # None
      /\ asked \in Conversation /\ asked.id = tab.conv.id /\ asked.messages = tab.conv.messages
  BY <1>1 DEF TabOK, RequestOK, Request
<1>4. Settled(messages) /\ messages # <<>>
  BY <1>3, AnswerSettles
<1>5. /\ conv \in Conversation /\ conv.id = tab.conv.id /\ conv.messages = messages
      /\ conv.title = asked.title
  <2>1. messages \in Seq(Message)
    BY <1>4 DEF Settled
  <2>2. conv = [asked EXCEPT !.messages = messages]
    BY <1>3 DEF Conversation
  <2> HIDE DEF conv, messages, asked
  <2> QED
    BY <1>3, <2>1, <2>2 DEF Conversation
<1> HIDE DEF conv, asked, messages
<1>6. /\ after \in Tab /\ ~IsScratch(after) /\ after.isLoaded /\ after.isPersisted
      /\ ~after.isHydrating /\ after.editing = 0
      /\ after.conv.id = tab.conv.id /\ after.conv.messages = messages
      /\ after.conv = SaveOf(tab, conv, FALSE).conv /\ after.locked = tab.locked
  <2>1. after.locked \in BOOLEAN /\ tab.locked \in BOOLEAN /\ (after.locked <=> tab.locked)
    BY <1>3, <1>5, AfterSaveIsATab DEF Tab
  <2>2. /\ after \in Tab /\ ~IsScratch(after) /\ after.isLoaded /\ after.isPersisted
        /\ ~after.isHydrating /\ after.editing = 0
        /\ after.conv.id = tab.conv.id /\ after.conv.messages = messages
        /\ after.conv = SaveOf(tab, conv, FALSE).conv
    BY <1>3, <1>5, AfterSaveIsATab
  <2> HIDE DEF after
  <2>3. after.locked = tab.locked
    BY <2>1
  <2> QED
    BY <2>2, <2>3
<1> HIDE DEF after
<1>7. /\ next \in Tab /\ next.conv = after.conv /\ next.isBusy = FALSE
      /\ next.isPersisted = after.isPersisted /\ next.isLoaded = after.isLoaded
      /\ next.isHydrating = after.isHydrating /\ next.editing = 0
      /\ next.locked = after.locked
  BY <1>6 DEF Tab
<1>8. ~IsScratch(next) /\ TabOK(next) /\ RequestOK(next, None)
  <2>1. 0 <= Len(messages)
    BY <1>4, LenProperties DEF Settled
  <2> QED
    BY <1>3, <1>4, <1>6, <1>7, <2>1 DEF IsScratch, TabOK, RequestOK
<1>9. Becomes(saved, t, after)
  <2>1. saved = UpdateTab(page, t, after, FreshTab)
    BY DEF SaveUpdated, AfterSave, after
  <2>2. ~IsScratch(page.tab[t])
    BY <1>3 DEF IsScratch
  <2> HIDE DEF saved
  <2> QED
    BY <1>1, <1>6, <2>1, <2>2, UpdateBecomes
<1> HIDE DEF saved
<1>10. q = UpdateTab(saved, t, next, FreshTab)
  BY <1>9 DEF Becomes, UpdateTab
<1> HIDE DEF next, q
<1>11. Becomes(q, t, next)
  BY <1>1, <1>6, <1>7, <1>8, <1>9, <1>10, UpdatedTwice
<1>12. page' = q /\ Commit(page', version, rs)
  BY <1>2 DEF Commit
<1>13. SaveOK(SaveOf(tab, conv, FALSE))
  BY <1>3, <1>4, <1>5, SaveIsOfConversation DEF SaveOK
<1>14. messages = [asked.messages EXCEPT ![Len(asked.messages)] = FromAssistant(state)]
  BY DEF messages
<1>15. Settles(t, state, conv, next)
  BY <1>1, <1>2, <1>3, <1>4, <1>5, <1>6, <1>7, <1>8, <1>11, <1>12, <1>13, <1>14 DEF Settles, asked
<1> QED
  BY <1>15

\* The end of a turn with an answer or an error keeps the invariant.
LEMMA SettleKeepsInv ==
    ASSUME Inv, NEW t \in TabIds, requests[t] # None,
           NEW state \in {"answer", "calls", "failed", "stopped"}, Settle(t, state),
           UNCHANGED <<loads, store, disk, restarts>>
    PROVE  Inv'
<1>1. PICK conv, next : Settles(t, state, conv, next)
  BY SettleStep
<1> DEFINE tab == page.tab[t]
           rs == [requests EXCEPT ![t] = None]
<1>2. /\ Becomes(page', t, next) /\ Commit(page', version, rs)
      /\ t \in Open(page) /\ tab.isBusy /\ TabOK(tab)
      /\ TabOK(next) /\ ~next.isBusy /\ ~next.isHydrating
      /\ next.conv.id = tab.conv.id /\ next.conv.messages # <<>>
      /\ SaveOK(SaveOf(tab, conv, FALSE))
      /\ saves' = [saves EXCEPT ![t] = Append(@, SaveOf(tab, conv, FALSE))]
  BY <1>1 DEF Settles
<1>3. /\ ~tab.isHydrating /\ OpenOnce /\ RequestOK(next, None)
      /\ version \in [TabIds -> Nat] /\ DOMAIN requests = TabIds
  BY <1>2 DEF Inv, PageInv, TabOK, RequestOK
<1>4. rs[t] = None /\ \A u \in TabIds \ {t} : rs[u] = requests[u]
  BY <1>3
<1>5. \A u \in Open(page) \ {t} : next.conv.id # None => page.tab[u].conv.id # next.conv.id
  BY <1>2, <1>3 DEF OpenOnce
<1> HIDE DEF rs
<1>6. PageInv'
  BY <1>2, <1>3, <1>4, <1>5, TabsStay
<1>7. LoadInv'
  BY <1>2, <1>3, LoadsStay
<1>8. Kept'
  BY <1>2, EnqueueKeeps DEF Inv
<1> QED
  BY <1>6, <1>7, <1>8 DEF Inv

\* The end of a turn stopped without an answer keeps the invariant.
LEMMA StopKeepsInv ==
    ASSUME Inv, NEW t \in TabIds, FinishStoppedEmpty(t)
    PROVE  Inv'
<1> DEFINE tab == page.tab[t]
           messages == Filter(tab.conv.messages, Range(tab.conv.messages) \ {Placeholder})
           next == [tab EXCEPT !.isBusy = FALSE,
                               !.conv.messages = Filter(@, Range(@) \ {Placeholder})]
           rs == [requests EXCEPT ![t] = None]
           q == UpdateTab(page, t, next, FreshTab)
<1>1. /\ Normal(page) /\ t \in Open(page) /\ TabOK(tab) /\ RequestOK(tab, requests[t])
      /\ version \in [TabIds -> Nat] /\ DOMAIN requests = TabIds /\ Open(page) \subseteq TabIds
      /\ requests[t] # None
  BY ScratchIsLast DEF Inv, PageInv, TabInv, ClosedInv, FinishStoppedEmpty
<1>2. Commit(q, version, rs) /\ UNCHANGED <<loads, saves, store, disk, restarts>>
  BY DEF FinishStoppedEmpty
<1>3. /\ tab \in Tab /\ tab.isBusy /\ tab.isPersisted /\ tab.isLoaded /\ ~tab.isHydrating
      /\ tab.editing = 0 /\ Asked(tab.conv.messages) /\ tab.conv.id # None
      /\ tab.conv \in Conversation
  BY <1>1 DEF TabOK, RequestOK, Tab
<1>4. Settled(messages) /\ messages # <<>> /\ messages \in Seq(Message) /\ Len(messages) \in Nat
  BY <1>3, StopSettles, LenProperties DEF Settled
<1>5. next = [tab EXCEPT !.isBusy = FALSE, !.conv.messages = messages]
  BY <1>3 DEF Tab, Conversation
<1> HIDE DEF next, messages
<1>6. /\ next \in Tab /\ next.conv.id = tab.conv.id /\ next.conv.messages = messages
      /\ next.isBusy = FALSE /\ next.isPersisted = tab.isPersisted /\ next.isLoaded = tab.isLoaded
      /\ next.isHydrating = tab.isHydrating /\ next.editing = 0
  BY <1>3, <1>4, <1>5 DEF Tab, Conversation
<1>7. TabOK(next) /\ RequestOK(next, None)
  BY <1>3, <1>4, <1>6 DEF TabOK, RequestOK
<1>8. Becomes(q, t, next)
  <2>1. ~IsScratch(page.tab[t])
    BY <1>3 DEF IsScratch
  <2> QED
    BY <1>1, <1>6, <2>1, UpdateBecomes
<1> HIDE DEF q
<1>9. rs[t] = None /\ \A u \in TabIds \ {t} : rs[u] = requests[u]
  BY <1>1
<1> HIDE DEF rs
<1>10. PageInv'
  <2>1. \A u \in Open(page) \ {t} : page.tab[u].conv.id # next.conv.id
    BY <1>1, <1>3, <1>6 DEF Inv, PageInv, OpenOnce
  <2> QED
    BY <1>1, <1>2, <1>3, <1>4, <1>6, <1>7, <1>8, <1>9, <2>1, TabsStay
<1>11. LoadInv'
  BY <1>1, <1>2, <1>3, <1>6, <1>8, LoadsStay
<1>12. Kept'
  BY <1>2 DEF Inv, Kept, BrowserOK
<1> QED
  BY <1>10, <1>11, <1>12 DEF Inv

\* Steps that leave the page alone and change only what a request has come to.
LEMMA RequestKeepsInv ==
    ASSUME Inv, NEW t \in TabIds, StreamDelta(t) \/ StopResponse(t)
    PROVE  Inv'
<1>1. /\ requests[t] # None
      /\ \/ requests' = [requests EXCEPT ![t].streamed = TRUE]
         \/ requests' = [requests EXCEPT ![t].stopped = TRUE]
      /\ UNCHANGED <<page, loads, version, saves, store, disk, renaming, restarts>>
  BY DEF StreamDelta, StopResponse
<1>2. /\ t \in Open(page) /\ DOMAIN requests = TabIds /\ TabInv /\ ClosedInv
      /\ RequestOK(page.tab[t], requests[t])
  BY <1>1 DEF Inv, PageInv, TabInv, ClosedInv
<1>3. /\ DOMAIN requests' = TabIds
      /\ \A u \in TabIds \ {t} : requests'[u] = requests[u]
      /\ \/ requests'[t] = [requests[t] EXCEPT !.streamed = TRUE]
         \/ requests'[t] = [requests[t] EXCEPT !.stopped = TRUE]
  BY <1>1, <1>2
<1>4. RequestOK(page.tab[t], requests'[t])
  <2>1. requests[t] \in Request
    BY <1>1, <1>2 DEF RequestOK
  <2>2. requests'[t] \in Request /\ requests'[t].asked = requests[t].asked
    BY <1>3, <2>1 DEF Request
  <2> QED
    BY <1>1, <1>2, <2>2 DEF RequestOK
<1>5. TabInv'
  <2>1. Open(page) \subseteq TabIds
    BY ScratchIsLast DEF Inv, PageInv
  <2> QED
    BY <1>1, <1>2, <1>3, <1>4, <2>1 DEF TabInv, TabOK
<1>6. ClosedInv'
  BY <1>1, <1>2, <1>3 DEF ClosedInv
<1> QED
  BY <1>1, <1>3, <1>5, <1>6 DEF Inv, PageInv, OpenOnce, LoadInv, LatestInv, Latest, LatestOK, RenameInv, Kept

-----------------------------------------------------------------------------
(***************************************************************************)
(* The tab bar and its tabs.                                               *)
(***************************************************************************)
\* A step that closes no tab and leaves turns and loads what they are.
LEMMA TabsChange ==
    ASSUME Inv, Normal(page'), Open(page') = Open(page), UNCHANGED <<requests, loads, version, store>>,
           RenameInv',
           \A u \in Open(page) :
             /\ TabOK(page'.tab[u]) /\ RequestOK(page'.tab[u], requests[u])
             /\ page'.tab[u].conv.id = page.tab[u].conv.id
             /\ page'.tab[u].isPersisted = page.tab[u].isPersisted
             /\ page'.tab[u].isHydrating = page.tab[u].isHydrating
             /\ page.tab[u].isHydrating => page'.tab[u].conv.title = page.tab[u].conv.title
    PROVE  PageInv' /\ LoadInv'
<1>1. PageInv /\ LoadInv
  BY DEF Inv
<1>2. PageInv'
  BY <1>1 DEF PageInv, TabInv, ClosedInv, OpenOnce
<1>3. \A l : Latest(l)' <=> Latest(l)
  BY DEF Latest
<1>4. ASSUME NEW l \in loads, Latest(l) PROVE LatestOK(l)'
  <2>1. l.tab \in Open(page) /\ LatestOK(l)
    BY <1>1, <1>4 DEF LoadInv, LatestInv, Latest
  <2> QED
    BY <2>1 DEF LatestOK
<1>5. LoadInv'
  BY <1>1, <1>3, <1>4 DEF LoadInv, LatestInv
<1> QED
  BY <1>2, <1>5

\* What is kept stays so while nothing is written.
LEMMA KeptStays ==
    ASSUME Inv, UNCHANGED <<saves, store, disk, restarts>>
    PROVE  Kept'
BY DEF Inv, Kept

\* The selection of another tab keeps the invariant.
LEMMA SelectKeepsInv ==
    ASSUME Inv, NEW t \in Open(page), page' = Select(page, t),
           UNCHANGED <<requests, loads, version, saves, store, disk, renaming, restarts>>
    PROVE  Inv'
<1>1. Normal(page') /\ page'.tab = page.tab /\ Open(page') = Open(page)
  BY SelectKeeps DEF Inv, PageInv
<1>2. RenameInv'
  BY <1>1 DEF Inv, PageInv, RenameInv
<1>3. PageInv' /\ LoadInv'
  BY <1>1, <1>2, TabsChange DEF Inv, PageInv, TabInv
<1> QED
  BY <1>3, KeptStays DEF Inv

\* The next tab of the bar, modulo their number, is one of them.
LEMMA Remainder == \A s \in Nat, n \in Nat \ {0} : s % n \in 0..(n - 1)
OBVIOUS

\* Whatever is picked in the bar is a tab of the page.
LEMMA BarKeepsInv ==
    ASSUME Inv, (\E t \in Open(page) : SelectTab(t)) \/ OpenNewTab
                \/ \E delta \in {1, Len(page.order) - 1} : CycleTab(delta)
    PROVE  Inv'
<1>1. Normal(page) /\ page.order \in Seq(TabIds) /\ page.selected \in Open(page)
  BY DEF Inv, PageInv, Normal, WellFormed, Page
<1>2. ASSUME NEW t \in Open(page), GoTo(t) PROVE Inv'
  BY <1>2, SelectKeepsInv DEF GoTo
<1>3. CASE \E t \in Open(page) : SelectTab(t)
  BY <1>2, <1>3 DEF SelectTab
<1>4. CASE OpenNewTab
  <2>1. Last(Scratches(page)) \in Open(page)
    BY <1>1, ScratchIsLast
  <2> QED
    BY <1>2, <1>4, <2>1 DEF OpenNewTab
<1>5. ASSUME NEW delta \in {1, Len(page.order) - 1}, CycleTab(delta) PROVE Inv'
  <2> DEFINE n == Len(page.order)
             at == CHOOSE i \in DOMAIN page.order : page.order[i] = page.selected
             place == ((at - 1 + delta) % n) + 1
  <2>1. DOMAIN page.order = 1..n /\ n \in Nat
    BY <1>1, LenProperties
  <2>2. at \in 1..n /\ n >= 1
    <3>1. \E i \in DOMAIN page.order : page.order[i] = page.selected
      BY <1>1 DEF Open, Range
    <3>2. at \in DOMAIN page.order
      BY <3>1
    <3> QED
      BY <2>1, <3>2
  <2> HIDE DEF at
  <2>3. at - 1 + delta \in Nat
    BY <2>1, <2>2
  <2>4. place \in 1..n
    <3> DEFINE sum == at - 1 + delta
    <3>1. sum \in Nat /\ n \in Nat \ {0}
      BY <2>1, <2>2, <2>3
    <3> HIDE DEF sum, n
    <3>2. sum % n \in 0..(n - 1)
      BY <3>1, Remainder
    <3> QED
      BY <3>1, <3>2 DEF sum
  <2>5. page.order[place] \in Open(page)
    BY <2>1, <2>4 DEF Open, Range
  <2>6. GoTo(page.order[place])
    BY <1>5 DEF CycleTab, at
  <2> QED
    BY <1>2, <2>5, <2>6
<1> QED
  BY <1>3, <1>4, <1>5

\* A message that is, or is no longer, being edited keeps the invariant.
LEMMA EditKeepsInv ==
    ASSUME Inv, NEW t \in Open(page), NEW i \in Nat, i <= Len(page.tab[t].conv.messages),
           i = 0 \/ ~page.tab[t].isBusy,
           page' = [page EXCEPT !.tab[t].editing = i],
           UNCHANGED <<requests, loads, version, saves, store, disk, renaming, restarts>>
    PROVE  Inv'
<1> DEFINE tab == page.tab[t]
           next == [tab EXCEPT !.editing = i]
<1>1. /\ Normal(page) /\ TabInv /\ RenameInv /\ t \in TabIds /\ Open(page) \subseteq TabIds
      /\ page \in Page /\ page.tab \in [TabIds -> Tab \cup {None}] /\ WellFormed(page)
  BY ScratchIsLast DEF Inv, PageInv, Normal, WellFormed, Page
<1>2. TabOK(tab) /\ tab \in Tab /\ RequestOK(tab, requests[t])
  BY <1>1 DEF TabInv, TabOK
<1>3. /\ next \in Tab /\ next.conv = tab.conv /\ next.isBusy = tab.isBusy
      /\ next.isLoaded = tab.isLoaded /\ next.isHydrating = tab.isHydrating
      /\ next.isPersisted = tab.isPersisted /\ next.editing = i
  BY <1>2 DEF Tab
<1>4. /\ page' \in Page /\ page'.order = page.order /\ page'.selected = page.selected
      /\ page'.lastActive = page.lastActive /\ page'.tab = [page.tab EXCEPT ![t] = next]
  BY <1>1, <1>3 DEF Page
<1> HIDE DEF next
<1>5. /\ Open(page') = Open(page)
      /\ \A u \in Open(page) : page'.tab[u] = IF u = t THEN next ELSE page.tab[u]
  BY <1>1, <1>4 DEF Open
<1>6. Scratches(page') = Scratches(page)
  <2>1. {u \in Open(page) : IsScratch(page'.tab[u])} = {u \in Open(page) : IsScratch(page.tab[u])}
    BY <1>3, <1>5 DEF IsScratch
  <2> QED
    BY <1>4, <1>5, <2>1 DEF Scratches
<1>7. Normal(page')
  <2>1. WellFormed(page')
    BY <1>1, <1>3, <1>4, <1>5, NoneAssumption DEF WellFormed
  <2> QED
    BY <1>1, <1>4, <1>5, <1>6, <2>1 DEF Normal
<1>8. RenameInv'
  BY <1>1, <1>3, <1>5 DEF RenameInv
<1>9. TabOK(next) /\ RequestOK(next, requests[t])
  BY <1>2, <1>3 DEF TabOK, RequestOK
<1>10. PageInv' /\ LoadInv'
  BY <1>1, <1>3, <1>5, <1>7, <1>8, <1>9, TabsChange DEF TabInv
<1> QED
  BY <1>10, KeptStays DEF Inv

\* Beginning and cancelling an edit keep the invariant.
LEMMA EditingKeepsInv ==
    ASSUME Inv, NEW t \in Open(page),
           (\E i \in Editable : BeginEdit(t, i)) \/ CancelEditing(t)
    PROVE  Inv'
<1>1. page.tab[t].conv.messages \in Seq(Message)
  BY DEF Inv, PageInv, TabInv, TabOK, Asked, Settled
<1>2. ASSUME NEW i \in Editable, BeginEdit(t, i) PROVE Inv'
  <2>1. i \in 1..Len(page.tab[t].conv.messages) /\ i \in Nat
    BY <1>1, <1>2, LenProperties DEF BeginEdit
  <2>2. i <= Len(page.tab[t].conv.messages)
    BY <1>1, <2>1, LenProperties
  <2> QED
    BY <1>2, <2>1, <2>2, EditKeepsInv DEF BeginEdit
<1>3. CASE CancelEditing(t)
  <2>1. 0 <= Len(page.tab[t].conv.messages)
    BY <1>1, LenProperties
  <2> QED
    BY <1>3, <2>1, EditKeepsInv DEF CancelEditing
<1> QED
  BY <1>2, <1>3

\* closeTab, seen as the removal of one tab.
LEMMA CloseStep ==
    ASSUME Inv, NEW t \in Open(page), CloseTab(t)
    PROVE  \E q : /\ t \notin Open(q) /\ Becomes(q, t, EmptyTab)
                 /\ Commit(q, version, requests)
                 /\ UNCHANGED <<loads, saves, store, unsaved, disk, restarts>>
<1> DEFINE rest == Without(page.order, t)
           closed == [page EXCEPT !.order = rest, !.tab[t] = None, !.lastActive = Without(@, t)]
<1>1. /\ Normal(page) /\ WellFormed(page) /\ t \in TabIds /\ Open(page) \subseteq TabIds
      /\ page \in Page /\ page.order \in Seq(TabIds) /\ IsInjective(page.order)
      /\ page.lastActive \in Seq(TabIds) /\ Range(page.lastActive) \subseteq Open(page)
      /\ page.tab \in [TabIds -> Tab \cup {None}]
      /\ version \in [TabIds -> Nat] /\ DOMAIN requests = TabIds
  BY ScratchIsLast DEF Inv, PageInv, Normal, WellFormed, Page
<1>2. PICK preferred : Commit(NormalizeAndCommit(closed, FreshTab, preferred), version, requests)
  BY DEF CloseTab
<1>3. FreshTab \in FreshTabs /\ FreshTab \in TabIds \ Open(page)
  BY FreshTabIsFresh DEF CloseTab
<1>4. /\ rest \in Seq(TabIds) /\ IsInjective(rest) /\ Range(rest) = Open(page) \ {t}
      /\ Len(rest) <= MaxTabs
  <2>1. /\ rest \in Seq(TabIds) /\ IsInjective(rest) /\ Range(rest) = Open(page) \ {t}
        /\ Len(rest) < Len(page.order)
    BY <1>1, Removed DEF Open
  <2>2. Len(page.order) <= MaxTabs /\ Len(page.order) \in Nat /\ Len(rest) \in Nat /\ MaxTabs \in Nat
    BY <1>1, <2>1, LenProperties, BoundsAssumption DEF WellFormed
  <2> QED
    BY <2>1, <2>2
<1>5. Without(page.lastActive, t) \in Seq(TabIds)
      /\ Range(Without(page.lastActive, t)) = Range(page.lastActive) \ {t}
  BY <1>1, Removed
<1>6. /\ closed \in Page /\ closed.order = rest /\ closed.lastActive = Without(page.lastActive, t)
      /\ closed.tab = [page.tab EXCEPT ![t] = None] /\ closed.selected = page.selected
  BY <1>1, <1>4, <1>5 DEF Page
<1> HIDE DEF closed, rest
<1>7. Open(closed) = Open(page) \ {t} /\ WellFormed(closed)
  <2>1. Open(closed) = Open(page) \ {t}
    BY <1>4, <1>6 DEF Open
  <2>2. \A u \in TabIds : closed.tab[u] # None <=> u \in Open(closed)
    BY <1>1, <1>6, <2>1 DEF WellFormed
  <2>3. Range(closed.lastActive) \subseteq Open(closed)
    BY <1>1, <1>5, <1>6, <2>1
  <2> QED
    BY <1>4, <1>6, <2>1, <2>2, <2>3 DEF WellFormed
<1> DEFINE q == NormalizeAndCommit(closed, FreshTab, preferred)
<1>8. /\ Normal(q) /\ Open(q) \subseteq Open(closed) \cup {FreshTab}
      /\ \A u \in Open(q) : q.tab[u] = IF u \in Open(closed) THEN closed.tab[u] ELSE EmptyTab
  BY <1>3, <1>7, Normalizes
<1> HIDE DEF q
<1>9. t \notin Open(q) /\ Becomes(q, t, EmptyTab)
  BY <1>1, <1>3, <1>6, <1>7, <1>8 DEF Becomes
<1>10. Commit(q, version, requests) /\ UNCHANGED <<loads, saves, store, unsaved, disk, restarts>>
  BY <1>2 DEF CloseTab, q
<1> QED
  BY <1>9, <1>10

\* Closing a tab keeps the invariant.
LEMMA CloseKeepsInv ==
    ASSUME Inv, NEW t \in Open(page), CloseTab(t)
    PROVE  Inv'
<1>1. PICK q : /\ t \notin Open(q) /\ Becomes(q, t, EmptyTab)
               /\ Commit(q, version, requests)
               /\ UNCHANGED <<loads, saves, store, disk, restarts>>
  BY CloseStep
<1>2. version \in [TabIds -> Nat]
  BY DEF Inv, PageInv
<1>3. PageInv'
  BY <1>1, <1>2, TabsStay
<1>4. LoadInv'
  BY <1>1, LoadsStay
<1> QED
  BY <1>1, <1>3, <1>4, KeptStays DEF Inv

\* Beginning and ending a rename keep the invariant.
LEMMA RenameKeepsInv ==
    ASSUME Inv, BeginRename \/ \E title \in ManualTitles : FinishRename(title)
    PROVE  Inv'
<1>1. /\ Normal(page) /\ TabInv /\ ClosedInv /\ RenameInv /\ OpenOnce
      /\ page.selected \in Open(page) /\ Open(page) \subseteq TabIds
  BY ScratchIsLast DEF Inv, PageInv, Normal
<1>2. CASE BeginRename
  <2>1. /\ renaming' = page.selected /\ page.tab[page.selected].conv.messages # <<>>
        /\ ~page.tab[page.selected].isHydrating
        /\ UNCHANGED <<page, requests, loads, version, saves, store, disk, restarts>>
    BY <1>2 DEF BeginRename
  <2>2. RenameInv'
    BY <1>1, <2>1 DEF RenameInv
  <2>3. PageInv' /\ LoadInv'
    BY <1>1, <2>1, <2>2, TabsChange DEF TabInv
  <2> QED
    BY <2>1, <2>3, KeptStays DEF Inv
<1>3. ASSUME NEW title \in ManualTitles, FinishRename(title) PROVE Inv'
  <2> DEFINE t == renaming
             tab == page.tab[t]
             conv == [tab.conv EXCEPT !.title = title]
             next == AfterSave(tab, conv, TRUE)
  <2>1. /\ t # None /\ renaming' = None /\ (LateRenames \/ ~tab.isBusy)
        /\ UNCHANGED <<requests, loads, version, store, disk, restarts>>
        /\ IF tab.conv.title = title THEN UNCHANGED <<page, saves>>
           ELSE /\ saves' = [saves EXCEPT ![t] = Append(@, SaveOf(tab, conv, TRUE))]
                /\ page' = UpdateTab(page, t, next, None)
    BY <1>3 DEF FinishRename, EnqueueSave, SaveUpdated, AfterSave
  <2>2. t \in Open(page) /\ tab.conv.messages # <<>> /\ ~tab.isHydrating
    BY <1>1, <2>1 DEF RenameInv
  <2>3. TabOK(tab) /\ RequestOK(tab, requests[t]) /\ tab \in Tab /\ tab.conv \in Conversation
        /\ tab.isPersisted /\ tab.isLoaded /\ tab.conv.id # None
    BY <1>1, <2>2 DEF TabInv, TabOK, Tab
  <2>4. RenameInv'
    BY <2>1 DEF RenameInv
  <2>5. CASE tab.conv.title = title
    <3>1. UNCHANGED <<page, saves>>
      BY <2>1, <2>5
    <3>2. PageInv' /\ LoadInv'
      BY <1>1, <2>1, <2>4, <3>1, TabsChange DEF TabInv
    <3> QED
      BY <2>1, <3>1, <3>2, KeptStays DEF Inv
  <2>6. CASE tab.conv.title # title
    <3>1. saves' = [saves EXCEPT ![t] = Append(@, SaveOf(tab, conv, TRUE))]
          /\ page' = UpdateTab(page, t, next, None)
      BY <2>1, <2>6
    <3>2. /\ conv \in Conversation /\ conv.id = tab.conv.id /\ conv.messages = tab.conv.messages
      BY <2>3 DEF Conversation, Titles
    <3> HIDE DEF conv
    <3>3. /\ next \in Tab /\ next.conv.id = tab.conv.id /\ next.conv.messages = tab.conv.messages
          /\ next.isLoaded /\ next.isPersisted /\ ~next.isHydrating
          /\ next.isBusy = tab.isBusy /\ next.editing = tab.editing /\ ~IsScratch(next)
      BY <2>3, <3>2, AfterSaveIsATab
    <3> HIDE DEF next
    <3>4. TabOK(next) /\ RequestOK(next, requests[t])
      BY <2>1, <2>2, <2>3, <3>3 DEF TabOK, RequestOK
    <3>5. ~IsScratch(tab)
      BY <2>3 DEF IsScratch
    <3>6. /\ Normal(page') /\ Open(page') = Open(page)
          /\ \A u \in Open(page) : page'.tab[u] = IF u = t THEN next ELSE page.tab[u]
      BY <1>1, <2>2, <3>1, <3>3, <3>5, UpdateNormalizes
    <3>7. PageInv' /\ LoadInv'
      <4>1. /\ next.isPersisted = tab.isPersisted /\ next.isHydrating = tab.isHydrating
        BY <2>2, <2>3, <3>3 DEF Tab
      <4> QED
        BY <1>1, <2>1, <2>2, <2>4, <3>3, <3>4, <3>6, <4>1, TabsChange DEF TabInv
    <3>8. Kept'
      <4>1. CASE tab.isBusy
        <5>1. LateRenames /\ Asked(tab.conv.messages)
          BY <2>1, <2>3, <4>1 DEF TabOK
        <5>2. Settled(tab.conv.messages)
          BY <5>1, LenProperties DEF Asked, Settled, Clean
        <5>3. SaveOK(SaveOf(tab, conv, TRUE))
          BY <2>3, <3>2, <5>2, SaveIsOfConversation DEF SaveOK
        <5> QED
          BY <1>1, <2>1, <2>2, <3>1, <5>3, EnqueueKeeps DEF Inv
      <4>2. CASE ~tab.isBusy
        <5>1. Settled(tab.conv.messages)
          BY <2>3, <4>2 DEF TabOK
        <5>2. SaveOK(SaveOf(tab, conv, TRUE))
          BY <2>3, <3>2, <5>1, SaveIsOfConversation DEF SaveOK
        <5> QED
          BY <1>1, <2>1, <2>2, <3>1, <5>2, EnqueueKeeps DEF Inv
      <4> QED
        BY <4>1, <4>2
    <3> QED
      BY <3>7, <3>8 DEF Inv
  <2> QED
    BY <2>5, <2>6
<1> QED
  BY <1>2, <1>3

-----------------------------------------------------------------------------
(***************************************************************************)
(* Loads.                                                                  *)
(***************************************************************************)
\* The loads under way are of one tab, so no other is hydrating, and only the last
\* of them is the latest.
LEMMA OneTabLoads ==
    ASSUME Inv, NEW l \in loads
    PROVE  /\ l \in Load /\ l.tab \in TabIds /\ l.conv \in ConvIds /\ l.version \in Nat
           /\ \A m \in loads : m.tab = l.tab /\ (m.version = l.version => m = l)
           /\ Latest(l) => LatestOK(l)
           /\ \A u \in Open(page) \ {l.tab} : ~page.tab[u].isHydrating
BY DEF Inv, LoadInv, LatestInv, Load

\* isTabLoadCurrent is true exactly of the last load of an open tab.
LEMMA LatestIsCurrent ==
    ASSUME Inv, NEW l \in loads
    PROVE  IsCurrent(l) <=> Latest(l)
BY OneTabLoads DEF IsCurrent, Latest, LatestOK

\* A step that ends or begins the last load of a tab: no other load of the tab is the
\* latest, before or after.
LEMMA LoadsChange ==
    ASSUME Inv, NEW q, NEW t \in TabIds, NEW tab, NEW versions, NEW rs,
           Becomes(q, t, tab), Commit(q, versions, rs),
           loads' \in SUBSET Load,
           \A l \in loads' : l.tab = t /\ l.version \in 1..versions[t],
           LatestInv',
           \A l, m \in loads' : l.version = m.version => l = m,
           \A u \in Open(page) \ {t} : ~page.tab[u].isHydrating,
           t \in Open(q) /\ tab.isHydrating => \E l \in loads' : l.version = versions[t]
    PROVE  LoadInv'
<1>1. /\ page' = q /\ Open(q) \subseteq TabIds
      /\ version' = [u \in TabIds |-> IF u \in Open(q) THEN versions[u] ELSE 0]
  BY ScratchIsLast DEF Commit, Becomes
<1>3. \A l \in loads' : l.version >= 1 /\ (l.tab \in Open(q) => l.version <= version'[l.tab])
  <2> SUFFICES ASSUME NEW l \in loads'
               PROVE  l.version >= 1 /\ (l.tab \in Open(q) => l.version <= version'[l.tab])
    OBVIOUS
  <2>1. l.tab = t /\ l.version \in Nat /\ l.version \in 1..versions[t]
    BY DEF Load
  <2> QED
    BY <1>1, <2>1
<1>4. ASSUME NEW u \in Open(q), q.tab[u].isHydrating
      PROVE  \E l \in loads' : l.tab = u /\ Latest(l)'
  <2>1. u = t
    BY <1>4, NewTabIsOK DEF Becomes
  <2>2. q.tab[t] = tab
    BY <2>1 DEF Becomes
  <2>3. PICK l \in loads' : l.version = versions[t]
    BY <1>4, <2>1, <2>2
  <2>4. Latest(l)'
    BY <1>1, <2>1, <2>3 DEF Latest
  <2> QED
    BY <2>1, <2>4
<1> QED
  BY <1>1, <1>3, <1>4 DEF LoadInv

\* beginTabLoad keeps the invariant, for a tab that restores or for one that opens.
LEMMA StartKeepsInv ==
    ASSUME Inv, NEW p, Normal(p), p.tab = page.tab, Open(p) = Open(page), NEW t \in Open(page),
           NEW kind \in {"restore", "open"}, NEW conv \in ConvIds, NEW title \in Titles,
           StartLoad(p, t, kind, conv, title), UNCHANGED <<saves, store, disk, restarts>>,
           ~page.tab[t].isBusy,
           kind = "restore" => /\ page.tab[t].isPersisted /\ page.tab[t].conv.messages = <<>>
                               /\ page.tab[t].conv.id = conv /\ page.tab[t].conv.title = title,
           kind = "open" => /\ ~page.tab[t].isPersisted
                            /\ store[conv] # None
                            /\ \A u \in Open(page) : page.tab[u].conv.id # conv
    PROVE  Inv'
<1> DEFINE tab == page.tab[t]
           next == [tab EXCEPT !.isHydrating = TRUE, !.isBusy = FALSE, !.editing = 0]
           versions == [version EXCEPT ![t] = @ + 1]
           q == UpdateTab(p, t, next, FreshTab)
<1>1. /\ Normal(page) /\ TabInv /\ LoadInv /\ OpenOnce /\ RenameInv /\ t \in TabIds /\ Open(page) \subseteq TabIds
      /\ version \in [TabIds -> Nat] /\ TabOK(tab) /\ RequestOK(tab, requests[t]) /\ tab \in Tab
  BY ScratchIsLast DEF Inv, PageInv, TabInv, TabOK
<1> PICK n : n = [tab |-> t, version |-> version[t] + 1, kind |-> kind, conv |-> conv,
                  title |-> title, phase |-> "fetch", found |-> None]
  OBVIOUS
<1>2. /\ \A l \in loads : l.tab = t
      /\ loads' = loads \cup {n}
      /\ Commit(q, versions, requests)
  BY DEF StartLoad
<1>3. /\ next \in Tab /\ next.conv = tab.conv /\ next.isHydrating = TRUE /\ next.isBusy = FALSE
      /\ next.editing = 0 /\ next.isPersisted = tab.isPersisted /\ next.isLoaded = tab.isLoaded
  BY <1>1 DEF Tab
<1>4. n \in Load /\ versions \in [TabIds -> Nat] /\ versions[t] = version[t] + 1
  BY <1>1 DEF Load
<1> HIDE DEF next
<1>5. Settled(tab.conv.messages) /\ tab.conv.messages = <<>> /\ requests[t] = None
  BY <1>1 DEF TabOK, RequestOK
<1>6. TabOK(next) /\ RequestOK(next, requests[t])
  <2>1. 0 <= Len(tab.conv.messages)
    BY <1>5, LenProperties DEF Settled
  <2> QED
    BY <1>1, <1>3, <1>5, <2>1 DEF TabOK, RequestOK
<1>7. Becomes(q, t, next)
  <2>1. IsScratch(next) \/ ~IsScratch(page.tab[t])
    BY <1>3 DEF IsScratch
  <2> QED
    BY <1>3, <2>1, UpdateBecomes
<1> HIDE DEF q
<1>8. PageInv'
  <2>1. \A u \in Open(page) \ {t} : next.conv.id # None => page.tab[u].conv.id # next.conv.id
    BY <1>1, <1>3 DEF OpenOnce
  <2>2. t # renaming
    BY <1>1, <1>5, NoneAssumption DEF RenameInv
  <2> QED
    BY <1>2, <1>4, <1>6, <1>7, <2>1, <2>2, TabsStay
<1>9. page' = q /\ store' = store
  BY <1>2 DEF Commit
<1>10. ASSUME t \in Open(q) PROVE LatestOK(n)'
  <2>1. q.tab[t] = next
    BY <1>7, <1>10 DEF Becomes
  <2>2. n.tab = t /\ n.kind = kind /\ n.phase = "fetch" /\ n.conv = conv /\ n.title = title
    OBVIOUS
  <2>3. kind = "open" => \A u \in Open(q) : q.tab[u].conv.id # conv
    <3>1. conv # None
      BY NoneAssumption
    <3> QED
      BY <1>3, <1>7, <3>1, NewTabIsOK DEF Becomes
  <2> QED
    BY <1>3, <1>9, <2>1, <2>2, <2>3 DEF LatestOK
<1>11. LoadInv'
  <2>1. \A l \in loads : l \in Load /\ l.version \in 1..version[t]
    BY <1>1, <1>2 DEF LoadInv, Load
  <2>2. n.tab = t /\ n.version = version[t] + 1
    OBVIOUS
  <2> HIDE DEF versions
  <2>3. loads' \in SUBSET Load
    BY <1>1, <1>2, <1>4 DEF LoadInv
  <2>4. \A l \in loads' : /\ l.tab = t /\ l.version \in 1..versions[t]
                          /\ l.version = versions[t] => l = n
    BY <1>1, <1>2, <1>4, <2>1, <2>2
  <2>5. \A l, m \in loads' : l.version = m.version => l = m
    <3>1. \A l, m \in loads : l.version = m.version => l = m
      BY <1>1 DEF LoadInv
    <3>2. \A l \in loads : l.version # n.version
      BY <1>1, <2>1, <2>2
    <3> QED
      BY <1>2, <3>1, <3>2
  <2>6. \A u \in Open(page) \ {t} : ~page.tab[u].isHydrating
    BY <1>1, <1>2 DEF LoadInv
  <2>7. n \in loads' /\ n.version = versions[t]
    BY <1>2, <1>4, <2>2
  <2>8. LatestInv'
    <3> SUFFICES ASSUME NEW l \in loads', Latest(l)' PROVE LatestOK(l)'
      BY DEF LatestInv
    <3>1. t \in Open(q) /\ l.version = versions[t]
      BY <1>1, <1>2, <1>9, <2>4 DEF Latest, Commit
    <3> QED
      BY <1>10, <2>4, <3>1
  <2>9. t \in Open(q) /\ next.isHydrating => \E l \in loads' : l.version = versions[t]
    BY <2>7
  <2>10. t \in TabIds /\ Becomes(q, t, next) /\ Commit(q, versions, requests)
    BY <1>1, <1>2, <1>7
  <2> QED
    BY <2>3, <2>4, <2>5, <2>6, <2>8, <2>9, <2>10, LoadsChange
<1> QED
  BY <1>8, <1>11, KeptStays DEF Inv

\* The two ways a load begins: a restored tab is selected, or a conversation picked.
LEMMA PickKeepsInv ==
    ASSUME Inv, EnsureTabLoaded \/ \E c \in ConvIds : SelectConversation(c)
    PROVE  Inv'
<1>1. /\ Normal(page) /\ TabInv /\ page.selected \in Open(page) /\ LoadInv /\ Kept
      /\ Open(page) \subseteq TabIds
  BY ScratchIsLast DEF Inv, PageInv, Normal
<1>2. CASE EnsureTabLoaded
  <2> DEFINE t == page.selected
             tab == page.tab[t]
  <2>1. /\ ~tab.isLoaded /\ tab.isPersisted
        /\ StartLoad(page, t, "restore", tab.conv.id, tab.conv.title)
        /\ UNCHANGED <<saves, store, disk, restarts>>
    BY <1>2 DEF EnsureTabLoaded
  <2>2. TabOK(tab)
    BY <1>1 DEF TabInv
  <2>3. ~tab.isBusy /\ tab.conv.messages = <<>> /\ tab.conv.id \in ConvIds /\ tab.conv.title \in Titles
    BY <2>1, <2>2 DEF TabOK, Tab, Conversation
  <2> QED
    BY <1>1, <2>1, <2>3, StartKeepsInv
<1>3. ASSUME NEW c \in ConvIds, SelectConversation(c) PROVE Inv'
  <2> DEFINE shown == Showing(c)
             target == IF shown # {} THEN CHOOSE t \in shown : TRUE ELSE Last(Scratches(page))
  <2>1. /\ store[c] # None /\ UNCHANGED <<saves, store, disk, restarts>>
        /\ IF shown # {} THEN page' = Select(page, target) /\ UNCHANGED <<requests, loads, version, renaming>>
           ELSE StartLoad(Select(page, target), target, "open", c, store[c].title)
    BY <1>3 DEF SelectConversation
  <2>2. target \in Open(page) /\ (shown = {} => IsScratch(page.tab[target]))
    BY <1>1, ScratchIsLast DEF Showing
  <2>3. CASE shown # {}
    BY <2>1, <2>2, <2>3, SelectKeepsInv
  <2>4. CASE shown = {}
    <3>1. \A u \in Open(page) : page.tab[u].conv.id # c
      BY <2>4 DEF Showing
    <3>2. store[c].title \in Titles
      BY <1>1, <2>1 DEF Kept, FileOK, File
    <3>3. ~page.tab[target].isPersisted /\ ~page.tab[target].isBusy
      BY <1>1, <2>2, <2>4 DEF IsScratch, TabInv, TabOK
    <3> HIDE DEF target, shown
    <3>4. /\ Normal(Select(page, target)) /\ Select(page, target).tab = page.tab
          /\ Open(Select(page, target)) = Open(page)
      BY <1>1, <2>2, SelectKeeps
    <3> QED
      BY <2>1, <2>2, <2>4, <3>1, <3>2, <3>3, <3>4, StartKeepsInv
  <2> QED
    BY <2>3, <2>4
<1> QED
  BY <1>2, <1>3

\* What is known of the tab of a current load.
LEMMA CurrentLoad ==
    ASSUME Inv, NEW l \in loads, IsCurrent(l)
    PROVE  LET tab == page.tab[l.tab]
           IN  /\ l.tab \in Open(page) /\ l.tab \in TabIds /\ l.version = version[l.tab]
               /\ LatestOK(l) /\ tab.isHydrating /\ ~tab.isBusy /\ tab \in Tab
               /\ TabOK(tab) /\ RequestOK(tab, requests[l.tab])
               /\ l.tab # renaming
<1>1. Latest(l) /\ LatestOK(l) /\ l.tab \in TabIds /\ l.tab \in Open(page)
  BY LatestIsCurrent, OneTabLoads DEF Latest
<1>2. TabOK(page.tab[l.tab]) /\ RequestOK(page.tab[l.tab], requests[l.tab]) /\ RenameInv
  BY <1>1 DEF Inv, PageInv, TabInv
<1>3. page.tab[l.tab].isHydrating
  BY <1>1 DEF LatestOK
<1> QED
  BY <1>1, <1>2, <1>3, NoneAssumption DEF Latest, TabOK, RenameInv

\* The end of a load forgets versions only when no load is left.
LEMMA AfterLoadType ==
    ASSUME Inv, NEW l \in loads
    PROVE  /\ AfterLoad(l) \in [TabIds -> Nat]
           /\ loads \ {l} # {} => AfterLoad(l) = version
           /\ \A t \in TabIds \ {l.tab} : AfterLoad(l)[t] = version[t]
<1>1. version \in [TabIds -> Nat] /\ l.tab \in TabIds /\ \A m \in loads : m.tab = l.tab
  BY OneTabLoads DEF Inv, PageInv
<1> QED
  BY <1>1 DEF AfterLoad

\* The end of a load: painted, or failed.
LEMMA EndKeepsInv ==
    ASSUME Inv, NEW l \in loads, IsCurrent(l), NEW next, TabOK(next),
           ~next.isBusy, ~next.isHydrating, next.conv.id \in {page.tab[l.tab].conv.id, None},
           FreshTabs # {} \/ ~IsScratch(page.tab[l.tab]),
           loads' = loads \ {l},
           Commit(UpdateTab(page, l.tab, next, FreshTab), AfterLoad(l), requests),
           UNCHANGED <<saves, store, disk, restarts>>
    PROVE  Inv'
<1> DEFINE t == l.tab
           tab == page.tab[t]
           versions == AfterLoad(l)
           q == UpdateTab(page, t, next, FreshTab)
<1>1. /\ t \in Open(page) /\ t \in TabIds /\ l.version = version[t] /\ ~tab.isBusy
      /\ RequestOK(tab, requests[t]) /\ t # renaming /\ Normal(page) /\ OpenOnce
      /\ version \in [TabIds -> Nat]
  BY CurrentLoad DEF Inv, PageInv
<1>2. next \in Tab
  BY DEF TabOK
<1>3. Becomes(q, t, next)
  BY <1>1, <1>2, UpdateBecomes
<1> HIDE DEF q, versions
<1>4. versions \in [TabIds -> Nat] /\ (loads' # {} => versions = version)
  BY AfterLoadType DEF versions
<1>5. Commit(q, versions, requests)
  BY DEF q, versions
<1>6. PageInv'
  <2>1. RequestOK(next, requests[t])
    BY <1>1 DEF RequestOK
  <2>2. \A u \in Open(page) \ {t} : next.conv.id # None => page.tab[u].conv.id # next.conv.id
    BY <1>1 DEF OpenOnce
  <2> QED
    BY <1>1, <1>3, <1>4, <1>5, <2>1, <2>2, TabsStay
<1>7. LoadInv'
  <2>1. \A m \in loads' : /\ m \in Load /\ m.tab = t /\ m.version # version[t]
                          /\ m.version \in 1..version[t]
    <3> SUFFICES ASSUME NEW m \in loads'
                 PROVE  m \in Load /\ m.tab = t /\ m.version # version[t] /\ m.version \in 1..version[t]
      OBVIOUS
    <3>1. m \in loads /\ m # l
      OBVIOUS
    <3>2. m \in Load /\ m.version \in Nat /\ m.tab = t /\ m.version # l.version
      BY <3>1, OneTabLoads
    <3>3. m.version >= 1 /\ m.version <= version[t]
      BY <1>1, <3>1, <3>2 DEF Inv, LoadInv
    <3> QED
      BY <1>1, <3>2, <3>3
  <2>2. LatestInv'
    <3> SUFFICES ASSUME NEW m \in loads', Latest(m)' PROVE FALSE
      BY DEF LatestInv
    <3>1. m.version = versions[t] /\ versions = version
      BY <1>1, <1>4, <1>5, <2>1 DEF Latest, Commit
    <3> QED
      BY <2>1, <3>1
  <2>3. \A m \in loads' : m.tab = t /\ m.version \in 1..versions[t]
    BY <1>4, <2>1
  <2>4. \A m, n \in loads' : m.version = n.version => m = n
    BY OneTabLoads
  <2>5. \A u \in Open(page) \ {t} : ~page.tab[u].isHydrating
    BY OneTabLoads
  <2>6. loads' \in SUBSET Load
    BY <2>1
  <2>7. t \in Open(q) /\ next.isHydrating => \E m \in loads' : m.version = versions[t]
    OBVIOUS
  <2> QED
    BY <1>1, <1>3, <1>5, <2>2, <2>3, <2>4, <2>5, <2>6, <2>7, LoadsChange
<1> QED
  BY <1>6, <1>7, KeptStays DEF Inv

\* The end of a load that shows its conversation keeps the invariant.
LEMMA PaintedKeepsInv ==
    ASSUME Inv, NEW l \in loads, LoadPainted(l)
    PROVE  Inv'
<1> DEFINE tab == page.tab[l.tab]
           next == [tab EXCEPT !.isHydrating = FALSE, !.isBusy = FALSE, !.editing = 0]
<1>1. IsCurrent(l) /\ l.phase = "paint" /\ loads' = loads \ {l}
      /\ Commit(UpdateTab(page, l.tab, next, FreshTab), AfterLoad(l), requests)
      /\ UNCHANGED <<saves, store, disk, restarts>>
  BY DEF LoadPainted
<1>2. /\ tab \in Tab /\ TabOK(tab) /\ ~tab.isBusy /\ LatestOK(l) /\ l.conv \in ConvIds
  BY <1>1, CurrentLoad, OneTabLoads
<1>3. tab.conv.id = l.conv /\ tab.isPersisted /\ ~IsScratch(tab)
  BY <1>1, <1>2, NoneAssumption DEF LatestOK, TabOK, IsScratch
<1>4. /\ next \in Tab /\ next.conv = tab.conv /\ next.isHydrating = FALSE /\ next.isBusy = FALSE
      /\ next.editing = 0 /\ next.isPersisted = tab.isPersisted /\ next.isLoaded = tab.isLoaded
  BY <1>2 DEF Tab
<1> HIDE DEF next
<1>5. TabOK(next)
  <2>1. 0 <= Len(tab.conv.messages)
    BY <1>2, LenProperties DEF TabOK, Settled
  <2> QED
    BY <1>2, <1>4, <2>1 DEF TabOK
<1> QED
  BY <1>1, <1>3, <1>4, <1>5, EndKeepsInv

\* The end of a load that found nothing keeps the invariant.
LEMMA FailedKeepsInv ==
    ASSUME Inv, NEW l \in loads, LoadFailed(l)
    PROVE  Inv'
<1> DEFINE tab == page.tab[l.tab]
           stays == [tab EXCEPT !.isLoaded = TRUE, !.isHydrating = FALSE,
                                !.isBusy = FALSE, !.editing = 0]
           next == IF l.kind = "restore" THEN EmptyTab ELSE stays
<1>1. IsCurrent(l) /\ FreshTabs # {} /\ loads' = loads \ {l}
      /\ Commit(UpdateTab(page, l.tab, next, FreshTab), AfterLoad(l), requests)
      /\ UNCHANGED <<saves, store, disk, restarts>>
  BY DEF LoadFailed
<1>2. tab \in Tab /\ TabOK(tab) /\ ~tab.isBusy
  BY <1>1, CurrentLoad
<1>3. /\ stays \in Tab /\ stays.conv = tab.conv /\ stays.isHydrating = FALSE /\ stays.isBusy = FALSE
      /\ stays.editing = 0 /\ stays.isPersisted = tab.isPersisted /\ stays.isLoaded = TRUE
  BY <1>2 DEF Tab
<1> HIDE DEF stays
<1>4. TabOK(stays)
  <2>1. 0 <= Len(tab.conv.messages)
    BY <1>2, LenProperties DEF TabOK, Settled
  <2> QED
    BY <1>2, <1>3, <2>1 DEF TabOK
<1>5. TabOK(next) /\ ~next.isBusy /\ ~next.isHydrating /\ next.conv.id \in {tab.conv.id, None}
  BY <1>3, <1>4, NewTabIsOK DEF EmptyTab
<1> HIDE DEF next
<1> QED
  BY <1>1, <1>5, EndKeepsInv

\* Hydration keeps the invariant.
LEMMA HydratedKeepsInv ==
    ASSUME Inv, NEW l \in loads, LoadHydrated(l)
    PROVE  Inv'
<1> DEFINE t == l.tab
           tab == page.tab[t]
           conv == [id |-> l.conv, title |-> l.found.title, messages |-> l.found.messages]
           next == [tab EXCEPT !.conv = conv,
                               !.isPersisted = TRUE, !.isLoaded = TRUE, !.isBusy = FALSE,
                               !.isHydrating = TRUE, !.locked = @ /\ l.kind = "restore", !.editing = 0]
           q == UpdateTab(page, t, next, FreshTab)
<1> PICK n : n = [l EXCEPT !.phase = "paint", !.found = None]
  OBVIOUS
<1>1. /\ IsCurrent(l) /\ l.phase = "hydrate" /\ FreshTabs # {}
      /\ loads' = (loads \ {l}) \cup {n}
      /\ Commit(q, version, requests) /\ UNCHANGED <<saves, store, disk, restarts>>
  BY DEF LoadHydrated, Advance
<1>2. /\ t \in Open(page) /\ t \in TabIds /\ l.version = version[t] /\ ~tab.isBusy /\ tab \in Tab
      /\ TabOK(tab) /\ RequestOK(tab, requests[t]) /\ t # renaming /\ Normal(page) /\ OpenOnce
      /\ version \in [TabIds -> Nat] /\ LatestOK(l) /\ l \in Load /\ l.conv \in ConvIds /\ l.conv # None
  BY <1>1, CurrentLoad, OneTabLoads, NoneAssumption DEF Inv, PageInv
<1>3. FileOK(l.found) /\ \A u \in Open(page) \ {t} : page.tab[u].conv.id # l.conv
  <2>1. l.kind = "restore" \/ l.kind = "open"
    BY <1>2 DEF Load
  <2> QED
    BY <1>1, <1>2, <2>1 DEF LatestOK, OpenOnce
<1>4. conv \in Conversation /\ conv.id = l.conv /\ conv.messages = l.found.messages
      /\ Settled(conv.messages)
  BY <1>2, <1>3 DEF FileOK, File, Conversation
<1> HIDE DEF conv
<1>5. /\ next \in Tab /\ next.conv = conv /\ next.isPersisted = TRUE /\ next.isLoaded = TRUE
      /\ next.isBusy = FALSE /\ next.isHydrating = TRUE /\ next.editing = 0
  BY <1>2, <1>4 DEF Tab
<1> HIDE DEF next
<1>6. TabOK(next) /\ RequestOK(next, requests[t])
  <2>1. 0 <= Len(conv.messages)
    BY <1>4, LenProperties DEF Settled
  <2> QED
    BY <1>2, <1>4, <1>5, <2>1 DEF TabOK, RequestOK
<1>7. Becomes(q, t, next)
  BY <1>1, <1>2, <1>5, UpdateBecomes
<1> HIDE DEF q
<1>8. PageInv'
  BY <1>1, <1>2, <1>3, <1>4, <1>5, <1>6, <1>7, TabsStay
<1>9. n \in Load /\ n.tab = t /\ n.version = l.version /\ n.phase = "paint" /\ n.conv = l.conv
  BY <1>2 DEF Load
<1>10. LoadInv'
  <2>1. \A m \in loads' : /\ m \in Load /\ m.tab = t /\ m.version \in 1..version[t]
                          /\ m.version = version[t] => m = n
    <3> SUFFICES ASSUME NEW m \in loads \ {l}
                 PROVE  m \in Load /\ m.tab = t /\ m.version # version[t] /\ m.version \in 1..version[t]
      <4>1. l.version >= 1 /\ l.version \in Nat
        BY <1>2 DEF Inv, LoadInv, Load
      <4>2. n.version = version[t] /\ n.version \in 1..version[t]
        BY <1>2, <1>9, <4>1
      <4>3. \A m \in loads' : m = n \/ m \in loads \ {l}
        BY <1>1
      <4> QED
        BY <1>9, <4>2, <4>3
    <3>2. m \in Load /\ m.version \in Nat /\ m.tab = t /\ m.version # l.version
      BY OneTabLoads
    <3>3. m.version >= 1 /\ m.version <= version[t]
      BY <1>2, <3>2 DEF Inv, LoadInv
    <3> QED
      BY <1>2, <3>2, <3>3
  <2>2. LatestInv'
    <3> SUFFICES ASSUME NEW m \in loads', Latest(m)' PROVE LatestOK(m)'
      BY DEF LatestInv
    <3>1. m = n /\ t \in Open(q) /\ page' = q
      BY <1>1, <1>2, <2>1 DEF Latest, Commit
    <3>2. page'.tab[m.tab] = next
      BY <1>7, <1>9, <3>1 DEF Becomes
    <3> QED
      BY <1>4, <1>5, <1>9, <3>1, <3>2 DEF LatestOK
  <2>3. \A m \in loads' : m.tab = t /\ m.version \in 1..version[t]
    BY <2>1
  <2>4. \A m, k \in loads' : m.version = k.version => m = k
    <3>1. \A m \in loads : m.version = l.version => m = l
      BY OneTabLoads
    <3>2. \A m, k \in loads : m.version = k.version => m = k
      BY OneTabLoads
    <3>3. \A m \in loads' : m = n \/ (m \in loads /\ m # l)
      BY <1>1
    <3> QED
      BY <1>9, <3>1, <3>2, <3>3
  <2>5. \A u \in Open(page) \ {t} : ~page.tab[u].isHydrating
    BY OneTabLoads
  <2>6. loads' \in SUBSET Load
    BY <2>1
  <2>7. t \in Open(q) /\ next.isHydrating => \E m \in loads' : m.version = version[t]
    BY <1>1, <1>2, <1>9
  <2> QED
    BY <1>1, <1>2, <1>7, <2>2, <2>3, <2>4, <2>5, <2>6, <2>7, LoadsChange
<1> QED
  BY <1>1, <1>8, <1>10, KeptStays DEF Inv

\* The answer of the store keeps the invariant.
LEMMA FetchedKeepsInv ==
    ASSUME Inv, NEW l \in loads, LoadFetched(l)
    PROVE  Inv'
<1> PICK n : n = [l EXCEPT !.phase = "hydrate", !.found = store[l.conv]]
  OBVIOUS
<1>1. /\ IsCurrent(l) /\ l.phase = "fetch" /\ store[l.conv] # None /\ store[l.conv].title = l.title
      /\ loads' = (loads \ {l}) \cup {n}
      /\ UNCHANGED <<page, requests, version, saves, store, disk, renaming, restarts>>
  BY DEF LoadFetched, Advance
<1>2. l \in Load /\ l.conv \in ConvIds /\ LatestOK(l) /\ LoadInv /\ FileOK(store[l.conv])
      /\ \A m \in loads : m.tab = l.tab /\ (m.version = l.version => m = l)
  BY <1>1, CurrentLoad, OneTabLoads DEF Inv, Kept
<1>3. /\ n \in Load /\ n.tab = l.tab /\ n.version = l.version /\ n.kind = l.kind /\ n.conv = l.conv
      /\ n.title = l.title /\ n.phase = "hydrate" /\ n.found = store[l.conv]
  BY <1>2 DEF Load, FileOK
<1>4. PageInv'
  BY <1>1 DEF Inv, PageInv, TabInv, ClosedInv, OpenOnce, RenameInv
<1>5. LatestInv'
  <2> SUFFICES ASSUME NEW m \in loads', Latest(m)' PROVE LatestOK(m)'
    BY DEF LatestInv
  <2>1. m.tab \in Open(page) /\ version[m.tab] = m.version
    BY <1>1 DEF Latest
  <2>2. CASE m = n
    BY <1>1, <1>2, <1>3, <2>2 DEF LatestOK
  <2>3. CASE m # n
    <3>1. m \in loads /\ LatestOK(m)
      BY <1>1, <1>2, <2>1, <2>3 DEF LoadInv, LatestInv, Latest
    <3> QED
      BY <1>1, <3>1 DEF LatestOK
  <2> QED
    BY <2>2, <2>3
<1>6. \A u \in Open(page) : page.tab[u].isHydrating => \E m \in loads' : m.tab = u /\ Latest(m)'
  <2> SUFFICES ASSUME NEW u \in Open(page), page.tab[u].isHydrating
               PROVE  \E m \in loads' : m.tab = u /\ Latest(m)'
    OBVIOUS
  <2>1. PICK k \in loads : k.tab = u /\ Latest(k)
    BY <1>2 DEF LoadInv
  <2>2. n \in loads' /\ n.tab = u /\ version[u] = n.version
    BY <1>1, <1>2, <1>3, <2>1, CurrentLoad DEF Latest
  <2> QED
    BY <1>1, <2>2 DEF Latest
<1>7. /\ loads' \in SUBSET Load
      /\ \A m \in loads' : m.version >= 1 /\ (m.tab \in Open(page) => m.version <= version[m.tab])
      /\ \A m, k \in loads' : m.tab = k.tab /\ (m.version = k.version => m = k)
  <2>1. \A m \in loads' : m = n \/ (m \in loads /\ m # l)
    BY <1>1
  <2>2. /\ loads \in SUBSET Load
        /\ \A m \in loads : m.version >= 1 /\ (m.tab \in Open(page) => m.version <= version[m.tab])
        /\ \A m, k \in loads : m.tab = k.tab /\ (m.version = k.version => m = k)
    BY <1>2 DEF LoadInv
  <2>3. \A m \in loads' : m \in Load /\ m.version >= 1
                           /\ (m.tab \in Open(page) => m.version <= version[m.tab])
    <3> SUFFICES ASSUME NEW m \in loads'
                 PROVE  m \in Load /\ m.version >= 1
                        /\ (m.tab \in Open(page) => m.version <= version[m.tab])
      OBVIOUS
    <3>1. CASE m = n
      <4>1. l.version >= 1 /\ (l.tab \in Open(page) => l.version <= version[l.tab])
        BY <2>2
      <4> QED
        BY <1>3, <3>1, <4>1
    <3>2. CASE m # n
      <4>1. m \in loads
        BY <2>1, <3>2
      <4> QED
        BY <2>2, <4>1
    <3> QED
      BY <3>1, <3>2
  <2>4. \A m, k \in loads' : m.tab = k.tab /\ (m.version = k.version => m = k)
    <3>1. \A m \in loads' : m.tab = l.tab
      BY <1>2, <1>3, <2>1
    <3>2. \A m \in loads' : m # n => m \in loads /\ m.version # n.version
      BY <1>2, <1>3, <2>1
    <3>3. \A m, k \in loads' : m # n /\ k # n => (m.version = k.version => m = k)
      BY <2>2, <3>2
    <3> QED
      BY <3>1, <3>2, <3>3
  <2> QED
    BY <2>3, <2>4
<1>8. LoadInv'
  BY <1>1, <1>5, <1>6, <1>7 DEF LoadInv
<1> QED
  BY <1>1, <1>4, <1>8, KeptStays DEF Inv

\* A superseded load that ends keeps the invariant.
LEMMA DroppedKeepsInv ==
    ASSUME Inv, NEW l \in loads, LoadDropped(l)
    PROVE  Inv'
<1>1. /\ ~Latest(l) /\ loads' = loads \ {l} /\ version' = AfterLoad(l)
      /\ UNCHANGED <<page, requests, saves, store, disk, renaming, restarts>>
  BY LatestIsCurrent DEF LoadDropped
<1>2. /\ version' \in [TabIds -> Nat] /\ (loads' # {} => version' = version)
      /\ \A t \in TabIds \ {l.tab} : version'[t] = version[t]
  BY <1>1, AfterLoadType
<1>3. LoadInv /\ PageInv
  BY DEF Inv
<1>4. PageInv'
  <2>1. ClosedInv'
    <3> SUFFICES ASSUME NEW t \in TabIds \ Open(page) PROVE version'[t] = 0
      BY <1>1, <1>3 DEF PageInv, ClosedInv
    <3>1. version[t] = 0
      BY <1>3 DEF PageInv, ClosedInv
    <3>2. version'[t] = version[t] \/ version'[t] = 0
      BY <1>1, <1>3 DEF AfterLoad, PageInv
    <3> QED
      BY <3>1, <3>2
  <2> QED
    BY <1>1, <1>2, <1>3, <2>1 DEF PageInv, TabInv, OpenOnce, RenameInv
<1>5. LatestInv'
  <2> SUFFICES ASSUME NEW m \in loads', Latest(m)' PROVE LatestOK(m)'
    BY DEF LatestInv
  <2>1. m \in loads /\ Latest(m)
    BY <1>1, <1>2 DEF Latest
  <2>2. LatestOK(m)
    BY <1>3, <2>1 DEF LoadInv, LatestInv
  <2> QED
    BY <1>1, <2>2 DEF LatestOK
<1>6. \A u \in Open(page) : page.tab[u].isHydrating => \E m \in loads' : m.tab = u /\ Latest(m)'
  <2> SUFFICES ASSUME NEW u \in Open(page), page.tab[u].isHydrating
               PROVE  \E m \in loads' : m.tab = u /\ Latest(m)'
    OBVIOUS
  <2>1. PICK k \in loads : k.tab = u /\ Latest(k)
    BY <1>3 DEF LoadInv
  <2>2. k \in loads'
    BY <1>1, <2>1
  <2> QED
    BY <1>1, <1>2, <2>1, <2>2 DEF Latest
<1>7. LoadInv'
  BY <1>1, <1>2, <1>3, <1>5, <1>6 DEF LoadInv
<1> QED
  BY <1>1, <1>4, <1>7, KeptStays DEF Inv

-----------------------------------------------------------------------------
(***************************************************************************)
(* Saves, browser storage and restarts.                                    *)
(***************************************************************************)
\* A save under way ends: neither the page nor a load sees it, but for the file.
LEMMA SaveKeepsInv ==
    ASSUME Inv, NEW t \in TabIds, SaveStep(t)
    PROVE  Inv'
<1> DEFINE conv == Head(saves[t]).conv
<1>1. /\ saves[t] # <<>> /\ saves' = [saves EXCEPT ![t] = Tail(@)]
      /\ UNCHANGED <<page, requests, loads, version, disk, renaming, restarts>>
      /\ \/ store' = store
         \/ store' = [store EXCEPT ![conv.id] = [title |-> conv.title, messages |-> conv.messages]]
         \/ /\ store[conv.id] # None
            /\ store' = [store EXCEPT ![conv.id].messages = conv.messages]
  BY DEF SaveStep, PutConversation, PutMessages, SaveRefused, FileOf
<1>2. /\ store \in [ConvIds -> File \cup {None}] /\ \A c \in ConvIds : store[c] # None => FileOK(store[c])
      /\ saves \in [TabIds -> Seq(Save)]
      /\ \A u \in TabIds : \A i \in DOMAIN saves[u] : SaveOK(saves[u][i])
  BY DEF Inv, Kept
<1>3. SaveOK(Head(saves[t])) /\ conv \in Conversation /\ conv.id \in ConvIds /\ Settled(conv.messages)
  <2>1. saves[t] \in Seq(Save) /\ 1 \in DOMAIN saves[t]
    BY <1>1, <1>2, LenProperties, EmptySeq
  <2>2. SaveOK(saves[t][1]) /\ Head(saves[t]) = saves[t][1]
    BY <1>2, <2>1
  <2> HIDE DEF conv
  <2>3. SaveOK(Head(saves[t]))
    BY <2>2
  <2> QED
    BY <2>3 DEF conv, SaveOK, Save, Conversation
<1> HIDE DEF conv
<1>4. /\ saves' \in [TabIds -> Seq(Save)]
      /\ \A u \in TabIds : \A i \in DOMAIN saves'[u] : SaveOK(saves'[u][i])
  <2> DEFINE queue == Tail(saves[t])
  <2>1. /\ saves[t] \in Seq(Save) /\ queue \in Seq(Save) /\ Len(queue) = Len(saves[t]) - 1
        /\ \A i \in 1..Len(queue) : queue[i] = saves[t][i + 1]
    BY <1>1, <1>2, HeadTailProperties
  <2>2. saves' = [saves EXCEPT ![t] = queue]
    BY <1>1
  <2> HIDE DEF queue
  <2>3. \A i \in DOMAIN queue : SaveOK(queue[i])
    <3> SUFFICES ASSUME NEW i \in DOMAIN queue PROVE SaveOK(queue[i])
      OBVIOUS
    <3>1. i \in 1..Len(queue) /\ i + 1 \in DOMAIN saves[t]
      BY <2>1, LenProperties
    <3> QED
      BY <1>2, <2>1, <3>1
  <2> QED
    BY <1>2, <2>1, <2>2, <2>3
<1>5. /\ store' \in [ConvIds -> File \cup {None}]
      /\ \A c \in ConvIds : /\ store'[c] # None => FileOK(store'[c])
                            /\ store[c] # None => store'[c] # None
  <2>1. CASE store' = store
    BY <1>2, <2>1
  <2>2. ASSUME NEW file, FileOK(file), store' = [store EXCEPT ![conv.id] = file]
        PROVE  <1>5
    BY <1>2, <1>3, <2>2, NoneAssumption DEF FileOK
  <2>3. CASE store' = [store EXCEPT ![conv.id] = [title |-> conv.title, messages |-> conv.messages]]
    <3>1. FileOK([title |-> conv.title, messages |-> conv.messages])
      BY <1>3 DEF FileOK, File, Conversation
    <3> QED
      BY <2>2, <2>3, <3>1
  <2>4. CASE store[conv.id] # None /\ store' = [store EXCEPT ![conv.id].messages = conv.messages]
    <3>1. FileOK([store[conv.id] EXCEPT !.messages = conv.messages])
      BY <1>2, <1>3, <2>4 DEF FileOK, File, Conversation
    <3>2. store' = [store EXCEPT ![conv.id] = [store[conv.id] EXCEPT !.messages = conv.messages]]
      BY <1>2, <1>3, <2>4
    <3> QED
      BY <2>2, <3>1, <3>2
  <2> QED
    BY <1>1, <2>1, <2>3, <2>4
<1>6. PageInv'
  BY <1>1 DEF Inv, PageInv, TabInv, ClosedInv, OpenOnce, RenameInv
<1>7. LoadInv'
  <2>1. LoadInv
    BY DEF Inv
  <2>2. ASSUME NEW l \in loads, Latest(l) PROVE LatestOK(l)'
    <3>1. LatestOK(l) /\ l.conv \in ConvIds
      BY <2>1, <2>2 DEF LoadInv, LatestInv, Load
    <3> QED
      BY <1>1, <1>5, <3>1 DEF LatestOK
  <2>3. LatestInv'
    BY <1>1, <2>2 DEF LatestInv, Latest
  <2> QED
    BY <1>1, <2>1, <2>3 DEF LoadInv, Latest
<1>8. Kept'
  BY <1>1, <1>4, <1>5 DEF Inv, Kept
<1> QED
  BY <1>6, <1>7, <1>8 DEF Inv

\* Writing the bar to the browser's storage keeps the invariant.
LEMMA PersistKeepsInv ==
    ASSUME Inv, PersistNow
    PROVE  Inv'
<1>1. /\ disk' = Snapshot
      /\ UNCHANGED <<page, requests, loads, version, saves, store, renaming, restarts>>
  BY DEF PersistNow
<1>2. /\ page \in Page /\ page.order \in Seq(TabIds) /\ page.order # <<>> /\ IsInjective(page.order)
      /\ Len(page.order) <= MaxTabs /\ Range(page.lastActive) \subseteq Open(page)
      /\ page.lastActive \in Seq(TabIds) /\ page.selected \in TabIds
      /\ TabInv /\ OpenOnce
  BY DEF Inv, PageInv, Normal, WellFormed, Page
<1> DEFINE saved(i) == [tab |-> page.order[i], conv |-> page.tab[page.order[i]].conv.id,
                        title |-> page.tab[page.order[i]].conv.title,
                        isPersisted |-> page.tab[page.order[i]].isPersisted,
                        locked |-> page.tab[page.order[i]].locked]
           tabs == [i \in DOMAIN page.order |-> saved(i)]
<1>3. DOMAIN page.order = 1..Len(page.order) /\ Len(page.order) \in Nat
      /\ \A i \in DOMAIN page.order : page.order[i] \in Open(page) /\ page.order[i] \in TabIds
  BY <1>2, LenProperties, ElementOfSeq DEF Open, Range
<1>4. Snapshot = [selected |-> page.selected, lastActive |-> page.lastActive, tabs |-> tabs]
  BY DEF Snapshot
<1>5. \A i \in DOMAIN page.order : SavedTabOK(saved(i))
  <2> SUFFICES ASSUME NEW i \in DOMAIN page.order PROVE SavedTabOK(saved(i))
    OBVIOUS
  <2>1. TabOK(page.tab[page.order[i]]) /\ page.order[i] \in TabIds
    BY <1>2, <1>3 DEF TabInv
  <2>2. page.tab[page.order[i]] \in Tab /\ (page.tab[page.order[i]].isPersisted
                                             <=> page.tab[page.order[i]].conv.id # None)
    BY <2>1 DEF TabOK
  <2> QED
    BY <2>1, <2>2 DEF SavedTabOK, SavedTab, Tab, Conversation
<1>6. \A i \in DOMAIN page.order : tabs[i] = saved(i)
  OBVIOUS
<1>7. \A i, j \in DOMAIN page.order :
        i # j => /\ saved(i).tab # saved(j).tab
                 /\ saved(i).conv # None => saved(i).conv # saved(j).conv
  <2>1. \A i, j \in DOMAIN page.order : i # j => page.order[i] # page.order[j]
    BY <1>2 DEF IsInjective
  <2> QED
    BY <1>2, <1>3, <2>1 DEF OpenOnce
<1>8. \A t \in Open(page) : \E i \in DOMAIN page.order : saved(i).tab = t
  BY DEF Open, Range
<1>9. tabs \in Seq(SavedTab) /\ DOMAIN tabs = DOMAIN page.order
      /\ Len(tabs) = Len(page.order) /\ tabs # <<>>
  <2>1. \A i \in DOMAIN page.order : saved(i) \in SavedTab
    BY <1>5 DEF SavedTabOK
  <2> HIDE DEF saved
  <2>2. tabs \in [1..Len(page.order) -> SavedTab]
    BY <1>3, <2>1
  <2>3. tabs \in Seq(SavedTab) /\ DOMAIN tabs = 1..Len(page.order)
    BY <1>3, <2>2, SeqDef
  <2> HIDE DEF tabs
  <2>4. DOMAIN tabs = 1..Len(tabs) /\ Len(tabs) \in Nat
    BY <2>3, LenProperties
  <2>5. Len(tabs) = Len(page.order)
    BY <1>3, <2>3, <2>4
  <2> QED
    BY <1>2, <1>3, <2>3, <2>5, EmptySeq
<1> HIDE DEF saved, tabs
<1>10. BrowserOK(Snapshot)
  <2>1. Snapshot \in Browser
    BY <1>2, <1>4, <1>9 DEF Browser
  <2>2. Snapshot.tabs = tabs /\ Snapshot.lastActive = page.lastActive
    BY <1>4
  <2> QED
    BY <1>2, <1>5, <1>6, <1>7, <1>8, <1>9, <2>1, <2>2 DEF BrowserOK
<1>11. Kept'
  BY <1>1, <1>10 DEF Inv, Kept
<1>12. PageInv' /\ LoadInv'
  BY <1>1 DEF Inv, PageInv, TabInv, ClosedInv, OpenOnce, RenameInv, LoadInv, LatestInv, Latest, LatestOK
<1> QED
  BY <1>11, <1>12 DEF Inv

\* The page a window opens with: a new one, or what browser storage holds.
LEMMA FirstPage ==
    ASSUME NEW fresh
    PROVE  LET p == InitialPage(None, fresh)
           IN  Normal(p) /\ \A t \in Open(p) : p.tab[t] = EmptyTab
<1> DEFINE p == [order |-> <<1>>, tab |-> [t \in TabIds |-> IF t = 1 THEN EmptyTab ELSE None],
                 selected |-> 1, lastActive |-> <<1>>]
<1>1. InitialPage(None, fresh) = p
  BY DEF InitialPage
<1>2. 1 \in TabIds /\ MaxTabs \in Nat /\ MaxTabs >= 1 /\ EmptyTab \in Tab /\ EmptyTab # None
  BY BoundsAssumption, EmptyTabIsATab
<1>3. /\ p.order = <<1>> /\ p.selected = 1 /\ p.lastActive = <<1>>
      /\ p.tab = [t \in TabIds |-> IF t = 1 THEN EmptyTab ELSE None] /\ p \in Page
  <2>1. <<1>> \in Seq(TabIds)
    BY <1>2
  <2> QED
    BY <1>2, <2>1 DEF Page
<1> HIDE DEF p
<1>4. Range(<<1>>) = {1} /\ IsInjective(<<1>>) /\ Last(<<1>>) = 1 /\ Len(<<1>>) = 1 /\ <<1>> # <<>>
  BY DEF Range, IsInjective, Last
<1>5. Open(p) = {1}
  BY <1>3, <1>4 DEF Open
<1>6. WellFormed(p)
  BY <1>2, <1>3, <1>4, <1>5 DEF WellFormed
<1>7. Scratches(p) = <<1>>
  <2>1. Scratches(p) \in Seq(TabIds) /\ IsInjective(Scratches(p)) /\ Range(Scratches(p)) = {1}
    BY <1>2, <1>3, <1>5, <1>6, ScratchTabs, EmptyTabIsATab
  <2> QED
    BY <2>1, Single
<1> QED
  BY <1>1, <1>2, <1>3, <1>4, <1>5, <1>6, <1>7 DEF Normal

\* buildNormalizedInitialModel gives a normal page of restored tabs and one empty tab.
LEMMA RestoredPage ==
    ASSUME NEW d, d # None, BrowserOK(d), NEW fresh \in TabIds,
           \A i \in DOMAIN d.tabs : d.tabs[i].tab # fresh
    PROVE  LET p == InitialPage(d, fresh)
           IN  /\ Normal(p)
               /\ \A t \in Open(p) : p.tab[t] = EmptyTab \/ \E i \in DOMAIN d.tabs :
                    d.tabs[i].tab = t /\ p.tab[t] = RestoredTab(d.tabs[i])
<1> DEFINE place(t) == CHOOSE i \in DOMAIN d.tabs : d.tabs[i].tab = t
           order == [i \in DOMAIN d.tabs |-> d.tabs[i].tab]
           selected == IF d.selected \in Range(order) THEN d.selected ELSE order[1]
           tabs == [t \in TabIds |-> IF t \in Range(order) THEN RestoredTab(d.tabs[place(t)]) ELSE None]
           r == [order |-> order, tab |-> tabs, selected |-> selected,
                 lastActive |-> Touch(d.lastActive, selected)]
           p == NormalizeAndCommit(r, fresh, None)
<1>1. InitialPage(d, fresh) = p
  BY DEF InitialPage
<1>2. /\ d \in Browser /\ d.tabs \in Seq(SavedTab) /\ d.lastActive \in Seq(TabIds)
      /\ d.tabs # <<>> /\ Len(d.tabs) <= MaxTabs
      /\ DOMAIN d.tabs = 1..Len(d.tabs) /\ Len(d.tabs) \in Nat /\ 1 \in DOMAIN d.tabs
      /\ \A i \in DOMAIN d.tabs : SavedTabOK(d.tabs[i]) /\ d.tabs[i].tab \in TabIds
      /\ \A i, j \in DOMAIN d.tabs : i # j => d.tabs[i].tab # d.tabs[j].tab
      /\ \A t \in Range(d.lastActive) : \E i \in DOMAIN d.tabs : d.tabs[i].tab = t
  <2>1. d \in Browser /\ d.tabs \in Seq(SavedTab) /\ d.lastActive \in Seq(TabIds)
    BY DEF BrowserOK, Browser
  <2>2. DOMAIN d.tabs = 1..Len(d.tabs) /\ Len(d.tabs) \in Nat /\ Len(d.tabs) # 0
    BY <2>1, LenProperties, EmptySeq DEF BrowserOK
  <2> QED
    BY <2>1, <2>2 DEF BrowserOK, SavedTabOK, SavedTab
<1>3. /\ order \in Seq(TabIds) /\ IsInjective(order) /\ Len(order) <= MaxTabs /\ order[1] \in Range(order)
      /\ \A i \in DOMAIN d.tabs : d.tabs[i].tab \in Range(order)
      /\ \A t \in Range(order) : \E i \in DOMAIN d.tabs : d.tabs[i].tab = t
  <2>1. order \in [1..Len(d.tabs) -> TabIds]
    BY <1>2
  <2>2. order \in Seq(TabIds)
    BY <1>2, <2>1, SeqDef
  <2>3. IsInjective(order)
    BY <1>2 DEF IsInjective
  <2>4. \A i \in DOMAIN d.tabs : i \in DOMAIN order /\ order[i] = d.tabs[i].tab
    OBVIOUS
  <2>5. DOMAIN order = 1..Len(d.tabs)
    BY <1>2
  <2> HIDE DEF order
  <2>6. DOMAIN order = 1..Len(order) /\ Len(order) \in Nat
    BY <2>2, LenProperties
  <2>7. Len(order) = Len(d.tabs)
    BY <1>2, <2>5, <2>6
  <2>8. /\ order[1] \in Range(order)
        /\ \A i \in DOMAIN d.tabs : d.tabs[i].tab \in Range(order)
        /\ \A t \in Range(order) : \E i \in DOMAIN d.tabs : d.tabs[i].tab = t
    BY <1>2, <2>4, <2>5 DEF Range
  <2> QED
    BY <1>2, <2>2, <2>3, <2>7, <2>8
<1> HIDE DEF order
<1>4. Range(order) \subseteq TabIds
  BY <1>3, LastOf
<1>5. \A t \in Range(order) : place(t) \in DOMAIN d.tabs /\ d.tabs[place(t)].tab = t
  BY <1>3
<1> HIDE DEF place
<1>6. selected \in Range(order) /\ selected \in TabIds
  BY <1>3, <1>4
<1> HIDE DEF selected
<1>7. \A i \in DOMAIN d.tabs : RestoredTab(d.tabs[i]) \in Tab /\ RestoredTab(d.tabs[i]) # None
  <2> SUFFICES ASSUME NEW i \in DOMAIN d.tabs PROVE RestoredTab(d.tabs[i]) \in Tab
    BY NoneAssumption
  <2>1. d.tabs[i] \in SavedTab
    BY <1>2 DEF SavedTabOK
  <2>2. EmptyTab \in Tab /\ <<>> \in Seq(Message)
    BY EmptyTabIsATab, EmptySeq
  <2> DEFINE s == d.tabs[i]
  <2> HIDE DEF s
  <2>3. s \in SavedTab
    BY <2>1 DEF s
  <2>4. /\ s.conv \in ConvIds \cup {None} /\ s.title \in Titles
        /\ s.isPersisted \in BOOLEAN /\ s.locked \in BOOLEAN
    BY <2>3 DEF SavedTab
  <2>5. [id |-> IF s.isPersisted THEN s.conv ELSE None, title |-> s.title, messages |-> <<>>]
          \in Conversation
    BY <2>2, <2>4 DEF Conversation
  <2>6. RestoredTab(s) \in Tab
    BY <2>2, <2>4, <2>5 DEF RestoredTab, Tab
  <2> QED
    BY <2>6 DEF s
<1>8. \A t \in TabIds : tabs[t] \in Tab \cup {None} /\ (tabs[t] # None <=> t \in Range(order))
  BY <1>5, <1>7
<1>9. Touch(d.lastActive, selected) \in Seq(TabIds)
      /\ Range(Touch(d.lastActive, selected)) \subseteq Range(order)
  <2>1. Range(d.lastActive) \subseteq Range(order)
    BY <1>2, <1>3
  <2>2. \A x \in TabIds : /\ Touch(d.lastActive, x) \in Seq(TabIds)
                          /\ Range(Touch(d.lastActive, x)) = Range(d.lastActive) \cup {x}
    <3>1. d.lastActive \in Seq(TabIds)
      BY <1>2
    <3> DEFINE s == d.lastActive
    <3> HIDE DEF s
    <3>2. \A x \in TabIds : Touch(s, x) \in Seq(TabIds) /\ Range(Touch(s, x)) = Range(s) \cup {x}
      BY <3>1, Touched DEF s
    <3> QED
      BY <3>2 DEF s
  <2> QED
    BY <1>6, <2>1, <2>2
<1>10. tabs \in [TabIds -> Tab \cup {None}]
  BY <1>8
<1>11. \A t \in Range(order) : tabs[t] = RestoredTab(d.tabs[place(t)])
  BY <1>4
<1> HIDE DEF tabs
<1>12. /\ r \in Page /\ r.order = order /\ r.tab = tabs /\ r.selected = selected
       /\ r.lastActive = Touch(d.lastActive, selected)
  BY <1>3, <1>6, <1>9, <1>10 DEF Page
<1> HIDE DEF r
<1>13. Open(r) = Range(order) /\ WellFormed(r)
  BY <1>3, <1>8, <1>9, <1>12 DEF Open, WellFormed
<1>14. fresh \in TabIds \ Open(r)
  BY <1>3, <1>13
<1>15. Normal(p) /\ \A t \in Open(p) : p.tab[t] = IF t \in Open(r) THEN r.tab[t] ELSE EmptyTab
  BY <1>13, <1>14, Normalizes
<1> HIDE DEF p
<1>16. \A t \in Open(p) : p.tab[t] = EmptyTab \/ \E i \in DOMAIN d.tabs :
                    d.tabs[i].tab = t /\ p.tab[t] = RestoredTab(d.tabs[i])
  BY <1>5, <1>11, <1>12, <1>13, <1>15
<1> QED
  BY <1>1, <1>15, <1>16

\* A restart, which leaves only the store and the browser's storage, keeps the invariant.
LEMMA RestartKeepsInv ==
    ASSUME Inv, Restart
    PROVE  Inv'
<1>1. /\ page' = InitialPage(disk, FreshTab) /\ FreshTabs # {}
      /\ requests' = [t \in TabIds |-> None] /\ loads' = {}
      /\ version' = [t \in TabIds |-> 0] /\ saves' = [t \in TabIds |-> <<>>]
      /\ renaming' = None /\ restarts' = restarts + 1 /\ restarts < MaxRestarts
      /\ disk' \in {disk, None} /\ store' = store
  BY DEF Restart
<1>2. FreshTab \in FreshTabs /\ FreshTab \in TabIds /\ Kept
  BY <1>1, FreshTabIsFresh DEF Inv
<1>3. Normal(page') /\ \A t \in Open(page') :
        \/ page'.tab[t] = EmptyTab
        \/ disk # None /\ \E i \in DOMAIN disk.tabs :
             disk.tabs[i].tab = t /\ page'.tab[t] = RestoredTab(disk.tabs[i])
  <2>1. CASE disk = None
    BY <1>1, <2>1, FirstPage
  <2>2. CASE disk # None
    <3>1. BrowserOK(disk) /\ \A i \in DOMAIN disk.tabs : disk.tabs[i].tab # FreshTab
      BY <1>2, <2>2 DEF Kept, FreshTabs
    <3> QED
      BY <1>1, <1>2, <2>2, <3>1, RestoredPage
  <2> QED
    BY <2>1, <2>2
<1>4. Open(page') \subseteq TabIds
  BY <1>3, ScratchIsLast
<1>5. disk # None =>
        /\ \A i \in DOMAIN disk.tabs : SavedTabOK(disk.tabs[i])
        /\ \A i, j \in DOMAIN disk.tabs :
             disk.tabs[i].conv # None /\ disk.tabs[i].conv = disk.tabs[j].conv => i = j
  BY <1>2 DEF Kept, BrowserOK
<1>6. ASSUME NEW d, SavedTabOK(d)
      PROVE  LET tab == RestoredTab(d)
             IN  TabOK(tab) /\ RequestOK(tab, None) /\ ~tab.isHydrating /\ tab.conv.id = d.conv
  <2> DEFINE tab == RestoredTab(d)
  <2>1. d \in SavedTab /\ (d.isPersisted <=> d.conv # None)
    BY <1>6 DEF SavedTabOK
  <2>2. /\ EmptyTab \in Tab /\ <<>> \in Seq(Message) /\ Len(<<>>) = 0 /\ Settled(<<>>)
        /\ EmptyTab.isBusy = FALSE /\ EmptyTab.isHydrating = FALSE /\ EmptyTab.editing = 0
    <3>1. EmptyTab.conv.messages = <<>> /\ ~EmptyTab.isBusy
      BY DEF EmptyTab
    <3> QED
      BY <3>1, EmptyTabIsATab, NewTabIsOK, EmptySeq DEF TabOK, EmptyTab
  <2>3. /\ tab \in Tab /\ tab.conv.id = (IF d.isPersisted THEN d.conv ELSE None)
        /\ tab.conv.messages = <<>> /\ tab.isPersisted = d.isPersisted
        /\ tab.isBusy = FALSE /\ tab.isHydrating = FALSE /\ tab.editing = 0
    BY <2>1, <2>2 DEF RestoredTab, SavedTab, Tab, Conversation
  <2> HIDE DEF tab
  <2>4. tab.conv.id = d.conv
    BY <2>1, <2>3
  <2>5. TabOK(tab) /\ RequestOK(tab, None)
    BY <2>1, <2>2, <2>3, <2>4 DEF TabOK, RequestOK
  <2> QED
    BY <2>3, <2>4, <2>5 DEF tab
<1>7. \A t \in Open(page') : /\ TabOK(page'.tab[t]) /\ RequestOK(page'.tab[t], None)
                             /\ ~page'.tab[t].isHydrating
  BY <1>3, <1>5, <1>6, NewTabIsOK
<1>8. OpenOnce'
  <2> SUFFICES ASSUME NEW t \in Open(page'), NEW u \in Open(page'), t # u,
                      page'.tab[t].conv.id # None
               PROVE  page'.tab[t].conv.id # page'.tab[u].conv.id
    BY DEF OpenOnce
  <2>1. PICK i \in DOMAIN disk.tabs :
          disk.tabs[i].tab = t /\ page'.tab[t].conv.id = disk.tabs[i].conv /\ disk # None
    BY <1>3, <1>5, <1>6, NewTabIsOK
  <2>2. CASE page'.tab[u] = EmptyTab
    BY <2>2, NewTabIsOK
  <2>3. CASE page'.tab[u] # EmptyTab
    <3>1. PICK j \in DOMAIN disk.tabs :
            disk.tabs[j].tab = u /\ page'.tab[u].conv.id = disk.tabs[j].conv
      BY <1>3, <1>5, <1>6, <2>3
    <3> QED
      BY <1>5, <2>1, <3>1
  <2> QED
    BY <2>2, <2>3
<1>9. PageInv'
  <2>1. DOMAIN requests' = TabIds /\ version' \in [TabIds -> Nat]
    BY <1>1
  <2>2. TabInv'
    BY <1>1, <1>4, <1>7 DEF TabInv
  <2>3. ClosedInv' /\ RenameInv'
    BY <1>1 DEF ClosedInv, RenameInv
  <2> QED
    BY <1>3, <1>8, <2>1, <2>2, <2>3 DEF PageInv
<1>10. LoadInv'
  BY <1>1, <1>7 DEF LoadInv, LatestInv
<1>11. Kept'
  <2>1. saves' \in [TabIds -> Seq(Save)] /\ \A t \in TabIds : DOMAIN saves'[t] = {}
    <3>1. <<>> \in Seq(Save) /\ DOMAIN <<>> = {}
      BY EmptySeq
    <3> QED
      BY <1>1, <3>1
  <2>2. restarts' \in 0..MaxRestarts
    BY <1>1, <1>2, BoundsAssumption DEF Kept
  <2> QED
    BY <1>1, <1>2, <2>1, <2>2 DEF Kept
<1> QED
  BY <1>9, <1>10, <1>11 DEF Inv

-----------------------------------------------------------------------------
(***************************************************************************)
(* The theorems.                                                           *)
(***************************************************************************)
\* The first page satisfies the invariant.
LEMMA InitEstablishesInv == Init => Inv
<1> SUFFICES ASSUME Init PROVE Inv
  OBVIOUS
<1>1. Normal(page) /\ \A t \in Open(page) : page.tab[t] = EmptyTab
  BY FirstPage DEF Init
<1>2. Open(page) \subseteq TabIds
  BY <1>1, ScratchIsLast
<1>3. DOMAIN requests = TabIds /\ version \in [TabIds -> Nat] /\ TabInv /\ ClosedInv /\ RenameInv
  BY <1>1, <1>2, NewTabIsOK DEF Init, TabInv, ClosedInv, RenameInv
<1>4. OpenOnce
  BY <1>1, NewTabIsOK DEF OpenOnce
<1>5. LoadInv
  BY <1>1, NewTabIsOK DEF Init, LoadInv, LatestInv
<1>6. Stored # {} => FileOK(Former)
  <2> SUFFICES ASSUME Stored # {} PROVE FileOK(Former)
    OBVIOUS
  <2> DEFINE score == CHOOSE s \in Scores : TRUE
             messages == <<FromUser(score), FromAssistant("answer")>>
  <2>1. score \in Scores /\ MaxMessages \in Nat /\ MaxMessages >= 2
    BY BoundsAssumption
  <2>2. /\ FromUser(score) \in Message /\ FromUser(score) # Placeholder
        /\ FromAssistant("answer") \in Message /\ FromAssistant("answer") # Placeholder
    BY <2>1, MessageTypes
  <2>3. /\ messages \in Seq(Message) /\ Len(messages) = 2
        /\ messages[1] = FromUser(score) /\ messages[2] = FromAssistant("answer")
    BY <2>2
  <2>4. Former = [title |-> score, messages |-> messages]
    BY DEF Former
  <2> HIDE DEF messages, score
  <2>5. Settled(messages)
    BY <2>1, <2>2, <2>3 DEF Settled, Clean
  <2> QED
    BY <2>1, <2>3, <2>4, <2>5 DEF FileOK, File, Titles
<1>7. Kept
  <2>1. /\ store \in [ConvIds -> File \cup {None}]
        /\ \A c \in ConvIds : store[c] # None => FileOK(store[c])
    BY <1>6 DEF Init, FileOK
  <2>2. saves \in [TabIds -> Seq(Save)] /\ \A t \in TabIds : DOMAIN saves[t] = {}
    <3>1. <<>> \in Seq(Save) /\ DOMAIN <<>> = {}
      BY EmptySeq
    <3> QED
      BY <3>1 DEF Init
  <2>3. disk = None /\ restarts \in 0..MaxRestarts
    BY BoundsAssumption DEF Init
  <2> QED
    BY <2>1, <2>2, <2>3 DEF Kept
<1> QED
  BY <1>1, <1>3, <1>4, <1>5, <1>7 DEF Inv, PageInv

\* Every step keeps the invariant.
LEMMA NextKeepsInv == Inv /\ [Next]_vars => Inv'
<1> SUFFICES ASSUME Inv, [Next]_vars PROVE Inv'
  OBVIOUS
<1>1. ASSUME NEW t \in TabIds, TurnStep(t) PROVE Inv'
  <2>1. CASE StreamDelta(t)
    BY <2>1, RequestKeepsInv
  <2>2. ASSUME NEW o \in Outcomes, FinishTurn(t, o) PROVE Inv'
    BY <2>2, SettleKeepsInv, BoundsAssumption DEF FinishTurn
  <2>3. CASE FinishStopped(t)
    BY <2>3, SettleKeepsInv DEF FinishStopped
  <2>4. CASE FinishStoppedEmpty(t)
    BY <2>4, StopKeepsInv
  <2> QED
    BY <1>1, <2>1, <2>2, <2>3, <2>4 DEF TurnStep
<1>2. ASSUME NEW t \in TabIds, SaveStep(t) PROVE Inv'
  BY <1>2, SaveKeepsInv
<1>3. ASSUME NEW l \in loads, LoadStep(l) PROVE Inv'
  BY <1>3, DroppedKeepsInv, FetchedKeepsInv, FailedKeepsInv, HydratedKeepsInv, PaintedKeepsInv
     DEF LoadStep
<1>4. ASSUME NEW t \in Open(page),
             \/ \E s \in Scores \cup {0} : Send(t, s)
             \/ StopResponse(t)
             \/ \E i \in Editable : BeginEdit(t, i)
             \/ CancelEditing(t)
             \/ CloseTab(t)
             \/ SelectTab(t)
      PROVE  Inv'
  <2>1. t \in TabIds
    BY ScratchIsLast DEF Inv, PageInv
  <2> QED
    BY <1>4, <2>1, SendKeepsInv, RequestKeepsInv, EditingKeepsInv, CloseKeepsInv, BarKeepsInv
<1>5. CASE (\E c \in ConvIds : SelectConversation(c)) \/ EnsureTabLoaded
  BY <1>5, PickKeepsInv
<1>6. CASE OpenNewTab \/ \E delta \in {1, Len(page.order) - 1} : CycleTab(delta)
  BY <1>6, BarKeepsInv
<1>7. CASE BeginRename \/ \E title \in ManualTitles : FinishRename(title)
  BY <1>7, RenameKeepsInv
<1>8. CASE PersistNow
  BY <1>8, PersistKeepsInv
<1>9. CASE Restart
  BY <1>9, RestartKeepsInv
<1>10. CASE UNCHANGED vars
  BY <1>10 DEF vars, Inv, PageInv, TabInv, ClosedInv, OpenOnce, RenameInv, LoadInv, LatestInv,
               Latest, LatestOK, Kept
<1> QED
  BY <1>1, <1>2, <1>3, <1>4, <1>5, <1>6, <1>7, <1>8, <1>9, <1>10 DEF Next

-----------------------------------------------------------------------------
(***************************************************************************)
(* Titles.                                                                 *)
(***************************************************************************)
\* What TitleLockHolds asks of a step, and of the tab it changes.
TitlesStay ==
    \A t \in Open(page) \cap Range(page'.order) :
       LET conv == page.tab[t].conv
           next == page'.tab[t].conv
       IN  page.tab[t].locked /\ next.id = conv.id /\ restarts' = restarts
             => next.title \in {conv.title} \cup ManualTitles

TitleStays(tab, next) ==
    tab.locked /\ next.conv.id = tab.conv.id
      => next.conv.title \in {tab.conv.title} \cup ManualTitles

\* Bringing a page into its normal form changes no tab that stays open.
LEMMA NormalizedTabs ==
    ASSUME NEW p, NEW fresh, NEW preferred, NEW u \in TabIds, u \in Open(p),
           u \in Open(NormalizeAndCommit(p, fresh, preferred))
    PROVE  NormalizeAndCommit(p, fresh, preferred).tab[u] = p.tab[u]
<1> DEFINE order == NormalOrder(p, fresh)
           stamps == Filter(p.lastActive, Range(order))
           added == fresh \in Range(order) /\ fresh \notin Open(p)
           r == [order |-> order,
                 tab |-> [t \in TabIds |-> CASE t = fresh /\ added -> EmptyTab
                                             [] t \in Range(order) \cap Open(p) -> p.tab[t]
                                             [] OTHER -> None],
                 selected |-> p.selected,
                 lastActive |-> IF added THEN Touch(stamps, fresh) ELSE stamps]
           s == Selection(p, order, preferred)
           q == NormalizeAndCommit(p, fresh, preferred)
<1>1. q = Select(r, s)
  BY DEF NormalizeAndCommit
<1> HIDE DEF order, s, stamps, q
<1>2. q.tab = r.tab /\ q.order = r.order
  BY <1>1 DEF Select
<1>3. u \in Range(order)
  BY <1>2 DEF Open, q
<1>4. r.tab[u] = p.tab[u]
  <2>1. ~(u = fresh /\ added)
    OBVIOUS
  <2> QED
    BY <1>3, <2>1
<1> QED
  BY <1>2, <1>4 DEF q

\* An update of one tab keeps the titles when that tab keeps its own.
LEMMA UpdateKeepsTitles ==
    ASSUME Inv, NEW p, p \in Page, p.tab = page.tab, Open(p) = Open(page), NEW t \in Open(page),
           NEW next, NEW fresh, page' = UpdateTab(p, t, next, fresh), TitleStays(page.tab[t], next)
    PROVE  TitlesStay
<1>1. Open(page) \subseteq TabIds /\ p.tab \in [TabIds -> Tab \cup {None}]
  BY ScratchIsLast DEF Inv, PageInv, Page
<1> DEFINE r == [p EXCEPT !.tab[t] = next]
<1>2. page' = NormalizeAndCommit(r, fresh, None)
  BY DEF UpdateTab
<1>3. r.order = p.order /\ r.tab = [p.tab EXCEPT ![t] = next]
  BY DEF Page
<1> HIDE DEF r
<1>4. Open(r) = Open(page)
  BY <1>3 DEF Open
<1> SUFFICES ASSUME NEW u \in Open(page), u \in Open(page')
             PROVE  TitleStays(page.tab[u], page'.tab[u])
  BY DEF TitlesStay, TitleStays, Open
<1>5. page'.tab[u] = IF u = t THEN next ELSE page.tab[u]
  BY <1>1, <1>2, <1>3, <1>4, NormalizedTabs
<1> QED
  BY <1>5 DEF TitleStays

\* So does every step that changes no conversation shown.
LEMMA SameConversations ==
    ASSUME \A t \in Open(page) \cap Open(page') : page'.tab[t].conv = page.tab[t].conv
    PROVE  TitlesStay
BY DEF TitlesStay, Open

\* A change of one tab keeps all titles if it keeps that tab's.
LEMMA BecomesKeepsTitles ==
    ASSUME NEW t, NEW next, Becomes(page', t, next),
           t \in Open(page) /\ t \in Open(page') => TitleStays(page.tab[t], next)
    PROVE  TitlesStay
<1> SUFFICES ASSUME NEW u \in Open(page), u \in Open(page')
             PROVE  TitleStays(page.tab[u], page'.tab[u])
  BY DEF TitlesStay, TitleStays, Open
<1>1. \/ u = t /\ page'.tab[u] = next
      \/ page'.tab[u] = page.tab[u]
  BY DEF Becomes
<1> QED
  BY <1>1 DEF TitleStays

\* The steps of a turn keep the locked title.
LEMMA TurnKeepsTitles ==
    ASSUME ~LateRenames, Inv,
           NEW t \in TabIds, TurnStep(t) \/ \E s \in Scores \cup {0} : t \in Open(page) /\ Send(t, s)
    PROVE  TitlesStay
<1>1. ASSUME NEW s \in Scores \cup {0}, t \in Open(page), Send(t, s) PROVE TitlesStay
  <2>1. PICK conv, next, request : Sends(t, s, conv, next, request)
    BY <1>1, SendStep
  <2>2. Becomes(page', t, next) /\ next.conv.title = page.tab[t].conv.title
    BY <2>1 DEF Sends
  <2> QED
    BY <2>2, BecomesKeepsTitles DEF TitleStays
<1>2. ASSUME requests[t] # None, NEW state \in {"answer", "calls", "failed", "stopped"}, Settle(t, state)
      PROVE  TitlesStay
  <2>1. PICK conv, next : Settles(t, state, conv, next)
    BY <1>2, SettleStep
  <2>2. /\ Becomes(page', t, next) /\ next.conv = SaveOf(page.tab[t], conv, FALSE).conv
        /\ conv.title = page.tab[t].conv.title /\ conv \in Conversation
    BY <2>1 DEF Settles, RequestOK
  <2>3. page.tab[t].locked => next.conv.title = conv.title
    BY <2>2 DEF SaveOf, Conversation
  <2> QED
    BY <2>2, <2>3, BecomesKeepsTitles DEF TitleStays
<1>3. CASE FinishStoppedEmpty(t)
  <2> DEFINE tab == page.tab[t]
             next == [tab EXCEPT !.isBusy = FALSE,
                                 !.conv.messages = Filter(@, Range(@) \ {Placeholder})]
  <2>1. requests[t] # None /\ page' = UpdateTab(page, t, next, FreshTab)
    BY <1>3 DEF FinishStoppedEmpty, Commit
  <2>2. t \in Open(page) /\ page \in Page /\ TabOK(tab)
    BY <2>1 DEF Inv, PageInv, ClosedInv, TabInv, Normal, WellFormed
  <2>3. next.conv.title = tab.conv.title
    BY <2>2 DEF TabOK, Tab, Conversation
  <2> HIDE DEF next
  <2>4. TitleStays(tab, next)
    BY <2>3 DEF TitleStays
  <2> QED
    BY <2>1, <2>2, <2>4, UpdateKeepsTitles
<1>4. CASE StreamDelta(t) \/ StopResponse(t)
  BY <1>4, SameConversations DEF StreamDelta, StopResponse
<1> QED
  BY <1>1, <1>2, <1>3, <1>4, BoundsAssumption DEF TurnStep, FinishTurn, FinishStopped

\* A load writes no title into a tab whose title is locked.
LEMMA LoadKeepsTitles ==
    ASSUME Inv, NEW l \in loads, LoadStep(l)
    PROVE  TitlesStay
<1> DEFINE t == l.tab
           tab == page.tab[t]
<1>1. CASE LoadDropped(l) \/ LoadFetched(l)
  BY <1>1, SameConversations DEF LoadDropped, LoadFetched
<1>2. page \in Page
  BY DEF Inv, PageInv, Normal, WellFormed
<1>3. ASSUME IsCurrent(l)
      PROVE  /\ t \in Open(page) /\ tab \in Tab /\ TabOK(tab) /\ LatestOK(l)
             /\ l.conv # None /\ l.kind \in {"restore", "open"}
  BY <1>3, CurrentLoad, OneTabLoads, NoneAssumption DEF Load
<1>4. CASE LoadFailed(l)
  <2> DEFINE next == IF l.kind = "restore" THEN EmptyTab
                     ELSE [tab EXCEPT !.isLoaded = TRUE, !.isHydrating = FALSE,
                                      !.isBusy = FALSE, !.editing = 0]
  <2>1. IsCurrent(l) /\ page' = UpdateTab(page, t, next, FreshTab)
    BY <1>4 DEF LoadFailed, Commit
  <2>2. TitleStays(tab, next)
    <3>1. CASE l.kind = "restore"
      BY <1>3, <2>1, <3>1, NewTabIsOK DEF LatestOK, TitleStays
    <3>2. CASE l.kind # "restore"
      BY <1>3, <2>1, <3>2 DEF TitleStays, Tab
    <3> QED
      BY <3>1, <3>2
  <2> HIDE DEF next
  <2> QED
    BY <1>2, <1>3, <2>1, <2>2, UpdateKeepsTitles
<1>5. CASE LoadHydrated(l)
  <2> DEFINE conv == [id |-> l.conv, title |-> l.found.title, messages |-> l.found.messages]
             next == [tab EXCEPT !.conv = conv,
                                 !.isPersisted = TRUE, !.isLoaded = TRUE, !.isBusy = FALSE,
                                 !.isHydrating = TRUE, !.locked = @ /\ l.kind = "restore", !.editing = 0]
  <2>1. IsCurrent(l) /\ l.phase = "hydrate" /\ page' = UpdateTab(page, t, next, FreshTab)
    BY <1>5 DEF LoadHydrated, Commit
  <2>2. next.conv.id = l.conv /\ next.conv.title = l.found.title
    BY <1>3, <2>1 DEF Tab
  <2> HIDE DEF next
  <2>3. TitleStays(tab, next)
    <3>1. l.found.title = l.title
      BY <1>3, <2>1 DEF LatestOK
    <3>2. CASE l.kind = "restore"
      <4>1. l.title = tab.conv.title
        BY <1>3, <2>1, <3>2 DEF LatestOK
      <4> QED
        BY <2>2, <3>1, <4>1 DEF TitleStays
    <3>3. CASE l.kind = "open"
      <4>1. tab.conv.id = None
        BY <1>3, <2>1, <3>3 DEF LatestOK, TabOK
      <4> QED
        BY <1>3, <2>1, <2>2, <4>1 DEF TitleStays
    <3> QED
      BY <1>3, <2>1, <3>2, <3>3
  <2> QED
    BY <1>2, <1>3, <2>1, <2>3, UpdateKeepsTitles
<1>6. CASE LoadPainted(l)
  <2> DEFINE next == [tab EXCEPT !.isHydrating = FALSE, !.isBusy = FALSE, !.editing = 0]
  <2>1. IsCurrent(l) /\ page' = UpdateTab(page, t, next, FreshTab)
    BY <1>6 DEF LoadPainted, Commit
  <2>2. TitleStays(tab, next)
    BY <1>3, <2>1 DEF TitleStays, Tab
  <2> HIDE DEF next
  <2> QED
    BY <1>2, <1>3, <2>1, <2>2, UpdateKeepsTitles
<1> QED
  BY <1>1, <1>4, <1>5, <1>6 DEF LoadStep

\* Picking a conversation keeps the locked titles.
LEMMA PickKeepsTitles ==
    ASSUME Inv, EnsureTabLoaded \/ \E c \in ConvIds : SelectConversation(c)
    PROVE  TitlesStay
<1>1. Normal(page) /\ page.selected \in Open(page)
  BY DEF Inv, PageInv, Normal
<1>2. ASSUME NEW p, Normal(p), p.tab = page.tab, Open(p) = Open(page), NEW t \in Open(page),
             NEW kind, NEW conv, NEW title, StartLoad(p, t, kind, conv, title)
      PROVE  TitlesStay
  <2> DEFINE next == [p.tab[t] EXCEPT !.isHydrating = TRUE, !.isBusy = FALSE, !.editing = 0]
  <2>1. page' = UpdateTab(p, t, next, FreshTab)
    BY <1>2 DEF StartLoad, Commit
  <2>2. page.tab[t] \in Tab /\ p \in Page
    BY <1>2 DEF Inv, PageInv, TabInv, TabOK, Normal, WellFormed
  <2>3. TitleStays(page.tab[t], next)
    BY <1>2, <2>2 DEF TitleStays, Tab
  <2> HIDE DEF next
  <2> QED
    BY <1>2, <2>1, <2>2, <2>3, UpdateKeepsTitles
<1>3. CASE EnsureTabLoaded
  <2> DEFINE conv == page.tab[page.selected].conv
  <2>1. StartLoad(page, page.selected, "restore", conv.id, conv.title)
    BY <1>3 DEF EnsureTabLoaded
  <2> HIDE DEF conv
  <2> QED
    BY <1>1, <1>2, <2>1
<1>4. ASSUME NEW c \in ConvIds, SelectConversation(c) PROVE TitlesStay
  <2>1. PICK t \in Open(page) : \/ page' = Select(page, t)
                                \/ StartLoad(Select(page, t), t, "open", c, store[c].title)
    BY <1>1, <1>4, ScratchIsLast DEF SelectConversation, Showing
  <2>2. /\ Normal(Select(page, t)) /\ Select(page, t).tab = page.tab
        /\ Open(Select(page, t)) = Open(page)
    BY <1>1, SelectKeeps
  <2> QED
    BY <1>2, <2>1, <2>2, SameConversations
<1> QED
  BY <1>3, <1>4

\* The bar and the editor keep the locked titles.
LEMMA BarKeepsTitles ==
    ASSUME Inv, NEW t \in Open(page),
           \/ \E i \in Editable : BeginEdit(t, i)
           \/ CancelEditing(t) \/ CloseTab(t)
           \/ page' = Select(page, t)
    PROVE  TitlesStay
<1>1. /\ Normal(page) /\ page \in Page /\ page.tab \in [TabIds -> Tab \cup {None}]
      /\ Open(page) \subseteq TabIds /\ TabInv
  BY ScratchIsLast DEF Inv, PageInv, Normal, WellFormed, Page
<1>2. ASSUME NEW i, page' = [page EXCEPT !.tab[t].editing = i] PROVE TitlesStay
  <2> DEFINE next == [page.tab[t] EXCEPT !.editing = i]
  <2>1. page.tab[t] \in Tab
    BY <1>1 DEF TabInv, TabOK
  <2>2. next.conv = page.tab[t].conv
    BY <2>1 DEF Tab
  <2>3. page'.tab = [page.tab EXCEPT ![t] = next]
    BY <1>1, <1>2 DEF Page
  <2> HIDE DEF next
  <2>4. \A u \in Open(page) : page'.tab[u].conv = page.tab[u].conv
    BY <1>1, <2>2, <2>3
  <2> QED
    BY <2>4, SameConversations
<1>3. ASSUME CloseTab(t) PROVE TitlesStay
  <2>1. t \notin Open(page') /\ Becomes(page', t, EmptyTab)
    BY <1>3, CloseStep DEF Commit
  <2> QED
    BY <2>1, BecomesKeepsTitles
<1>4. ASSUME page' = Select(page, t) PROVE TitlesStay
  BY <1>1, <1>4, SelectKeeps, SameConversations
<1> QED
  BY <1>2, <1>3, <1>4 DEF BeginEdit, CancelEditing

\* A rename changes a locked title only as the user says.
LEMMA RenameKeepsTitles ==
    ASSUME Inv, NEW title \in ManualTitles, FinishRename(title)
    PROVE  TitlesStay
<1> DEFINE t == renaming
           tab == page.tab[t]
           conv == [tab.conv EXCEPT !.title = title]
           next == AfterSave(tab, conv, TRUE)
<1>1. t # None /\ (page' = page \/ page' = UpdateTab(page, t, next, None))
  BY DEF FinishRename, SaveUpdated, AfterSave
<1>2. t \in Open(page) /\ page \in Page /\ tab \in Tab
  BY <1>1 DEF Inv, PageInv, RenameInv, TabInv, TabOK, Normal, WellFormed
<1>3. next.conv.title = title
  <2>1. conv.title = title
    BY <1>2 DEF Tab, Conversation
  <2>2. SaveOf(tab, conv, TRUE).conv.title = conv.title
    BY <1>2 DEF SaveOf, Tab, Conversation
  <2> HIDE DEF conv
  <2> QED
    BY <1>2, <2>1, <2>2 DEF AfterSave, Tab
<1> HIDE DEF next
<1>4. TitleStays(tab, next)
  BY <1>3 DEF TitleStays
<1> QED
  BY <1>1, <1>2, <1>4, UpdateKeepsTitles, SameConversations

\* Every step keeps the locked titles.
LEMMA NextKeepsTitles == ~LateRenames /\ Inv /\ [Next]_vars => [TitlesStay]_vars
<1> SUFFICES ASSUME ~LateRenames, Inv, Next PROVE TitlesStay
  OBVIOUS
<1>1. Open(page) \subseteq TabIds /\ Last(Scratches(page)) \in Open(page) /\ page.selected \in Open(page)
  BY ScratchIsLast DEF Inv, PageInv, Normal
<1>2. CASE \E t \in TabIds : TurnStep(t)
  BY <1>2, TurnKeepsTitles
<1>3. CASE \/ \E t \in TabIds : SaveStep(t)
           \/ BeginRename \/ PersistNow
  BY <1>3, SameConversations DEF SaveStep, PutConversation, PutMessages, SaveRefused, BeginRename, PersistNow
<1>4. CASE \E l \in loads : LoadStep(l)
  BY <1>4, LoadKeepsTitles
<1>5. ASSUME NEW t \in Open(page),
             \/ \E s \in Scores \cup {0} : Send(t, s)
             \/ StopResponse(t)
             \/ \E i \in Editable : BeginEdit(t, i)
             \/ CancelEditing(t)
             \/ CloseTab(t)
             \/ SelectTab(t)
      PROVE  TitlesStay
  <2>1. CASE \E s \in Scores \cup {0} : Send(t, s)
    BY <1>1, <2>1, TurnKeepsTitles
  <2>2. CASE StopResponse(t)
    BY <2>2, SameConversations DEF StopResponse
  <2> QED
    BY <1>5, <2>1, <2>2, BarKeepsTitles DEF SelectTab, GoTo
<1>6. CASE (\E c \in ConvIds : SelectConversation(c)) \/ EnsureTabLoaded
  BY <1>6, PickKeepsTitles
<1>7. CASE OpenNewTab \/ \E delta \in {1, Len(page.order) - 1} : CycleTab(delta)
  <2>1. PICK t : page' = Select(page, t)
    BY <1>7 DEF OpenNewTab, CycleTab, GoTo
  <2>2. Select(page, t).tab = page.tab
    BY DEF Select
  <2> QED
    BY <2>1, <2>2, SameConversations
<1>8. CASE \E title \in ManualTitles : FinishRename(title)
  BY <1>8, RenameKeepsTitles
<1>9. CASE Restart
  <2>1. restarts' # restarts
    BY <1>9 DEF Restart, Inv, Kept
  <2> QED
    BY <2>1 DEF TitlesStay
<1> QED
  BY <1>2, <1>3, <1>4, <1>5, <1>6, <1>7, <1>8, <1>9 DEF Next

-----------------------------------------------------------------------------
(***************************************************************************)
(* What is shown is saved: the inductive invariant.                        *)
(***************************************************************************)
\* A conversation starts with the user and has no two answers in a row.
Alternates(messages) ==
    /\ messages # <<>> => messages[1].role = "user"
    /\ \A i \in 1..(Len(messages) - 1) : "user" \in {messages[i].role, messages[i + 1].role}

\* What a tab shows without the placeholder of its turn.
Sent(conv) == [conv EXCEPT !.messages = SubSeq(@, 1, Len(@) - 1)]

\* What the file of the conversation a tab shows is to hold once the saves are done:
\* what the tab shows, and during a turn what the send saved.
Shown(tab) == IF tab.isBusy THEN FileOf(SaveOf(tab, Sent(tab.conv), FALSE).conv) ELSE FileOf(tab.conv)

\* What the saves in a queue leave of a file.
Saved(queue, file) == IF queue = <<>> THEN file ELSE FileOf(queue[Len(queue)].conv)

\* A save of the messages alone finds the file under the title the save before left.
Chained(queue, file) ==
    \A i \in DOMAIN queue : ~queue[i].full =>
        IF i = 1 THEN file # None /\ file.title = queue[1].conv.title
        ELSE queue[i - 1].conv.title = queue[i].conv.title

QueueOK(tab, queue, file) ==
    /\ \A i \in DOMAIN queue : queue[i].conv.id = tab.conv.id
    /\ queue # <<>> => tab.isLoaded /\ ~tab.isHydrating
    /\ Chained(queue, file)
    /\ tab.isPersisted /\ tab.isLoaded => Saved(queue, file) = Shown(tab)

\* Nothing of a conversation is queued but for one tab.
Elsewhere(t, c, queues) == \A u \in TabIds \ {t} : \A i \in DOMAIN queues[u] : queues[u][i].conv.id # c

TabSaved(t, tab, queues, files) ==
    /\ QueueOK(tab, queues[t], files[tab.conv.id])
    /\ Elsewhere(t, tab.conv.id, queues)
    /\ Alternates(tab.conv.messages)

\* What a load has found is what the file holds until it is shown.
LoadSaved(l, queues, files) ==
    /\ \A u \in TabIds : \A i \in DOMAIN queues[u] : queues[u][i].conv.id # l.conv
    /\ l.phase = "hydrate" => l.found = files[l.conv]

\* What the saves given to the backend were to leave, done or refused.
Files == [c \in ConvIds \cup {None} |-> IF c \in ConvIds THEN Meant(c) ELSE None]

TabsSaved == \A t \in Open(page) : TabSaved(t, page.tab[t], saves, Files)

FilesAlternate ==
    /\ \A c \in ConvIds : store[c] # None => Alternates(store[c].messages)
    /\ \A t \in TabIds : \A i \in DOMAIN saves[t] : Alternates(saves[t][i].conv.messages)

NoEarlyStops == \A t \in TabIds : requests[t] # None /\ requests[t].stopped => requests[t].streamed

LoadsSaved == \A l \in loads : Latest(l) /\ l.phase # "paint" => LoadSaved(l, saves, store)

SavedInv == TabsSaved /\ FilesAlternate /\ NoEarlyStops /\ LoadsSaved /\ DOMAIN unsaved = ConvIds

\* Files that stay are meant as before.
LEMMA FilesStay == ASSUME UNCHANGED <<store, unsaved>> PROVE Files' = Files
BY DEF Files, Meant


-----------------------------------------------------------------------------
(***************************************************************************)
(* Titles of the saves of a turn.                                          *)
(***************************************************************************)
FilterBy(s, K) == [k \in 1..Cardinality(K) |-> s[CHOOSE i \in K : Rank(K, i) = k]]

\* A filter depends only on the elements it keeps and on their places.
LEMMA FilterSame ==
    ASSUME NEW T, NEW s \in Seq(T), NEW r, NEW S, NEW R,
           Places(s, S) = Places(r, R), \A i \in Places(s, S) : s[i] = r[i]
    PROVE  Filter(s, S) = Filter(r, R) /\ Len(Filter(s, S)) = Cardinality(Places(s, S))
<1> DEFINE K == Places(s, S)
           C == 1..Cardinality(K)
           nth(k) == CHOOSE i \in K : Rank(K, i) = k
<1>1. K \in SUBSET (1..Len(s)) /\ Len(s) \in Nat
  BY LenProperties DEF Places
<1>2. Filter(s, S) = [k \in C |-> s[nth(k)]]
  BY DEF Filter, Places, Rank
<1>3. Filter(r, R) = [k \in C |-> r[nth(k)]]
  <2>1. Filter(r, R) = FilterBy(r, Places(r, R))
    BY DEF Filter, FilterBy, Places, Rank
  <2>2. FilterBy(r, Places(r, R)) = FilterBy(r, K)
    OBVIOUS
  <2>3. FilterBy(r, K) = [k \in C |-> r[nth(k)]]
    BY DEF FilterBy
  <2> QED
    BY <2>1, <2>2, <2>3
<1> HIDE DEF K
<1>4. Cardinality(K) \in Nat /\ \A k \in C : nth(k) \in K
  BY <1>1, RanksAreExact
<1>5. \A k \in C : s[nth(k)] = r[nth(k)]
  BY <1>4 DEF K
<1> HIDE DEF nth
<1>6. Filter(s, S) = Filter(r, R)
  BY <1>2, <1>3, <1>5
<1>7. Len(Filter(s, S)) = Cardinality(K)
  <2>1. DOMAIN Filter(s, S) = 1..Cardinality(K)
    BY <1>2
  <2>2. Filter(s, S) \in Seq(T)
    BY Filtered
  <2>3. DOMAIN Filter(s, S) = 1..Len(Filter(s, S)) /\ Len(Filter(s, S)) \in Nat
    BY <2>2, LenProperties
  <2> QED
    BY <1>4, <2>1, <2>3
<1> QED
  BY <1>6, <1>7 DEF K

\* The messages of the user are counted by their places.
LEMMA UsersArePlaced ==
    ASSUME NEW messages \in Seq(Message)
    PROVE  LET users == {i \in 1..Len(messages) : messages[i].role = "user"}
           IN  Places(messages, {m \in Range(messages) : m.role = "user"}) = users
               /\ Len(Users(messages)) = Cardinality(users)
<1>1. Places(messages, {m \in Range(messages) : m.role = "user"})
        = {i \in 1..Len(messages) : messages[i].role = "user"}
  BY LenProperties DEF Places, Range
<1>2. Len(Users(messages)) = Cardinality(Places(messages, {m \in Range(messages) : m.role = "user"}))
  BY FilterSame DEF Users
<1> QED
  BY <1>1, <1>2

\* An answer adds no message of the user.
LEMMA UsersStay ==
    ASSUME NEW messages \in Seq(Message), NEW answer \in Message, answer.role # "user"
    PROVE  Users(Append(messages, answer)) = Users(messages)
<1> DEFINE next == Append(messages, answer)
           S == {m \in Range(messages) : m.role = "user"}
           R == {m \in Range(next) : m.role = "user"}
           n == Len(messages)
<1>1. /\ next \in Seq(Message) /\ Len(next) = n + 1 /\ n \in Nat
      /\ \A i \in 1..n : next[i] = messages[i]
      /\ next[n + 1] = answer
  BY AppendProperties, LenProperties
<1> HIDE DEF next
<1>2. /\ Places(messages, S) = {i \in 1..n : messages[i].role = "user"}
      /\ Places(next, R) = {i \in 1..(n + 1) : next[i].role = "user"}
  BY <1>1, UsersArePlaced
<1>3. Places(next, R) = Places(messages, S)
  <2>1. \A i \in 1..(n + 1) : next[i].role = "user" => i \in 1..n /\ messages[i].role = "user"
    BY <1>1
  <2>2. \A i \in 1..n : i \in 1..(n + 1) /\ next[i].role = messages[i].role
    BY <1>1
  <2> QED
    BY <1>2, <2>1, <2>2
<1>4. \A i \in Places(messages, S) : messages[i] = next[i]
  BY <1>1, <1>2
<1> HIDE DEF S, R
<1>5. Filter(messages, S) = Filter(next, R)
  BY <1>3, <1>4, FilterSame
<1> QED
  BY <1>5 DEF Users, S, R, next

\* Three different elements are three.
LEMMA ThreeElements ==
    ASSUME NEW a, NEW b, NEW c, a # b, a # c, b # c
    PROVE  Cardinality({a, b, c}) = 3
<1> DEFINE one == {a}
           two == one \cup {b}
           three == two \cup {c}
<1>1. {a, b, c} = three /\ b \notin one /\ c \notin two
  OBVIOUS
<1>2. IsFiniteSet(one) /\ Cardinality(one) = 1
  BY FS_Singleton
<1> HIDE DEF one
<1>3. IsFiniteSet(two) /\ Cardinality(two) = 2
  BY <1>1, <1>2, FS_AddElement
<1> HIDE DEF two
<1>4. Cardinality(three) = 3
  BY <1>1, <1>3, FS_AddElement
<1> HIDE DEF three
<1> QED
  BY <1>1, <1>4

\* The second send of a conversation whose messages alternate is at least its third
\* message of the user when it is the fourth of all.
LEMMA FourMessagesHaveThreeUsers ==
    ASSUME NEW messages \in Seq(Message), Len(messages) = 4, Alternates(messages),
           messages[4].role = "user"
    PROVE  Len(Users(messages)) \notin {1, 2}
<1> DEFINE users == {i \in 1..4 : messages[i].role = "user"}
<1>1. messages # <<>> /\ messages[1].role = "user"
  <2>1. messages # <<>>
    BY EmptySeq
  <2> QED
    BY <2>1 DEF Alternates
<1>2. PICK j \in {2, 3} : messages[j].role = "user"
  <2>1. 2 \in 1..(Len(messages) - 1) /\ 2 + 1 = 3
    OBVIOUS
  <2>2. "user" \in {messages[2].role, messages[3].role}
    BY <2>1 DEF Alternates
  <2> QED
    BY <2>2
<1>3. Len(Users(messages)) = Cardinality(users)
  BY UsersArePlaced
<1>4. {1, j, 4} \in SUBSET users /\ IsFiniteSet(1..4)
  BY <1>1, <1>2, FS_Interval
<1>5. IsFiniteSet(users)
  BY <1>4, FS_Subset
<1>6. Cardinality({1, j, 4}) = 3
  <2>1. 1 # j /\ 1 # 4 /\ j # 4
    OBVIOUS
  <2> QED
    BY ONLY <2>1, ThreeElements, Zenon
<1>7. Cardinality({1, j, 4}) <= Cardinality(users)
  BY <1>4, <1>5, FS_Subset
<1>8. Cardinality(users) \in Nat
  BY <1>5, FS_CardinalityType
<1> HIDE DEF users
<1>9. Cardinality(users) >= 3
  BY <1>6, <1>7, <1>8
<1> QED
  BY <1>3, <1>8, <1>9

\* The send and the end of a turn save under the same title.
LEMMA TurnHasOneTitle ==
    ASSUME NEW tab \in Tab, NEW conv \in Conversation, NEW next \in Conversation, NEW answer \in Message,
           conv.messages # <<>>, Alternates(conv.messages),
           conv.messages[Len(conv.messages)].role = "user", answer.role # "user",
           next.title = conv.title, next.messages = Append(conv.messages, answer)
    PROVE  SaveOf(tab, next, FALSE).conv.title = SaveOf(tab, conv, FALSE).conv.title
<1> DEFINE messages == conv.messages
           n == Len(messages)
           title(c) == IF ~tab.locked /\ Len(c.messages) <= 4 THEN AutoTitle(c) ELSE c.title
<1>1. messages \in Seq(Message) /\ n \in Nat /\ Len(next.messages) = n + 1
  BY AppendProperties, LenProperties DEF Conversation
<1>2. \A c \in Conversation : SaveOf(tab, c, FALSE).conv.title = title(c)
  BY DEF SaveOf, Conversation
<1>3. Users(next.messages) = Users(messages)
  BY <1>1, UsersStay
<1>4. AutoTitle(next) = AutoTitle(conv)
  BY <1>3 DEF AutoTitle
<1>5. n = 4 => AutoTitle(conv) = conv.title
  <2> SUFFICES ASSUME n = 4 PROVE AutoTitle(conv) = conv.title
    OBVIOUS
  <2>1. Len(Users(messages)) \notin {1, 2}
    BY <1>1, FourMessagesHaveThreeUsers
  <2> QED
    BY <2>1 DEF AutoTitle
<1>6. title(next) = title(conv)
  <2>0. tab.locked \in BOOLEAN
    BY DEF Tab
  <2>1. CASE tab.locked
    BY <2>1
  <2>2. CASE ~tab.locked /\ n <= 3
    BY <1>1, <1>4, <2>2
  <2>3. CASE ~tab.locked /\ n = 4
    BY <1>1, <1>5, <2>3
  <2>4. CASE ~tab.locked /\ n > 4
    BY <1>1, <2>4
  <2> HIDE DEF n, title
  <2> QED
    BY <1>1, <2>0, <2>1, <2>2, <2>3, <2>4
<1> QED
  BY <1>2, <1>6

-----------------------------------------------------------------------------
(***************************************************************************)
(* What is queued.                                                         *)
(***************************************************************************)
\* A save put into a queue decides what its file will hold.
LEMMA Enqueued ==
    ASSUME NEW queue \in Seq(Save), NEW file, NEW save \in Save, Chained(queue, file),
           ~save.full => Saved(queue, file) # None /\ Saved(queue, file).title = save.conv.title
    PROVE  /\ Chained(Append(queue, save), file)
           /\ Saved(Append(queue, save), file) = FileOf(save.conv)
           /\ Append(queue, save) # <<>>
<1> DEFINE next == Append(queue, save)
           n == Len(queue)
<1>1. /\ next \in Seq(Save) /\ next # <<>> /\ Len(next) = n + 1 /\ n \in Nat
      /\ \A i \in 1..n : next[i] = queue[i]
      /\ next[n + 1] = save
      /\ DOMAIN next = 1..(n + 1) /\ DOMAIN queue = 1..n
      /\ queue = <<>> <=> n = 0
  BY AppendProperties, LenProperties, EmptySeq
<1> HIDE DEF next
<1>2. ASSUME NEW i \in DOMAIN next, ~next[i].full
      PROVE  IF i = 1 THEN file # None /\ file.title = next[1].conv.title
             ELSE next[i - 1].conv.title = next[i].conv.title
  <2>1. CASE i \in 1..n
    <3>1. IF i = 1 THEN file # None /\ file.title = queue[1].conv.title
          ELSE queue[i - 1].conv.title = queue[i].conv.title
      BY <1>1, <1>2, <2>1 DEF Chained
    <3>2. next[i] = queue[i] /\ (i # 1 => next[i - 1] = queue[i - 1])
      BY <1>1, <2>1
    <3> QED
      BY <3>1, <3>2
  <2>2. CASE i = n + 1
    <3>1. next[i] = save /\ Saved(queue, file) # None /\ Saved(queue, file).title = save.conv.title
      BY <1>1, <1>2, <2>2
    <3>2. CASE n = 0
      BY <1>1, <2>2, <3>1, <3>2 DEF Saved
    <3>3. CASE n # 0
      <4>1. i # 1 /\ i - 1 = n /\ next[i - 1] = queue[n]
        BY <1>1, <2>2, <3>3
      <4>2. queue[n].conv.title = save.conv.title
        BY <1>1, <3>1, <3>3 DEF Saved, FileOf
      <4> QED
        BY <3>1, <4>1, <4>2
    <3> QED
      BY <3>2, <3>3
  <2> QED
    BY <1>1, <2>1, <2>2
<1>3. Saved(next, file) = FileOf(save.conv)
  BY <1>1 DEF Saved
<1> QED
  BY <1>1, <1>2, <1>3 DEF Chained, next

\* The first save of a queue, done.
LEMMA Dequeued ==
    ASSUME NEW queue \in Seq(Save), queue # <<>>, NEW file, Chained(queue, file)
    PROVE  /\ Chained(Tail(queue), FileOf(Head(queue).conv))
           /\ Saved(Tail(queue), FileOf(Head(queue).conv)) = Saved(queue, file)
<1> DEFINE next == Tail(queue)
           n == Len(queue)
           head == Head(queue)
<1>1. /\ next \in Seq(Save) /\ Len(next) = n - 1 /\ n \in Nat /\ n >= 1
      /\ \A i \in 1..(n - 1) : next[i] = queue[i + 1]
      /\ head = queue[1] /\ head \in Save
      /\ DOMAIN next = 1..(n - 1) /\ DOMAIN queue = 1..n
      /\ next = <<>> <=> n = 1
  <2>1. /\ next \in Seq(Save) /\ Len(next) = n - 1 /\ n \in Nat /\ n >= 1
        /\ \A i \in 1..Len(next) : next[i] = queue[i + 1]
        /\ head = queue[1] /\ head \in Save
    BY HeadTailProperties, LenProperties, EmptySeq
  <2> HIDE DEF next, head, n
  <2>2. DOMAIN next = 1..Len(next) /\ (next = <<>> <=> Len(next) = 0)
    BY <2>1, LenProperties, EmptySeq
  <2> QED
    BY <2>1, <2>2, LenProperties DEF n
<1> HIDE DEF next, head
<1>2. FileOf(head.conv) # None /\ FileOf(head.conv).title = head.conv.title
  <2>1. FileOf(head.conv) \in File
    BY <1>1 DEF FileOf, File, Save, Conversation
  <2> QED
    BY <2>1, NoneAssumption DEF FileOf
<1>3. ASSUME NEW i \in DOMAIN next, ~next[i].full
      PROVE  IF i = 1 THEN FileOf(head.conv) # None /\ FileOf(head.conv).title = next[1].conv.title
             ELSE next[i - 1].conv.title = next[i].conv.title
  <2>1. /\ next[i] = queue[i + 1] /\ i + 1 \in DOMAIN queue /\ i + 1 # 1 /\ (i + 1) - 1 = i
        /\ (i # 1 => next[i - 1] = queue[i])
    BY <1>1
  <2>2. queue[i].conv.title = queue[i + 1].conv.title
    BY <1>3, <2>1 DEF Chained
  <2> QED
    BY <1>1, <1>2, <2>1, <2>2
<1>4. Saved(next, FileOf(head.conv)) = Saved(queue, file)
  <2>1. CASE n = 1
    BY <1>1, <2>1 DEF Saved
  <2>2. CASE n # 1
    <3>1. next[n - 1] = queue[n]
      <4>1. n - 1 \in 1..(n - 1) /\ (n - 1) + 1 = n
        BY <1>1, <2>2
      <4> QED
        BY <1>1, <4>1
    <3> QED
      BY <1>1, <2>2, <3>1 DEF Saved
  <2> QED
    BY <2>1, <2>2
<1> QED
  BY <1>3, <1>4 DEF Chained, next, head

-----------------------------------------------------------------------------
(***************************************************************************)
(* Messages that alternate.                                                *)
(***************************************************************************)
\* The beginning of a sequence.
LEMMA Prefix ==
    ASSUME NEW T, NEW s \in Seq(T), NEW n \in 0..Len(s)
    PROVE  /\ SubSeq(s, 1, n) \in Seq(T) /\ Len(SubSeq(s, 1, n)) = n
           /\ \A i \in 1..n : SubSeq(s, 1, n)[i] = s[i]
<1>1. Len(s) \in Nat /\ n \in Nat /\ \A i \in 1..n : s[i] \in T
  BY LenProperties, ElementOfSeq
<1> DEFINE r == SubSeq(s, 1, n)
<1>2. /\ r \in Seq(T) /\ Len(r) = IF 1 <= n THEN n - 1 + 1 ELSE 0
      /\ \A i \in 1..(n - 1 + 1) : r[i] = s[1 + i - 1]
  BY <1>1, SubSeqProperties
<1> HIDE DEF r
<1>3. Len(r) = n /\ \A i \in 1..n : r[i] = s[i]
  BY <1>1, <1>2
<1> QED
  BY <1>2, <1>3 DEF r

\* Without its last element an extended sequence is the one before.
LEMMA FrontOfAppend ==
    ASSUME NEW T, NEW s \in Seq(T), NEW x \in T
    PROVE  SubSeq(Append(s, x), 1, Len(Append(s, x)) - 1) = s
<1> DEFINE r == Append(s, x)
           n == Len(s)
<1>1. r \in Seq(T) /\ Len(r) = n + 1 /\ n \in Nat /\ \A i \in 1..n : r[i] = s[i]
  BY AppendProperties, LenProperties
<1> HIDE DEF r
<1>2. Len(r) - 1 = n /\ n \in 0..Len(r)
  BY <1>1
<1>3. /\ SubSeq(r, 1, n) \in Seq(T) /\ Len(SubSeq(r, 1, n)) = n
      /\ \A i \in 1..n : SubSeq(r, 1, n)[i] = r[i]
  BY <1>1, <1>2, Prefix
<1>4. SubSeq(r, 1, n) = s
  BY <1>1, <1>3, SeqEqual
<1> QED
  BY <1>2, <1>4 DEF r

\* A message may follow one of the user, or be the user's.
LEMMA AppendedAlternates ==
    ASSUME NEW messages \in Seq(Message), Alternates(messages), NEW m \in Message,
           IF messages = <<>> THEN m.role = "user"
           ELSE "user" \in {messages[Len(messages)].role, m.role}
    PROVE  /\ Alternates(Append(messages, m))
           /\ Append(messages, m)[Len(Append(messages, m))] = m
<1> DEFINE next == Append(messages, m)
           n == Len(messages)
<1>1. /\ next \in Seq(Message) /\ next # <<>> /\ Len(next) = n + 1 /\ n \in Nat
      /\ \A i \in 1..n : next[i] = messages[i]
      /\ next[n + 1] = m /\ (messages = <<>> <=> n = 0)
  BY AppendProperties, LenProperties, EmptySeq
<1> HIDE DEF next
<1>2. next[1].role = "user"
  BY <1>1 DEF Alternates
<1>3. ASSUME NEW i \in 1..(Len(next) - 1) PROVE "user" \in {next[i].role, next[i + 1].role}
  <2>1. CASE i = n
    <3>1. next[i] = messages[n] /\ next[i + 1] = m /\ messages # <<>>
      BY <1>1, <1>3, <2>1
    <3> QED
      BY <3>1
  <2>2. CASE i # n
    <3>1. i \in 1..(n - 1) /\ next[i] = messages[i] /\ next[i + 1] = messages[i + 1]
      BY <1>1, <1>3, <2>2
    <3> QED
      BY <3>1 DEF Alternates
  <2> QED
    BY <2>1, <2>2
<1> QED
  BY <1>1, <1>2, <1>3 DEF Alternates, next

\* The messages before an edited one alternate.
LEMMA PrefixAlternates ==
    ASSUME NEW messages \in Seq(Message), Alternates(messages), NEW n \in 0..Len(messages)
    PROVE  Alternates(SubSeq(messages, 1, n))
<1> DEFINE next == SubSeq(messages, 1, n)
<1>1. next \in Seq(Message) /\ Len(next) = n /\ \A i \in 1..n : next[i] = messages[i]
  BY Prefix
<1>2. Len(messages) \in Nat /\ n \in Nat /\ n <= Len(messages)
  BY LenProperties
<1> HIDE DEF next
<1>3. next # <<>> => messages # <<>> /\ next[1] = messages[1]
  BY <1>1, <1>2, EmptySeq
<1>4. \A i \in 1..(n - 1) : i \in 1..(Len(messages) - 1) /\ next[i] = messages[i] /\ next[i + 1] = messages[i + 1]
  BY <1>1, <1>2
<1> QED
  BY <1>1, <1>3, <1>4 DEF Alternates, next

\* A send, of a new message or of an edited one, leaves messages that alternate.
LEMMA SendAlternates ==
    ASSUME NEW messages \in Seq(Message), Alternates(messages),
           NEW editing \in Nat, editing <= Len(messages), NEW score \in Scores \cup {0}
    PROVE  LET kept == IF editing = 0 THEN messages ELSE SubSeq(messages, 1, editing - 1)
               sent == Append(kept, FromUser(score))
           IN  /\ Alternates(sent) /\ sent[Len(sent)].role = "user"
               /\ Alternates(Append(sent, Placeholder))
<1> DEFINE kept == IF editing = 0 THEN messages ELSE SubSeq(messages, 1, editing - 1)
           sent == Append(kept, FromUser(score))
<1>1. kept \in Seq(Message) /\ Alternates(kept)
  <2>1. CASE editing = 0
    BY <2>1
  <2>2. CASE editing # 0
    <3>1. editing - 1 \in 0..Len(messages)
      BY <2>2, LenProperties
    <3> QED
      BY <2>2, <3>1, Prefix, PrefixAlternates
  <2> QED
    BY <2>1, <2>2
<1> HIDE DEF kept
<1>2. FromUser(score) \in Message /\ FromUser(score).role = "user" /\ Placeholder \in Message
  BY MessageTypes
<1>3. /\ Alternates(sent) /\ sent[Len(sent)] = FromUser(score)
      /\ sent \in Seq(Message) /\ sent # <<>>
  BY <1>1, <1>2, AppendedAlternates, AppendProperties
<1> HIDE DEF sent
<1>4. Alternates(Append(sent, Placeholder))
  BY <1>2, <1>3, AppendedAlternates
<1> QED
  BY <1>2, <1>3, <1>4 DEF sent, kept

\* The messages of a turn are what was sent and the placeholder, then the answer.
LEMMA AnswerAlternates ==
    ASSUME NEW messages, Asked(messages), Alternates(messages),
           NEW state \in {"answer", "calls", "failed", "stopped"}
    PROVE  LET next == [messages EXCEPT ![Len(messages)] = FromAssistant(state)]
               sent == SubSeq(messages, 1, Len(messages) - 1)
           IN  /\ Alternates(next)
               /\ sent \in Seq(Message) /\ sent # <<>> /\ Alternates(sent)
               /\ sent[Len(sent)].role = "user"
               /\ next = Append(sent, FromAssistant(state))
<1> DEFINE next == [messages EXCEPT ![Len(messages)] = FromAssistant(state)]
           n == Len(messages) - 1
           sent == SubSeq(messages, 1, n)
<1>1. /\ messages \in Seq(Message) /\ n \in Nat /\ n >= 1 /\ Len(messages) = n + 1
      /\ messages[n].role = "user" /\ n \in 0..Len(messages)
  BY BoundsAssumption, LenProperties DEF Asked
<1>2. FromAssistant(state) \in Message
  BY MessageTypes
<1>3. /\ sent \in Seq(Message) /\ Len(sent) = n /\ Alternates(sent)
      /\ \A i \in 1..n : sent[i] = messages[i]
  BY <1>1, Prefix, PrefixAlternates
<1>4. /\ next \in Seq(Message) /\ Len(next) = n + 1
      /\ \A i \in 1..(n + 1) : next[i] = IF i = n + 1 THEN FromAssistant(state) ELSE messages[i]
  BY <1>1, <1>2, ExceptSeq
<1> HIDE DEF next, sent, n
<1>5. sent # <<>> /\ sent[Len(sent)].role = "user"
  BY <1>1, <1>3, EmptySeq
<1>6. next = Append(sent, FromAssistant(state))
  <2> DEFINE r == Append(sent, FromAssistant(state))
  <2>1. r \in Seq(Message) /\ Len(r) = n + 1 /\ r[n + 1] = FromAssistant(state)
        /\ \A i \in 1..n : r[i] = sent[i]
    BY <1>2, <1>3, AppendProperties
  <2> HIDE DEF r
  <2>2. \A i \in 1..(n + 1) : next[i] = r[i]
    BY <1>1, <1>3, <1>4, <2>1
  <2>3. next = r
    BY <1>4, <2>1, <2>2, SeqEqual
  <2> QED
    BY <2>3 DEF r
<1>7. Alternates(next)
  BY <1>2, <1>3, <1>5, <1>6, AppendedAlternates
<1> QED
  BY <1>3, <1>5, <1>6, <1>7 DEF next, sent, n

-----------------------------------------------------------------------------
(***************************************************************************)
(* What a step leaves saved.                                               *)
(***************************************************************************)
\* A tab that was never saved has nothing to be saved.
LEMMA UnpersistedIsSaved ==
    ASSUME NEW t, NEW tab, NEW queues, NEW files, queues[t] = <<>>,
           ~tab.isPersisted, tab.conv.id = None, tab.conv.messages = <<>>,
           \A u \in TabIds : \A i \in DOMAIN queues[u] : queues[u][i].conv.id # None
    PROVE  TabSaved(t, tab, queues, files)
<1>1. Len(<<>>) = 0 /\ DOMAIN <<>> = {}
  BY EmptySeq
<1> QED
  BY <1>1 DEF TabSaved, QueueOK, Chained, Elsewhere, Alternates

\* A tab with nothing to save has nothing queued.
LEMMA UnpersistedQueue ==
    ASSUME Inv, TabsSaved, NEW t \in Open(page), page.tab[t].conv.id = None \/ ~page.tab[t].isPersisted
    PROVE  /\ saves[t] = <<>> /\ page.tab[t].conv.id = None /\ ~page.tab[t].isPersisted
           /\ page.tab[t].conv.messages = <<>>
<1>1. t \in TabIds /\ TabOK(page.tab[t])
  BY ScratchIsLast DEF Inv, PageInv, TabInv
<1>2. page.tab[t].conv.id = None /\ ~page.tab[t].isPersisted /\ page.tab[t].conv.messages = <<>>
  BY <1>1 DEF TabOK
<1>3. \A i \in DOMAIN saves[t] : saves[t][i].conv.id # None /\ saves[t][i].conv.id = page.tab[t].conv.id
  BY <1>1 DEF Inv, Kept, SaveOK, TabsSaved, TabSaved, QueueOK
<1>4. saves[t] \in Seq(Save) /\ DOMAIN saves[t] = {}
  BY <1>1, <1>2, <1>3 DEF Inv, Kept
<1>5. saves[t] = <<>>
  <2> DEFINE queue == saves[t]
  <2>1. queue \in Seq(Save) /\ DOMAIN queue = 1..Len(queue) /\ Len(queue) \in Nat /\ DOMAIN queue = {}
    BY <1>4, LenProperties
  <2> HIDE DEF queue
  <2>2. Len(queue) = 0
    <3>1. Len(queue) >= 1 => 1 \in DOMAIN queue
      BY <2>1
    <3> QED
      BY <2>1, <3>1
  <2>3. queue = <<>>
    BY <2>1, <2>2, EmptySeq
  <2> QED
    BY <2>3 DEF queue
<1> QED
  BY <1>2, <1>5

\* One tab changes, and what is queued for it.
LEMMA TabsStaySaved ==
    ASSUME Inv, Inv', TabsSaved, NEW t, NEW tab, Becomes(page', t, tab),
           \A u \in Open(page) \ {t} : Files'[page.tab[u].conv.id] = Files[page.tab[u].conv.id],
           \A u \in TabIds \ {t} : saves'[u] = saves[u],
           t \in TabIds => \A u \in Open(page) \ {t} : \A i \in DOMAIN saves'[t] :
                             saves'[t][i].conv.id # page.tab[u].conv.id,
           t \in Open(page') => TabSaved(t, tab, saves', Files')
    PROVE  TabsSaved'
<1> SUFFICES ASSUME NEW u \in Open(page') PROVE TabSaved(u, page'.tab[u], saves', Files')
  BY DEF TabsSaved
<1>1. u \in TabIds /\ Open(page) \subseteq TabIds
  BY ScratchIsLast DEF Inv, PageInv, Becomes
<1>2. CASE u = t
  BY <1>2 DEF Becomes
<1>3. CASE u # t /\ u \in Open(page)
  <2>1. /\ page'.tab[u] = page.tab[u] /\ saves'[u] = saves[u]
        /\ Files'[page.tab[u].conv.id] = Files[page.tab[u].conv.id]
    BY <1>1, <1>3 DEF Becomes
  <2>2. TabSaved(u, page.tab[u], saves, Files)
    BY <1>3 DEF TabsSaved
  <2>3. Elsewhere(u, page.tab[u].conv.id, saves')
    <3>1. Elsewhere(u, page.tab[u].conv.id, saves)
      BY <2>2 DEF TabSaved
    <3> QED
      BY <1>3, <3>1 DEF Elsewhere
  <2> QED
    BY <2>1, <2>2, <2>3 DEF TabSaved
<1>4. CASE u # t /\ u \notin Open(page)
  <2>1. page'.tab[u] = EmptyTab /\ u \in FreshTabs
    BY <1>4 DEF Becomes
  <2>2. saves'[u] = <<>>
    BY <1>1, <1>4, <2>1 DEF FreshTabs
  <2>3. \A v \in TabIds : \A i \in DOMAIN saves'[v] : saves'[v][i].conv.id # None
    BY DEF Inv, Kept, SaveOK
  <2>4. ~EmptyTab.isPersisted /\ EmptyTab.conv.id = None /\ EmptyTab.conv.messages = <<>>
    BY DEF EmptyTab
  <2> QED
    BY <2>1, <2>2, <2>3, <2>4, UnpersistedIsSaved
<1> QED
  BY <1>2, <1>3, <1>4

\* A change of one tab that saves nothing leaves the others saved.
LEMMA OneTabStaysSaved ==
    ASSUME Inv, Inv', TabsSaved, NEW t, NEW tab, Becomes(page', t, tab),
           \A u \in Open(page) \ {t} : Files'[page.tab[u].conv.id] = Files[page.tab[u].conv.id],
           saves' = saves,
           t \in Open(page') => TabSaved(t, tab, saves, Files')
    PROVE  TabsSaved'
<1>1. t \in TabIds => \A u \in Open(page) \ {t} : \A i \in DOMAIN saves[t] :
                        saves[t][i].conv.id # page.tab[u].conv.id
  BY DEF TabsSaved, TabSaved, Elsewhere
<1> QED
  BY <1>1, TabsStaySaved

\* What a change of a tab leaves saved that shows the same conversation.
LEMMA SameIsSaved ==
    ASSUME NEW t, NEW tab \in Tab, NEW next \in Tab, NEW queues, NEW files,
           TabSaved(t, tab, queues, files),
           next.conv = tab.conv, next.isPersisted = tab.isPersisted, next.isLoaded = tab.isLoaded,
           next.isBusy = tab.isBusy, next.locked = tab.locked,
           queues[t] = <<>> \/ next.isHydrating = tab.isHydrating \/ ~next.isHydrating
    PROVE  TabSaved(t, next, queues, files)
<1>1. Shown(next) = Shown(tab)
  <2>1. SaveOf(next, Sent(next.conv), FALSE).conv = SaveOf(tab, Sent(tab.conv), FALSE).conv
    BY DEF SaveOf
  <2> QED
    BY <2>1 DEF Shown
<1> QED
  BY <1>1 DEF TabSaved, QueueOK

\* A step that begins no load makes none the latest.
LEMMA LatestStays ==
    ASSUME Inv, NEW q, NEW t \in Open(page), NEW tab, NEW rs, Becomes(q, t, tab), Commit(q, version, rs),
           NEW l \in loads, Latest(l)'
    PROVE  Latest(l)
<1>1. page' = q /\ version' = [u \in TabIds |-> IF u \in Open(q) THEN version[u] ELSE 0]
  BY DEF Commit
<1>2. l.tab \in TabIds /\ l.tab \in Open(q) /\ version'[l.tab] = l.version
  BY <1>1, OneTabLoads DEF Latest
<1>3. l.tab \notin FreshTabs
  BY <1>2 DEF FreshTabs
<1>4. l.tab \in Open(page)
  BY <1>2, <1>3 DEF Becomes
<1> QED
  BY <1>1, <1>2, <1>4 DEF Latest

\* What is being loaded is shown in no tab that saves, and is no new conversation.
LEMMA NotLoading ==
    ASSUME Inv, NEW l \in loads, Latest(l), l.phase # "paint",
           NEW t \in Open(page), ~page.tab[t].isHydrating,
           NEW c \in {page.tab[t].conv.id} \cup FreshConvs
    PROVE  c # l.conv
<1>1. LatestOK(l) /\ l.tab \in Open(page) /\ l.conv \in ConvIds /\ l.kind \in {"restore", "open"}
  BY OneTabLoads DEF Latest, Load
<1>2. l.tab # t /\ l.conv # None /\ OpenOnce
  BY <1>1, NoneAssumption DEF LatestOK, Inv, PageInv
<1>3. l.kind = "restore" => page.tab[l.tab].conv.id = l.conv
  BY <1>1 DEF LatestOK
<1>4. l.kind = "open" => store[l.conv] # None /\ page.tab[t].conv.id # l.conv
  BY <1>1 DEF LatestOK
<1>5. l.conv \in UsedConvs /\ page.tab[t].conv.id # l.conv
  BY <1>1, <1>2, <1>3, <1>4 DEF UsedConvs, OpenOnce
<1> QED
  BY <1>5 DEF FreshConvs

\* What a tab shows can be the content of a file.
LEMMA ShownIsAFile ==
    ASSUME NEW tab, TabOK(tab)
    PROVE  Shown(tab) \in File /\ Shown(tab) # None
<1>1. tab \in Tab /\ tab.conv \in Conversation /\ tab.conv.messages \in Seq(Message)
  BY DEF TabOK, Tab, Conversation
<1>2. ASSUME NEW conv \in Conversation PROVE FileOf(conv) \in File
  BY DEF FileOf, File, Conversation
<1>3. ASSUME tab.isBusy PROVE SaveOf(tab, Sent(tab.conv), FALSE).conv \in Conversation
  <2> DEFINE sent == SubSeq(tab.conv.messages, 1, Len(tab.conv.messages) - 1)
  <2>1. Len(tab.conv.messages) - 1 \in 0..Len(tab.conv.messages)
    BY <1>1, <1>3, LenProperties DEF TabOK, Asked
  <2>2. sent \in Seq(Message)
    BY <1>1, <2>1, Prefix
  <2>3. Sent(tab.conv) = [tab.conv EXCEPT !.messages = sent]
    BY DEF Sent
  <2> HIDE DEF sent
  <2>4. Sent(tab.conv) \in Conversation
    BY <1>1, <2>2, <2>3 DEF Conversation
  <2> QED
    BY <1>1, <2>4, SaveIsOfConversation DEF Save
<1>4. Shown(tab) \in File
  BY <1>1, <1>2, <1>3 DEF Shown
<1> QED
  BY <1>4, NoneAssumption

\* A send, the end of a turn and a rename queue what their tab then shows.
LEMMA EnqueueKeepsSaved ==
    ASSUME Inv, Inv', TabsSaved, FilesAlternate, LoadsSaved,
           NEW t \in Open(page), NEW next, Becomes(page', t, next),
           \A l \in loads : Latest(l)' => Latest(l),
           loads' = loads, UNCHANGED <<store, unsaved>>,
           NEW save, SaveOK(save), saves' = [saves EXCEPT ![t] = Append(@, save)],
           save.conv.id = next.conv.id, Alternates(save.conv.messages),
           next.isLoaded, ~next.isHydrating, Alternates(next.conv.messages),
           Shown(next) = FileOf(save.conv),
           page.tab[t].isLoaded, ~page.tab[t].isHydrating,
           IF page.tab[t].conv.id = None THEN save.full /\ next.conv.id \in FreshConvs
           ELSE /\ next.conv.id = page.tab[t].conv.id
                /\ ~save.full => Shown(page.tab[t]).title = save.conv.title
    PROVE  TabsSaved' /\ FilesAlternate' /\ LoadsSaved'
<1> DEFINE tab == page.tab[t]
           queue == saves[t]
           longer == Append(queue, save)
           c == next.conv.id
<1>1. /\ t \in TabIds /\ Open(page) \subseteq TabIds /\ TabOK(tab) /\ OpenOnce
      /\ saves \in [TabIds -> Seq(Save)] /\ queue \in Seq(Save) /\ save \in Save
      /\ TabSaved(t, tab, saves, Files)
  BY ScratchIsLast DEF Inv, PageInv, TabInv, Kept, SaveOK, TabsSaved
<1>2. /\ longer \in Seq(Save) /\ Len(longer) = Len(queue) + 1 /\ Len(queue) \in Nat
      /\ \A i \in 1..Len(queue) : longer[i] = queue[i]
      /\ longer[Len(queue) + 1] = save
      /\ DOMAIN longer = 1..(Len(queue) + 1) /\ DOMAIN queue = 1..Len(queue)
  BY <1>1, AppendProperties, LenProperties
<1>3. saves'[t] = longer /\ \A u \in TabIds \ {t} : saves'[u] = saves[u]
  BY <1>1
<1> HIDE DEF longer
<1>4. \A i \in DOMAIN longer : (i \in DOMAIN queue /\ longer[i] = queue[i]) \/ longer[i] = save
  BY <1>2
<1>5. \A i \in DOMAIN longer : longer[i].conv.id = c
  <2>1. \A i \in DOMAIN queue : queue[i].conv.id = c
    <3>1. CASE tab.conv.id = None
      <4>1. queue = <<>>
        BY <3>1, UnpersistedQueue
      <4> QED
        BY <4>1
    <3>2. CASE tab.conv.id # None
      BY <1>1, <3>2 DEF TabSaved, QueueOK
    <3> QED
      BY <3>1, <3>2
  <2> QED
    BY <1>4, <2>1
<1>6. Elsewhere(t, c, saves') /\ \A u \in Open(page) \ {t} : page.tab[u].conv.id # c
  <2>1. CASE tab.conv.id = None
    BY <1>1, <1>3, <2>1 DEF FreshConvs, UsedConvs, Elsewhere
  <2>2. CASE tab.conv.id # None
    <3>1. c = tab.conv.id /\ OpenOnce /\ Elsewhere(t, c, saves)
      BY <1>1, <2>2 DEF TabSaved
    <3>2. \A u \in TabIds \ {t} : saves'[u] = saves[u]
      BY <1>1, <1>3
    <3>3. Elsewhere(t, c, saves')
      BY <3>1, <3>2 DEF Elsewhere
    <3>4. \A u \in Open(page) \ {t} : page.tab[u].conv.id # c
      BY <1>1, <2>2, <3>1 DEF OpenOnce
    <3> QED
      BY <3>3, <3>4
  <2> QED
    BY <2>1, <2>2
<1>7. Chained(longer, Files[c]) /\ Saved(longer, Files[c]) = FileOf(save.conv)
  <2>1. Chained(queue, Files[c])
    <3>1. CASE tab.conv.id = None
      <4>1. DOMAIN queue = {}
        BY <3>1, UnpersistedQueue
      <4> QED
        BY <4>1 DEF Chained
    <3>2. CASE tab.conv.id # None
      BY <1>1, <3>2 DEF TabSaved, QueueOK
    <3> QED
      BY <3>1, <3>2
  <2>2. ASSUME ~save.full
        PROVE  Saved(queue, Files[c]) # None /\ Saved(queue, Files[c]).title = save.conv.title
    <3>1. tab.conv.id = c /\ tab.isPersisted /\ Shown(tab).title = save.conv.title
      BY <1>1, <2>2 DEF TabOK
    <3>2. Saved(queue, Files[c]) = Shown(tab)
      BY <1>1, <3>1 DEF TabSaved, QueueOK
    <3> QED
      BY <1>1, <3>1, <3>2, ShownIsAFile
  <2> QED
    BY <1>1, <2>1, <2>2, Enqueued DEF longer
<1>8. TabSaved(t, next, saves', Files)
  BY <1>3, <1>5, <1>6, <1>7 DEF TabSaved, QueueOK
<1>9. TabsSaved'
  <2>0. Files' = Files
    BY FilesStay
  <2>1. \A u \in Open(page) \ {t} : \A i \in DOMAIN saves'[t] : saves'[t][i].conv.id # page.tab[u].conv.id
    BY <1>3, <1>5, <1>6
  <2>2. \A u \in TabIds \ {t} : saves'[u] = saves[u]
    BY <1>3
  <2> HIDE DEF tab, queue, c
  <2> QED
    BY <1>8, <2>0, <2>1, <2>2, TabsStaySaved
<1>10. FilesAlternate'
  <2>1. \A i \in DOMAIN longer : Alternates(longer[i].conv.messages)
    BY <1>1, <1>4 DEF FilesAlternate
  <2> QED
    BY <1>1, <1>3, <2>1 DEF FilesAlternate
<1>11. LoadsSaved'
  <2> SUFFICES ASSUME NEW l \in loads, Latest(l), l.phase # "paint"
               PROVE  LoadSaved(l, saves', store)
    BY DEF LoadsSaved
  <2>1. LoadSaved(l, saves, store)
    BY DEF LoadsSaved
  <2>2. c # l.conv
    BY NotLoading
  <2> QED
    BY <1>3, <1>5, <2>1, <2>2 DEF LoadSaved
<1> QED
  BY <1>9, <1>10, <1>11

-----------------------------------------------------------------------------
(***************************************************************************)
(* What the steps of a turn leave saved.                                   *)
(***************************************************************************)
\* A request that is not stopped early is not made so by another's.
LEMMA RequestsStay ==
    ASSUME NoEarlyStops, NEW q, NEW versions, NEW rs, Commit(q, versions, rs), NEW t,
           \A u \in TabIds \ {t} : rs[u] = requests[u],
           rs[t] # None /\ rs[t].stopped => rs[t].streamed
    PROVE  NoEarlyStops'
BY DEF NoEarlyStops, Commit

\* A send keeps the tabs saved: its save is queued with what the tab then shows.
LEMMA SendKeepsSaved ==
    ASSUME Inv, Inv', SavedInv, NEW t \in Open(page), NEW score \in Scores \cup {0}, Send(t, score)
    PROVE  SavedInv'
<1> DEFINE tab == page.tab[t]
<1>1. PICK conv, next, request : Sends(t, score, conv, next, request)
  BY SendStep
<1> DEFINE save == SaveOf(tab, conv, FALSE)
           kept == IF tab.editing = 0 THEN tab.conv.messages
                   ELSE SubSeq(tab.conv.messages, 1, tab.editing - 1)
           sent == Append(kept, FromUser(score))
<1>2. /\ Becomes(page', t, next) /\ Commit(page', version, [requests EXCEPT ![t] = request])
      /\ TabOK(next) /\ next.isBusy /\ next.locked = tab.locked /\ ~request.stopped
      /\ next.conv.id = conv.id /\ next.conv.title = conv.title
      /\ next.conv.messages = Append(conv.messages, Placeholder)
      /\ conv \in Conversation /\ conv.title = tab.conv.title
      /\ IF tab.conv.id = None THEN conv.id \in FreshConvs ELSE conv.id = tab.conv.id
      /\ conv.messages = sent
      /\ SaveOK(save) /\ saves' = [saves EXCEPT ![t] = Append(@, save)]
      /\ loads' = loads /\ UNCHANGED <<store, unsaved>>
  BY <1>1 DEF Sends
<1>3. /\ t \in TabIds /\ TabOK(tab) /\ tab.isLoaded /\ ~tab.isHydrating /\ ~tab.isBusy
      /\ DOMAIN requests = TabIds /\ Alternates(tab.conv.messages)
      /\ TabsSaved /\ FilesAlternate /\ NoEarlyStops /\ LoadsSaved
  BY ScratchIsLast DEF Inv, PageInv, TabInv, Send, MaySend, SavedInv, TabsSaved, TabSaved
<1>4. tab \in Tab /\ tab.conv.messages \in Seq(Message) /\ tab.editing \in Nat
      /\ tab.editing <= Len(tab.conv.messages)
  BY <1>3 DEF TabOK, Tab, Settled
<1>5. /\ Alternates(conv.messages) /\ Alternates(next.conv.messages)
  <2> DEFINE messages == tab.conv.messages
             editing == tab.editing
  <2>1. kept = IF editing = 0 THEN messages ELSE SubSeq(messages, 1, editing - 1)
    OBVIOUS
  <2>2. conv.messages = Append(kept, FromUser(score))
    BY <1>2
  <2>3. messages \in Seq(Message) /\ Alternates(messages) /\ editing \in Nat /\ editing <= Len(messages)
    BY <1>3, <1>4
  <2> HIDE DEF kept, messages, editing
  <2>4. Alternates(conv.messages) /\ Alternates(Append(conv.messages, Placeholder))
    BY <2>1, <2>2, <2>3, SendAlternates
  <2> QED
    BY <1>2, <2>4
<1>6. /\ save.conv.id = conv.id /\ save.conv.messages = conv.messages
      /\ save.full <=> ~tab.isPersisted \/ save.conv.title # conv.title
  BY <1>2, <1>4, SaveIsOfConversation
<1>7. Shown(next) = FileOf(save.conv)
  <2>1. /\ conv.messages \in Seq(Message) /\ Placeholder \in Message /\ next.conv \in Conversation
    BY <1>2, MessageTypes DEF Conversation, TabOK, Tab
  <2>2. SubSeq(next.conv.messages, 1, Len(next.conv.messages) - 1) = conv.messages
    <3>1. SubSeq(Append(conv.messages, Placeholder), 1, Len(Append(conv.messages, Placeholder)) - 1)
            = conv.messages
      BY <2>1, FrontOfAppend
    <3> QED
      BY <1>2, <3>1
  <2>3. Sent(next.conv) = conv
    <3>1. Sent(next.conv) = [next.conv EXCEPT !.messages = conv.messages]
      BY <2>2 DEF Sent
    <3> QED
      BY <1>2, <2>1, <3>1 DEF Conversation
  <2>4. SaveOf(next, conv, FALSE).conv = save.conv
    BY <1>2 DEF SaveOf
  <2> QED
    BY <1>2, <2>3, <2>4 DEF Shown
<1>8. \A l \in loads : Latest(l)' => Latest(l)
  BY <1>2, LatestStays
<1>9. next.isLoaded /\ ~next.isHydrating
  BY <1>2 DEF TabOK
<1>10. IF tab.conv.id = None THEN save.full /\ next.conv.id \in FreshConvs
       ELSE next.conv.id = tab.conv.id /\ (~save.full => Shown(tab).title = save.conv.title)
  <2>1. Shown(tab).title = conv.title
    BY <1>2, <1>3 DEF Shown, FileOf
  <2> QED
    BY <1>2, <1>3, <1>6, <2>1 DEF TabOK
<1>11. TabsSaved' /\ FilesAlternate' /\ LoadsSaved'
  <2> HIDE DEF save, kept, sent
  <2> QED
    BY <1>2, <1>3, <1>5, <1>6, <1>7, <1>8, <1>9, <1>10, EnqueueKeepsSaved
<1>12. NoEarlyStops'
  <2> DEFINE rs == [requests EXCEPT ![t] = request]
  <2>1. rs[t] = request /\ \A u \in TabIds \ {t} : rs[u] = requests[u]
    BY <1>3
  <2>2. Commit(page', version, rs)
    BY <1>2
  <2> HIDE DEF rs
  <2>3. rs[t] # None /\ rs[t].stopped => rs[t].streamed
    BY <1>2, <2>1
  <2> QED
    BY <1>3, <2>1, <2>2, <2>3, RequestsStay
<1> QED
  BY <1>2, <1>11, <1>12 DEF SavedInv

\* The end of a turn keeps the tabs saved: it saves under the title of its send.
LEMMA SettleKeepsSaved ==
    ASSUME ~LateRenames, Inv, Inv', SavedInv, NEW t \in TabIds, requests[t] # None,
           NEW state \in {"answer", "calls", "failed", "stopped"}, Settle(t, state),
           UNCHANGED <<loads, store, unsaved>>
    PROVE  SavedInv'
<1> DEFINE tab == page.tab[t]
           asked == requests[t].asked
           sent == SubSeq(tab.conv.messages, 1, Len(tab.conv.messages) - 1)
           answer == FromAssistant(state)
<1>1. PICK conv, next : Settles(t, state, conv, next)
  BY SettleStep
<1> DEFINE save == SaveOf(tab, conv, FALSE)
<1>2. /\ Becomes(page', t, next) /\ Commit(page', version, [requests EXCEPT ![t] = None])
      /\ t \in Open(page) /\ tab.isBusy /\ TabOK(tab) /\ RequestOK(tab, requests[t])
      /\ TabOK(next) /\ ~next.isBusy /\ ~next.isHydrating
      /\ next.conv = save.conv
      /\ conv \in Conversation /\ conv.id = tab.conv.id /\ conv.title = asked.title
      /\ conv.messages = [asked.messages EXCEPT ![Len(asked.messages)] = answer]
      /\ conv.messages # <<>> /\ next.conv.id = conv.id /\ next.conv.messages = conv.messages
      /\ SaveOK(save) /\ saves' = [saves EXCEPT ![t] = Append(@, save)]
  BY <1>1 DEF Settles
<1>3. /\ tab \in Tab /\ tab.conv \in Conversation /\ tab.conv.id # None
      /\ tab.isLoaded /\ ~tab.isHydrating /\ Asked(tab.conv.messages)
      /\ asked.messages = tab.conv.messages /\ asked.title = tab.conv.title
      /\ DOMAIN requests = TabIds
  BY <1>2 DEF TabOK, RequestOK, Tab, Inv, PageInv
<1>4. /\ Alternates(tab.conv.messages)
      /\ TabsSaved /\ FilesAlternate /\ NoEarlyStops /\ LoadsSaved
  BY <1>2 DEF SavedInv, TabsSaved, TabSaved
<1>5. /\ Alternates(conv.messages)
      /\ sent \in Seq(Message) /\ sent # <<>> /\ Alternates(sent) /\ sent[Len(sent)].role = "user"
      /\ conv.messages = Append(sent, answer)
  <2>1. conv.messages = [tab.conv.messages EXCEPT ![Len(tab.conv.messages)] = answer]
    BY <1>2, <1>3
  <2> DEFINE messages == tab.conv.messages
             after == [messages EXCEPT ![Len(messages)] = answer]
             before == SubSeq(messages, 1, Len(messages) - 1)
  <2>2. /\ Alternates(after)
        /\ before \in Seq(Message) /\ before # <<>> /\ Alternates(before)
        /\ before[Len(before)].role = "user"
        /\ after = Append(before, answer)
    <3>1. Asked(messages) /\ Alternates(messages)
      BY <1>3, <1>4
    <3> HIDE DEF messages
    <3> QED
      BY <3>1, AnswerAlternates
  <2>3. before = sent
    OBVIOUS
  <2> HIDE DEF before, sent
  <2> QED
    BY <2>1, <2>2, <2>3
<1>6. Sent(tab.conv) \in Conversation /\ Sent(tab.conv).messages = sent
      /\ Sent(tab.conv).title = conv.title
  <2>1. Sent(tab.conv) = [tab.conv EXCEPT !.messages = sent]
    BY DEF Sent
  <2> HIDE DEF sent, asked
  <2> QED
    BY <1>2, <1>3, <1>5, <2>1 DEF Conversation
<1>7. save.conv.title = SaveOf(tab, Sent(tab.conv), FALSE).conv.title
  <2>1. answer \in Message /\ answer.role # "user"
    BY MessageTypes DEF FromAssistant
  <2> DEFINE before == Sent(tab.conv)
  <2>2. /\ before \in Conversation /\ before.messages # <<>> /\ Alternates(before.messages)
        /\ before.messages[Len(before.messages)].role = "user"
        /\ conv.title = before.title /\ conv.messages = Append(before.messages, answer)
    BY <1>5, <1>6
  <2> HIDE DEF before, sent, answer
  <2>3. SaveOf(tab, conv, FALSE).conv.title = SaveOf(tab, before, FALSE).conv.title
    <3>1. tab \in Tab /\ conv \in Conversation
      BY <1>2, <1>3
    <3> HIDE DEF tab
    <3> QED
      BY <2>1, <2>2, <3>1, TurnHasOneTitle
  <2> QED
    BY <2>3 DEF before
<1>8. Shown(tab).title = save.conv.title /\ Shown(next) = FileOf(save.conv)
  BY <1>2, <1>7 DEF Shown, FileOf
<1>9. \A l \in loads : Latest(l)' => Latest(l)
  BY <1>2, LatestStays
<1>10. next.isLoaded /\ save.conv.id = next.conv.id
       /\ Alternates(save.conv.messages) /\ Alternates(next.conv.messages)
  BY <1>2, <1>5 DEF TabOK
<1>11. TabsSaved' /\ FilesAlternate' /\ LoadsSaved'
  <2> HIDE DEF save, sent, asked, answer
  <2> QED
    BY <1>2, <1>3, <1>4, <1>8, <1>9, <1>10, EnqueueKeepsSaved
<1>12. NoEarlyStops'
  <2> DEFINE rs == [requests EXCEPT ![t] = None]
  <2>1. rs[t] = None /\ \A u \in TabIds \ {t} : rs[u] = requests[u]
    BY <1>3
  <2>2. Commit(page', version, rs)
    BY <1>2
  <2> HIDE DEF rs
  <2> QED
    BY <1>4, <2>1, <2>2, RequestsStay
<1> QED
  BY <1>11, <1>12 DEF SavedInv

\* A rename outside a turn keeps the tabs saved.
LEMMA RenameKeepsSaved ==
    ASSUME ~LateRenames, Inv, Inv', SavedInv, NEW title \in ManualTitles, FinishRename(title)
    PROVE  SavedInv'
<1> DEFINE t == renaming
           tab == page.tab[t]
           conv == [tab.conv EXCEPT !.title = title]
           next == AfterSave(tab, conv, TRUE)
           save == SaveOf(tab, conv, TRUE)
<1>1. /\ t # None /\ ~tab.isBusy
      /\ UNCHANGED <<requests, loads, version, store, unsaved>>
      /\ IF tab.conv.title = title THEN UNCHANGED <<page, saves>>
         ELSE /\ saves' = [saves EXCEPT ![t] = Append(@, save)]
              /\ page' = UpdateTab(page, t, next, None)
  BY DEF FinishRename, EnqueueSave, SaveUpdated, AfterSave
<1>2. /\ t \in Open(page) /\ t \in TabIds /\ tab.conv.messages # <<>> /\ ~tab.isHydrating
      /\ TabOK(tab) /\ Normal(page)
  BY <1>1, ScratchIsLast DEF Inv, PageInv, RenameInv, TabInv
<1>3. tab \in Tab /\ tab.conv \in Conversation /\ Settled(tab.conv.messages)
      /\ tab.isPersisted /\ tab.isLoaded /\ tab.conv.id # None
  BY <1>1, <1>2 DEF TabOK, Tab
<1>4. /\ TabsSaved /\ FilesAlternate /\ NoEarlyStops /\ LoadsSaved /\ Alternates(tab.conv.messages)
  BY <1>2 DEF SavedInv, TabsSaved, TabSaved
<1>5. CASE tab.conv.title = title
  BY <1>1, <1>4, <1>5
     DEF SavedInv, TabsSaved, FilesAlternate, NoEarlyStops, LoadsSaved, Latest, Files, Meant
<1>6. CASE tab.conv.title # title
  <2>1. conv \in Conversation /\ conv.id = tab.conv.id /\ conv.messages = tab.conv.messages
    BY <1>3 DEF Conversation, Titles
  <2> HIDE DEF conv
  <2>2. /\ next \in Tab /\ next.conv = save.conv /\ next.isLoaded /\ ~next.isHydrating
        /\ next.isBusy = tab.isBusy /\ ~IsScratch(next)
    BY <1>3, <2>1, AfterSaveIsATab
  <2>3. /\ save \in Save /\ save.conv.id = tab.conv.id /\ save.conv.messages = tab.conv.messages
        /\ save.full
    BY <1>3, <2>1, SaveIsOfConversation
  <2> HIDE DEF next, save
  <2>4. /\ page' = UpdateTab(page, t, next, None) /\ saves' = [saves EXCEPT ![t] = Append(@, save)]
    BY <1>1, <1>6
  <2>5. ~IsScratch(tab)
    BY <1>3 DEF IsScratch
  <2>6. /\ Normal(page') /\ Open(page') = Open(page)
        /\ \A u \in Open(page) : page'.tab[u] = IF u = t THEN next ELSE page.tab[u]
    BY <1>2, <2>2, <2>4, <2>5, UpdateNormalizes
  <2>7. Becomes(page', t, next)
    BY <2>6 DEF Becomes
  <2>8. \A l \in loads : Latest(l)' => Latest(l)
    BY <1>1, <2>6 DEF Latest
  <2>9. SaveOK(save)
    BY <1>3, <2>3 DEF SaveOK
  <2>10. Shown(next) = FileOf(save.conv)
    BY <1>1, <2>2 DEF Shown
  <2>11. TabsSaved' /\ FilesAlternate' /\ LoadsSaved'
    BY <1>1, <1>2, <1>3, <1>4, <2>2, <2>3, <2>4, <2>7, <2>8, <2>9, <2>10, EnqueueKeepsSaved
  <2> QED
    BY <1>1, <1>4, <2>11 DEF SavedInv, NoEarlyStops
<1> QED
  BY <1>5, <1>6

-----------------------------------------------------------------------------
(***************************************************************************)
(* What the end of a save, and a step of the bar, leave saved.             *)
(***************************************************************************)
\* The head of a queue is written, refused, or finds no file of its title and is dropped.
LEMMA SaveDone ==
    ASSUME Inv, SavedInv, NEW t \in TabIds, SaveStep(t)
    PROVE  LET queue == saves[t]
               conv == Head(queue).conv
           IN  /\ queue \in Seq(Save) /\ queue # <<>> /\ saves \in [TabIds -> Seq(Save)]
               /\ 1 \in DOMAIN queue /\ Head(queue) = queue[1] /\ SaveOK(Head(queue))
               /\ saves' = [saves EXCEPT ![t] = Tail(queue)]
               /\ \A i \in DOMAIN Tail(queue) : \E j \in DOMAIN queue : Tail(queue)[i] = queue[j]
               /\ conv \in Conversation /\ conv.id \in ConvIds /\ store \in [ConvIds -> File \cup {None}]
               /\ UNCHANGED <<page, requests, loads, version>>
               /\ store' = store \/ store' = [store EXCEPT ![conv.id] = FileOf(conv)]
               /\ \/ Files' = [Files EXCEPT ![conv.id] = FileOf(conv)]
                  \/ ~Head(queue).full /\ (Files[conv.id] = None \/ Files[conv.id].title # conv.title)
               /\ \A c \in ConvIds \ {conv.id} : Files'[c] = Files[c]
               /\ DOMAIN unsaved' = ConvIds
<1> DEFINE queue == saves[t]
           head == Head(queue)
<1>1. /\ queue # <<>> /\ saves' = [saves EXCEPT ![t] = Tail(queue)]
      /\ UNCHANGED <<page, requests, loads, version>>
  BY DEF SaveStep, PutConversation, PutMessages, SaveRefused
<1>2. /\ store \in [ConvIds -> File \cup {None}] /\ saves \in [TabIds -> Seq(Save)]
      /\ \A i \in DOMAIN queue : SaveOK(queue[i])
  BY DEF Inv, Kept
<1>3. queue \in Seq(Save) /\ 1 \in DOMAIN queue /\ head = queue[1]
  BY <1>1, <1>2, LenProperties, EmptySeq
<1>4. \A i \in DOMAIN Tail(queue) : \E j \in DOMAIN queue : Tail(queue)[i] = queue[j]
  <2>1. /\ Tail(queue) \in Seq(Save) /\ Len(Tail(queue)) = Len(queue) - 1
        /\ \A i \in 1..Len(Tail(queue)) : Tail(queue)[i] = queue[i + 1]
    BY <1>1, <1>3, HeadTailProperties
  <2> DEFINE rest == Tail(queue)
  <2> HIDE DEF rest, queue
  <2> SUFFICES ASSUME NEW i \in DOMAIN rest PROVE \E j \in DOMAIN queue : rest[i] = queue[j]
    BY DEF rest
  <2>2. DOMAIN queue = 1..Len(queue) /\ DOMAIN rest = 1..Len(rest) /\ Len(queue) \in Nat
    BY <1>3, <2>1, LenProperties DEF rest
  <2>3. Len(rest) = Len(queue) - 1
    BY <2>1 DEF rest
  <2>4. i + 1 \in DOMAIN queue
    BY <2>2, <2>3
  <2>5. rest[i] = queue[i + 1]
    BY <2>1, <2>2 DEF rest
  <2> QED
    BY <2>4, <2>5
<1>5. SaveOK(head) /\ head.conv \in Conversation /\ head.conv.id \in ConvIds
  <2>1. SaveOK(head)
    BY <1>2, <1>3
  <2> HIDE DEF head
  <2> QED
    BY <2>1 DEF SaveOK, Save, Conversation
<1>6. PICK c, meant : c = head.conv.id /\ meant = FileOf(head.conv)
  OBVIOUS
<1>7. DOMAIN unsaved = ConvIds
  BY DEF SavedInv
<1>8. /\ meant # None /\ c \in ConvIds /\ c # None /\ DOMAIN store = ConvIds
      /\ meant.title = head.conv.title
  BY <1>2, <1>5, <1>6, NoneAssumption DEF FileOf, File, Conversation
<1>9. /\ store' = store \/ store' = [store EXCEPT ![c] = meant]
      /\ Files'[c] = meant \/ (~head.full /\ (Files[c] = None \/ Files[c].title # head.conv.title))
      /\ \A d \in ConvIds \ {c} : unsaved'[d] = unsaved[d]
      /\ DOMAIN unsaved' = ConvIds
  <2>1. CASE PutConversation(t)
    <3>1. store' = [store EXCEPT ![c] = meant] /\ unsaved' = [unsaved EXCEPT ![c] = None]
      BY <1>6, <2>1 DEF PutConversation
    <3>2. Files'[c] = meant
      BY <1>7, <1>8, <3>1 DEF Files, Meant
    <3> QED
      BY <1>7, <3>1, <3>2
  <2>2. CASE PutMessages(t)
    <3> DEFINE file == store[c]
    <3>1. /\ ~head.full
          /\ store' = IF file # None /\ file.title = head.conv.title
                      THEN [store EXCEPT ![c].messages = head.conv.messages] ELSE store
          /\ unsaved' = [unsaved EXCEPT ![c] =
                           IF (file # None /\ file.title = head.conv.title) \/ @ = None
                           THEN None ELSE meant]
      BY <1>6, <2>2 DEF PutMessages
    <3>2. CASE file # None /\ file.title = head.conv.title
      <4>1. file \in File
        BY <1>2, <1>8, <3>2
      <4>2. [file EXCEPT !.messages = head.conv.messages] = meant
        BY <1>6, <3>2, <4>1 DEF File, FileOf
      <4>3. store' = [store EXCEPT ![c] = [file EXCEPT !.messages = head.conv.messages]]
        BY <3>1, <3>2
      <4>4. store' = [store EXCEPT ![c] = meant] /\ unsaved' = [unsaved EXCEPT ![c] = None]
        BY <3>1, <3>2, <4>2, <4>3
      <4>5. Files'[c] = meant
        BY <1>7, <1>8, <4>4 DEF Files, Meant
      <4> QED
        BY <1>7, <4>4, <4>5
    <3>3. CASE ~(file # None /\ file.title = head.conv.title)
      <4>1. /\ store' = store /\ ~head.full
            /\ unsaved' = [unsaved EXCEPT ![c] = IF @ = None THEN None ELSE meant]
        BY <3>1, <3>3
      <4>2. unsaved[c] = None => Files[c] = None \/ Files[c].title # head.conv.title
        BY <1>8, <3>3 DEF Files, Meant
      <4>3. unsaved[c] # None => Files'[c] = meant
        BY <1>7, <1>8, <4>1 DEF Files, Meant
      <4> QED
        BY <1>7, <4>1, <4>2, <4>3
    <3> QED
      BY <3>2, <3>3
  <2>3. CASE SaveRefused(t)
    <3>1. store' = store /\ unsaved' = [unsaved EXCEPT ![c] = meant]
      BY <1>6, <2>3 DEF SaveRefused
    <3>2. Files'[c] = meant
      BY <1>7, <1>8, <3>1 DEF Files, Meant
    <3> QED
      BY <1>7, <3>1, <3>2
  <2> QED
    BY <2>1, <2>2, <2>3 DEF SaveStep
<1>10. \A d \in ConvIds \ {c} : Files'[d] = Files[d]
  <2>1. \A d \in ConvIds \ {c} : store'[d] = store[d]
    BY <1>8, <1>9
  <2> QED
    BY <1>9, <2>1 DEF Files, Meant
<1>11. Files'[c] = meant => Files' = [Files EXCEPT ![c] = meant]
  <2>1. /\ Files = [d \in ConvIds \cup {None} |-> Files[d]]
        /\ Files' = [d \in ConvIds \cup {None} |-> Files'[d]]
        /\ Files'[None] = Files[None]
    BY NoneAssumption DEF Files
  <2> QED
    BY <1>8, <1>10, <2>1
<1>12. /\ store' = store \/ store' = [store EXCEPT ![head.conv.id] = FileOf(head.conv)]
       /\ \/ Files' = [Files EXCEPT ![head.conv.id] = FileOf(head.conv)]
          \/ /\ ~head.full
             /\ Files[head.conv.id] = None \/ Files[head.conv.id].title # head.conv.title
       /\ \A d \in ConvIds \ {head.conv.id} : Files'[d] = Files[d]
  BY <1>6, <1>9, <1>10, <1>11
<1> QED
  BY <1>1, <1>2, <1>3, <1>4, <1>5, <1>9, <1>12

\* A save that is done keeps the tabs saved.
LEMMA SaveKeepsSaved ==
    ASSUME Inv, SavedInv, NEW t \in TabIds, SaveStep(t)
    PROVE  SavedInv'
<1> DEFINE queue == saves[t]
           conv == Head(queue).conv
<1>1. /\ queue \in Seq(Save) /\ queue # <<>> /\ saves \in [TabIds -> Seq(Save)]
      /\ 1 \in DOMAIN queue /\ Head(queue) = queue[1] /\ SaveOK(Head(queue))
      /\ saves' = [saves EXCEPT ![t] = Tail(queue)]
      /\ \A i \in DOMAIN Tail(queue) : \E j \in DOMAIN queue : Tail(queue)[i] = queue[j]
      /\ conv \in Conversation /\ conv.id \in ConvIds /\ store \in [ConvIds -> File \cup {None}]
      /\ UNCHANGED <<page, requests, loads, version>>
      /\ store' = store \/ store' = [store EXCEPT ![conv.id] = FileOf(conv)]
      /\ \/ Files' = [Files EXCEPT ![conv.id] = FileOf(conv)]
         \/ ~Head(queue).full /\ (Files[conv.id] = None \/ Files[conv.id].title # conv.title)
      /\ \A c \in ConvIds \ {conv.id} : Files'[c] = Files[c]
      /\ DOMAIN unsaved' = ConvIds
  BY SaveDone
<1>2. saves'[t] = Tail(queue) /\ \A u \in TabIds \ {t} : saves'[u] = saves[u]
  BY <1>1
<1>3. \A u \in TabIds : \A i \in DOMAIN saves'[u] : \E j \in DOMAIN saves[u] : saves'[u][i] = saves[u][j]
  BY <1>1, <1>2
<1>4. \A c \in ConvIds \ {conv.id} : store'[c] = store[c]
  BY <1>1
<1>5. TabsSaved /\ FilesAlternate /\ NoEarlyStops /\ LoadsSaved /\ Open(page) \subseteq TabIds
  BY ScratchIsLast DEF SavedInv, Inv, PageInv
<1>6. FilesAlternate'
  <2>1. Alternates(FileOf(conv).messages)
    BY <1>1, <1>5 DEF FilesAlternate, FileOf
  <2>2. \A c \in ConvIds : store'[c] # None => Alternates(store'[c].messages)
    BY <1>1, <1>4, <1>5, <2>1 DEF FilesAlternate
  <2>3. \A u \in TabIds : \A i \in DOMAIN saves'[u] : Alternates(saves'[u][i].conv.messages)
    BY <1>3, <1>5 DEF FilesAlternate
  <2> QED
    BY <2>2, <2>3 DEF FilesAlternate
<1>7. LoadsSaved'
  <2> SUFFICES ASSUME NEW l \in loads, Latest(l), l.phase # "paint"
               PROVE  LoadSaved(l, saves', store')
    BY <1>1 DEF LoadsSaved, Latest
  <2>1. LoadSaved(l, saves, store) /\ l.conv \in ConvIds
    BY <1>5, OneTabLoads DEF LoadsSaved
  <2>2. conv.id # l.conv
    BY <1>1, <2>1 DEF LoadSaved
  <2> QED
    BY <1>3, <1>4, <2>1, <2>2 DEF LoadSaved
<1>8. TabsSaved'
  <2> SUFFICES ASSUME NEW u \in Open(page) PROVE TabSaved(u, page.tab[u], saves', Files')
    BY <1>1 DEF TabsSaved
  <2> DEFINE tab == page.tab[u]
             c == tab.conv.id
  <2>1. u \in TabIds /\ TabSaved(u, tab, saves, Files)
    BY <1>5 DEF TabsSaved
  <2>2. TabOK(tab) /\ c \in ConvIds \cup {None}
    BY <2>1 DEF Inv, PageInv, TabInv, TabOK, Tab, Conversation
  <2>3. Elsewhere(u, c, saves')
    BY <1>3, <2>1 DEF TabSaved, Elsewhere
  <2>4. CASE c = None
    <3>1. saves[u] = <<>> /\ ~tab.isPersisted /\ tab.conv.messages = <<>>
      BY <1>5, <2>4, UnpersistedQueue
    <3>2. saves'[u] = <<>>
      BY <1>1, <1>2, <2>1, <3>1
    <3>3. \A v \in TabIds : \A i \in DOMAIN saves'[v] : saves'[v][i].conv.id # None
      BY <1>3 DEF Inv, Kept, SaveOK
    <3> QED
      BY <2>4, <3>1, <3>2, <3>3, UnpersistedIsSaved
  <2>5. CASE c # None /\ u # t
    <3>1. conv.id # c
      BY <1>1, <2>1, <2>5 DEF TabSaved, Elsewhere
    <3>2. saves'[u] = saves[u] /\ Files'[c] = Files[c]
      BY <1>1, <1>2, <2>1, <2>2, <2>5, <3>1
    <3>3. QueueOK(tab, saves'[u], Files'[c]) /\ Alternates(tab.conv.messages)
      BY <2>1, <3>2 DEF TabSaved
    <3> QED
      BY <2>3, <3>3 DEF TabSaved
  <2>6. CASE c # None /\ u = t
    <3>1. /\ \A i \in DOMAIN queue : queue[i].conv.id = c
          /\ tab.isLoaded /\ ~tab.isHydrating /\ Chained(queue, Files[c])
          /\ tab.isPersisted /\ tab.isLoaded => Saved(queue, Files[c]) = Shown(tab)
          /\ Alternates(tab.conv.messages)
      BY <1>1, <2>1, <2>6 DEF TabSaved, QueueOK
    <3>2. conv.id = c
      BY <1>1, <3>1
    <3>3. Files'[c] = FileOf(conv)
      <4>1. ~Head(queue).full => Files[c] # None /\ Files[c].title = conv.title
        BY <1>1, <3>1 DEF Chained
      <4>2. Files' = [Files EXCEPT ![conv.id] = FileOf(conv)]
        BY <1>1, <3>2, <4>1
      <4>3. conv.id \in DOMAIN Files
        BY <1>1 DEF Files
      <4> QED
        BY <1>1, <3>2, <4>2, <4>3
    <3>4. /\ Chained(Tail(queue), FileOf(conv))
          /\ Saved(Tail(queue), FileOf(conv)) = Saved(queue, Files[c])
      BY <1>1, <3>1, Dequeued
    <3>5. \A i \in DOMAIN Tail(queue) : Tail(queue)[i].conv.id = c
      <4>1. \A i \in DOMAIN Tail(queue) : \E j \in DOMAIN queue : Tail(queue)[i] = queue[j]
        BY <1>1
      <4>2. \A i \in DOMAIN queue : queue[i].conv.id = c
        BY <3>1
      <4> HIDE DEF queue, c
      <4> QED
        BY <4>1, <4>2
    <3>6. QueueOK(tab, saves'[u], Files'[c])
      BY <1>2, <2>6, <3>1, <3>3, <3>4, <3>5 DEF QueueOK
    <3> QED
      BY <2>3, <3>1, <3>6 DEF TabSaved
  <2> QED
    BY <2>4, <2>5, <2>6
<1> QED
  BY <1>1, <1>5, <1>6, <1>7, <1>8 DEF SavedInv, NoEarlyStops

\* The tabs stay, with what they show.
LEMMA SameTabsAreSaved ==
    ASSUME Inv, SavedInv, Open(page') = Open(page),
           \A u \in Open(page) : TabSaved(u, page'.tab[u], saves, Files),
           UNCHANGED <<requests, loads, version, saves, store, unsaved>>
    PROVE  SavedInv'
<1>1. Files' = Files
  BY FilesStay
<1> QED
  BY <1>1 DEF SavedInv, TabsSaved, FilesAlternate, NoEarlyStops, LoadsSaved, Latest

\* The selection of another tab keeps the tabs saved.
LEMMA SelectKeepsSaved ==
    ASSUME Inv, SavedInv, NEW t, page' = Select(page, t),
           UNCHANGED <<requests, loads, version, saves, store, unsaved>>
    PROVE  SavedInv'
<1>1. page'.tab = page.tab /\ page'.order = page.order
  BY DEF Select, Inv, PageInv, Normal, WellFormed, Page
<1>2. Open(page') = Open(page) /\ \A u \in Open(page) : TabSaved(u, page'.tab[u], saves, Files)
  BY <1>1 DEF Open, SavedInv, TabsSaved
<1> QED
  BY <1>2, SameTabsAreSaved

\* Editing keeps the tabs saved.
LEMMA EditKeepsSaved ==
    ASSUME Inv, SavedInv, NEW t \in Open(page),
           (\E i \in Editable : BeginEdit(t, i)) \/ CancelEditing(t)
    PROVE  SavedInv'
<1> DEFINE tab == page.tab[t]
<1>1. PICK i \in Nat : /\ page' = [page EXCEPT !.tab[t].editing = i]
                       /\ UNCHANGED <<requests, loads, version, saves, store, unsaved>>
  BY BoundsAssumption DEF BeginEdit, CancelEditing
<1> DEFINE next == [tab EXCEPT !.editing = i]
<1>2. /\ page \in Page /\ page.tab \in [TabIds -> Tab \cup {None}] /\ t \in TabIds /\ tab \in Tab
      /\ Open(page) \subseteq TabIds
  BY ScratchIsLast DEF Inv, PageInv, TabInv, TabOK, Normal, WellFormed, Page
<1>3. /\ next \in Tab /\ next.conv = tab.conv /\ next.isPersisted = tab.isPersisted
      /\ next.isLoaded = tab.isLoaded /\ next.isBusy = tab.isBusy /\ next.locked = tab.locked
      /\ next.isHydrating = tab.isHydrating
  BY <1>2 DEF Tab
<1> HIDE DEF next
<1>4. TabsSaved
  BY DEF SavedInv
<1>5. TabSaved(t, next, saves, Files)
  <2>1. TabSaved(t, tab, saves, Files)
    BY <1>4 DEF TabsSaved
  <2> HIDE DEF tab
  <2> QED
    BY <1>2, <1>3, <2>1, SameIsSaved
<1>6. /\ Open(page') = Open(page)
      /\ \A u \in Open(page) : page'.tab[u] = IF u = t THEN next ELSE page.tab[u]
  BY <1>1, <1>2 DEF Open, Page, next
<1>7. \A u \in Open(page) : TabSaved(u, page'.tab[u], saves, Files)
  BY <1>4, <1>5, <1>6 DEF TabsSaved
<1> QED
  BY <1>1, <1>6, <1>7, SameTabsAreSaved

\* A tab is closed, or shows what is saved.
LEMMA CommitKeepsSaved ==
    ASSUME Inv, Inv', SavedInv, NEW q, NEW t, NEW tab, NEW versions,
           Becomes(q, t, tab), Commit(q, versions, requests), UNCHANGED <<saves, store>>,
           DOMAIN unsaved' = ConvIds,
           \A u \in Open(page) \ {t} : Files'[page.tab[u].conv.id] = Files[page.tab[u].conv.id],
           t \in Open(q) => TabSaved(t, tab, saves, Files'), LoadsSaved'
    PROVE  SavedInv'
<1>1. page' = q
  BY DEF Commit
<1>2. TabsSaved'
  BY <1>1, OneTabStaysSaved DEF SavedInv
<1>3. NoEarlyStops'
  BY DEF SavedInv, NoEarlyStops, Commit
<1> QED
  BY <1>2, <1>3 DEF SavedInv, FilesAlternate

\* Closing a tab keeps the others saved; its own queue goes on.
LEMMA CloseKeepsSaved ==
    ASSUME Inv, Inv', SavedInv, NEW t \in Open(page), CloseTab(t)
    PROVE  SavedInv'
<1>1. PICK q : /\ t \notin Open(q) /\ Becomes(q, t, EmptyTab)
               /\ Commit(q, version, requests)
               /\ UNCHANGED <<loads, saves, store, unsaved, disk, restarts>>
  BY CloseStep
<1>2. LoadsSaved'
  BY <1>1, LatestStays DEF SavedInv, LoadsSaved
<1>3. Files' = Files /\ DOMAIN unsaved' = ConvIds
  BY <1>1, FilesStay DEF SavedInv
<1> QED
  BY <1>1, <1>2, <1>3, CommitKeepsSaved

-----------------------------------------------------------------------------
(***************************************************************************)
(* What the loads leave saved, and a restart.                              *)
(***************************************************************************)
\* A load begun when nothing of its conversation is queued keeps the tabs saved.
LEMMA StartKeepsSaved ==
    ASSUME Inv, Inv', SavedInv, NEW p, Normal(p), p.tab = page.tab, Open(p) = Open(page), NEW t \in Open(page),
           NEW kind \in {"restore", "open"}, NEW conv \in ConvIds, NEW title \in Titles,
           StartLoad(p, t, kind, conv, title), UNCHANGED <<saves, store, unsaved>>,
           ~page.tab[t].isBusy, saves[t] = <<>>,
           \A u \in TabIds : \A i \in DOMAIN saves[u] : saves[u][i].conv.id # conv
    PROVE  SavedInv'
<1> DEFINE tab == page.tab[t]
           next == [tab EXCEPT !.isHydrating = TRUE, !.isBusy = FALSE, !.editing = 0]
           versions == [version EXCEPT ![t] = @ + 1]
           q == UpdateTab(p, t, next, FreshTab)
<1> PICK n : n = [tab |-> t, version |-> version[t] + 1, kind |-> kind, conv |-> conv,
                  title |-> title, phase |-> "fetch", found |-> None]
  OBVIOUS
<1>1. /\ \A l \in loads : l.tab = t
      /\ loads' = loads \cup {n}
      /\ Commit(q, versions, requests)
  BY DEF StartLoad
<1>2. /\ t \in TabIds /\ tab \in Tab /\ version \in [TabIds -> Nat] /\ TabsSaved /\ LoadsSaved
  BY ScratchIsLast DEF Inv, PageInv, TabInv, TabOK, SavedInv
<1>3. /\ next \in Tab /\ next.conv = tab.conv /\ next.isPersisted = tab.isPersisted
      /\ next.isLoaded = tab.isLoaded /\ next.isBusy = tab.isBusy /\ next.locked = tab.locked
  BY <1>2 DEF Tab
<1> HIDE DEF next
<1>4. Becomes(q, t, next)
  <2>1. IsScratch(next) \/ ~IsScratch(page.tab[t])
    BY <1>3 DEF IsScratch
  <2> QED
    BY <1>3, <2>1, UpdateBecomes
<1> HIDE DEF q
<1>5. TabSaved(t, next, saves, Files)
  <2>1. TabSaved(t, tab, saves, Files)
    BY <1>2 DEF TabsSaved
  <2> HIDE DEF tab
  <2> QED
    BY <1>2, <1>3, <2>1, SameIsSaved
<1>6. LoadsSaved'
  <2> SUFFICES ASSUME NEW l \in loads', Latest(l)', l.phase # "paint" PROVE LoadSaved(l, saves, store)
    BY DEF LoadsSaved
  <2>1. CASE l = n
    BY <2>1 DEF LoadSaved
  <2>2. CASE l # n
    <3>1. l \in loads /\ l.tab = t /\ l.version \in Nat /\ l.version <= version[t]
      BY <1>1, <2>2, OneTabLoads DEF Inv, LoadInv
    <3>2. version'[t] = l.version /\ version'[t] = version[t] + 1
      BY <1>1, <1>2, <3>1 DEF Latest, Commit
    <3> QED
      BY <1>2, <3>1, <3>2
  <2> QED
    BY <2>1, <2>2
<1>7. Files' = Files /\ DOMAIN unsaved' = ConvIds
  BY FilesStay DEF SavedInv
<1> QED
  BY <1>1, <1>4, <1>5, <1>6, <1>7, CommitKeepsSaved

\* Picking a conversation keeps the tabs saved.
LEMMA PickKeepsSaved ==
    ASSUME ~EarlyPicks, Inv, Inv', SavedInv, EnsureTabLoaded \/ \E c \in ConvIds : SelectConversation(c)
    PROVE  SavedInv'
<1>1. /\ Normal(page) /\ TabInv /\ page.selected \in Open(page) /\ Kept
      /\ Open(page) \subseteq TabIds /\ TabsSaved
  BY ScratchIsLast DEF Inv, PageInv, Normal, SavedInv
<1>2. CASE EnsureTabLoaded
  <2> DEFINE t == page.selected
             tab == page.tab[t]
  <2>1. /\ ~tab.isLoaded /\ tab.isPersisted
        /\ StartLoad(page, t, "restore", tab.conv.id, tab.conv.title)
        /\ UNCHANGED <<saves, store, unsaved>>
    BY <1>2 DEF EnsureTabLoaded
  <2>2. TabOK(tab) /\ TabSaved(t, tab, saves, Files)
    BY <1>1 DEF TabInv, TabsSaved
  <2>3. ~tab.isBusy /\ tab.conv.id \in ConvIds /\ tab.conv.title \in Titles
    BY <2>1, <2>2 DEF TabOK, Tab, Conversation
  <2>4. saves[t] = <<>>
    BY <2>1, <2>2 DEF TabSaved, QueueOK
  <2>5. \A u \in TabIds : \A i \in DOMAIN saves[u] : saves[u][i].conv.id # tab.conv.id
    <3>1. DOMAIN saves[t] = {}
      BY <2>4
    <3> QED
      BY <2>2, <3>1 DEF TabSaved, Elsewhere
  <2> QED
    BY <1>1, <2>1, <2>3, <2>4, <2>5, StartKeepsSaved
<1>3. ASSUME NEW c \in ConvIds, SelectConversation(c) PROVE SavedInv'
  <2> DEFINE shown == Showing(c)
             target == IF shown # {} THEN CHOOSE t \in shown : TRUE ELSE Last(Scratches(page))
  <2>1. /\ store[c] # None /\ UNCHANGED <<saves, store, unsaved>>
        /\ \A t \in TabIds : \A i \in DOMAIN saves[t] : saves[t][i].conv.id # c
        /\ IF shown # {} THEN page' = Select(page, target) /\ UNCHANGED <<requests, loads, version, renaming>>
           ELSE StartLoad(Select(page, target), target, "open", c, store[c].title)
    BY <1>3 DEF SelectConversation
  <2>2. target \in Open(page) /\ (shown = {} => IsScratch(page.tab[target]))
    BY <1>1, ScratchIsLast DEF Showing
  <2>3. CASE shown # {}
    BY <2>1, <2>3, SelectKeepsSaved
  <2>4. CASE shown = {}
    <3>1. store[c].title \in Titles
      BY <1>1, <2>1 DEF Kept, FileOK, File
    <3>2. ~page.tab[target].isPersisted /\ ~page.tab[target].isBusy
      BY <1>1, <2>2, <2>4 DEF IsScratch, TabInv, TabOK
    <3> HIDE DEF target, shown
    <3>3. saves[target] = <<>>
      BY <1>1, <2>2, <3>2, UnpersistedQueue
    <3>4. /\ Normal(Select(page, target)) /\ Select(page, target).tab = page.tab
          /\ Open(Select(page, target)) = Open(page)
      BY <1>1, <2>2, SelectKeeps
    <3> QED
      BY <2>1, <2>2, <2>4, <3>1, <3>2, <3>3, <3>4, StartKeepsSaved
  <2> QED
    BY <2>3, <2>4
<1> QED
  BY <1>2, <1>3

\* The end of a load keeps the tabs saved if it leaves its own so.
LEMMA EndKeepsSaved ==
    ASSUME Inv, Inv', SavedInv, NEW l \in loads, IsCurrent(l), NEW next \in Tab, ~next.isHydrating,
           FreshTabs # {} \/ ~IsScratch(page.tab[l.tab]),
           loads' = loads \ {l},
           Commit(UpdateTab(page, l.tab, next, FreshTab), AfterLoad(l), requests),
           UNCHANGED <<saves, store, unsaved>>, TabSaved(l.tab, next, saves, Files)
    PROVE  SavedInv'
<1> DEFINE t == l.tab
           q == UpdateTab(page, t, next, FreshTab)
<1>1. t \in Open(page) /\ Normal(page)
  BY CurrentLoad DEF Inv, PageInv
<1>2. Becomes(q, t, next) /\ page' = q
  BY <1>1, UpdateBecomes DEF Commit
<1> HIDE DEF q
<1>3. LoadsSaved'
  <2> SUFFICES ASSUME NEW m \in loads', Latest(m)' PROVE FALSE
    BY DEF LoadsSaved
  <2>1. LatestOK(m)' /\ m.tab = t
    BY OneTabLoads DEF Inv, LoadInv, LatestInv
  <2>2. t \in Open(q) /\ page'.tab[t].isHydrating
    BY <1>2, <2>1 DEF LatestOK, Latest
  <2> QED
    BY <1>2, <2>2 DEF Becomes
<1>4. Files' = Files /\ DOMAIN unsaved' = ConvIds
  BY FilesStay DEF SavedInv
<1> QED
  BY <1>2, <1>3, <1>4, CommitKeepsSaved DEF q

\* What a tab that loads shows is neither queued nor new.
LEMMA LoadingTab ==
    ASSUME Inv, SavedInv, NEW l \in loads, IsCurrent(l)
    PROVE  /\ saves[l.tab] = <<>> /\ TabSaved(l.tab, page.tab[l.tab], saves, Files)
           /\ \A u \in TabIds : \A i \in DOMAIN saves[u] : saves[u][i].conv.id # None
           /\ l.phase # "paint" => LoadSaved(l, saves, store)
<1>1. l.tab \in Open(page) /\ page.tab[l.tab].isHydrating /\ Latest(l)
  BY CurrentLoad, LatestIsCurrent
<1>2. TabSaved(l.tab, page.tab[l.tab], saves, Files) /\ (l.phase # "paint" => LoadSaved(l, saves, store))
  BY <1>1 DEF SavedInv, TabsSaved, LoadsSaved
<1>3. saves[l.tab] = <<>>
  BY <1>1, <1>2 DEF TabSaved, QueueOK
<1>4. \A u \in TabIds : \A i \in DOMAIN saves[u] : saves[u][i].conv.id # None
  BY DEF Inv, Kept, SaveOK
<1> QED
  BY <1>2, <1>3, <1>4

\* The end of a load that has shown its conversation keeps the tabs saved.
LEMMA PaintedKeepsSaved ==
    ASSUME Inv, Inv', SavedInv, NEW l \in loads, LoadPainted(l)
    PROVE  SavedInv'
<1> DEFINE tab == page.tab[l.tab]
           next == [tab EXCEPT !.isHydrating = FALSE, !.isBusy = FALSE, !.editing = 0]
<1>1. IsCurrent(l) /\ l.phase = "paint" /\ loads' = loads \ {l}
      /\ Commit(UpdateTab(page, l.tab, next, FreshTab), AfterLoad(l), requests)
      /\ UNCHANGED <<saves, store, unsaved>>
  BY DEF LoadPainted
<1>2. /\ tab \in Tab /\ TabOK(tab) /\ ~tab.isBusy /\ LatestOK(l) /\ l.conv \in ConvIds
  BY <1>1, CurrentLoad, OneTabLoads
<1>3. ~IsScratch(tab)
  BY <1>1, <1>2, NoneAssumption DEF LatestOK, TabOK, IsScratch
<1>4. /\ next \in Tab /\ next.conv = tab.conv /\ next.isHydrating = FALSE /\ next.isBusy = tab.isBusy
      /\ next.isPersisted = tab.isPersisted /\ next.isLoaded = tab.isLoaded /\ next.locked = tab.locked
  BY <1>2 DEF Tab
<1> HIDE DEF next
<1>5. TabSaved(l.tab, tab, saves, Files)
  BY <1>1, LoadingTab
<1>6. TabSaved(l.tab, next, saves, Files)
  <2> HIDE DEF tab
  <2> QED
    BY <1>2, <1>4, <1>5, SameIsSaved
<1> QED
  BY <1>1, <1>3, <1>4, <1>6, EndKeepsSaved

\* A load that found nothing leaves nothing to be saved.
LEMMA FailedKeepsSaved ==
    ASSUME Inv, Inv', SavedInv, NEW l \in loads, LoadFailed(l)
    PROVE  SavedInv'
<1> DEFINE tab == page.tab[l.tab]
           stays == [tab EXCEPT !.isLoaded = TRUE, !.isHydrating = FALSE,
                                !.isBusy = FALSE, !.editing = 0]
           next == IF l.kind = "restore" THEN EmptyTab ELSE stays
<1>1. IsCurrent(l) /\ l.phase = "fetch" /\ FreshTabs # {} /\ loads' = loads \ {l}
      /\ Commit(UpdateTab(page, l.tab, next, FreshTab), AfterLoad(l), requests)
      /\ UNCHANGED <<saves, store, unsaved>>
  BY DEF LoadFailed
<1>2. tab \in Tab /\ TabOK(tab) /\ LatestOK(l) /\ l.kind \in {"restore", "open"}
  BY <1>1, CurrentLoad, OneTabLoads DEF Load
<1>3. /\ stays \in Tab /\ stays.conv = tab.conv /\ stays.isHydrating = FALSE
      /\ stays.isPersisted = tab.isPersisted
  BY <1>2 DEF Tab
<1> HIDE DEF stays
<1>4. /\ next \in Tab /\ ~next.isHydrating /\ ~next.isPersisted
      /\ next.conv.id = None /\ next.conv.messages = <<>>
  <2>1. CASE l.kind = "restore"
    BY <2>1, EmptyTabIsATab DEF EmptyTab
  <2>2. CASE l.kind # "restore"
    <3>1. ~tab.isPersisted
      BY <1>1, <1>2, <2>2 DEF LatestOK
    <3> QED
      BY <1>2, <1>3, <2>2, <3>1 DEF TabOK
  <2> QED
    BY <2>1, <2>2
<1> HIDE DEF next
<1>5. TabSaved(l.tab, next, saves, Files)
  BY <1>1, <1>4, LoadingTab, UnpersistedIsSaved
<1> QED
  BY <1>1, <1>4, <1>5, EndKeepsSaved

\* Hydration shows what the file still holds.
LEMMA HydratedKeepsSaved ==
    ASSUME Inv, Inv', SavedInv, NEW l \in loads, LoadHydrated(l)
    PROVE  SavedInv'
<1> DEFINE t == l.tab
           tab == page.tab[t]
           conv == [id |-> l.conv, title |-> l.found.title, messages |-> l.found.messages]
           next == [tab EXCEPT !.conv = conv,
                               !.isPersisted = TRUE, !.isLoaded = TRUE, !.isBusy = FALSE,
                               !.isHydrating = TRUE, !.locked = @ /\ l.kind = "restore", !.editing = 0]
           q == UpdateTab(page, t, next, FreshTab)
<1> PICK n : n = [l EXCEPT !.phase = "paint", !.found = None]
  OBVIOUS
<1>1. /\ IsCurrent(l) /\ l.phase = "hydrate" /\ FreshTabs # {}
      /\ loads' = (loads \ {l}) \cup {n}
      /\ Commit(q, version, requests) /\ UNCHANGED <<saves, store>>
      /\ unsaved' = [unsaved EXCEPT ![l.conv] = None]
  BY DEF LoadHydrated, Advance
<1>2. /\ t \in Open(page) /\ t \in TabIds /\ l.version = version[t] /\ tab \in Tab
      /\ Normal(page) /\ LatestOK(l) /\ l \in Load /\ l.conv \in ConvIds
  BY <1>1, CurrentLoad, OneTabLoads DEF Inv, PageInv
<1>3. /\ FileOK(l.found) /\ l.found \in File /\ l.found # None
      /\ conv \in Conversation /\ conv.id = l.conv
      /\ FileOf(conv) = l.found /\ conv.messages = l.found.messages
  <2>1. FileOK(l.found)
    BY <1>1, <1>2 DEF LatestOK
  <2> QED
    BY <1>2, <2>1, NoneAssumption DEF FileOK, File, FileOf, Conversation
<1> HIDE DEF conv
<1>4. next \in Tab /\ next.conv = conv /\ next.isBusy = FALSE
  BY <1>2, <1>3 DEF Tab
<1> HIDE DEF next
<1>5. Becomes(q, t, next)
  BY <1>1, <1>2, <1>4, UpdateBecomes
<1> HIDE DEF q
<1>6. TabSaved(t, next, saves, Files')
  <2>0. Files'[l.conv] = store[l.conv]
    BY <1>1, <1>2, NoneAssumption DEF Files, Meant, SavedInv
  <2>1. saves[t] = <<>> /\ LoadSaved(l, saves, store) /\ FilesAlternate
    BY <1>1, LoadingTab DEF SavedInv
  <2>2. store[l.conv] = l.found /\ Elsewhere(t, l.conv, saves)
    BY <1>1, <2>1 DEF LoadSaved, Elsewhere
  <2>3. Alternates(conv.messages)
    BY <1>2, <1>3, <2>1, <2>2 DEF FilesAlternate
  <2>4. DOMAIN saves[t] = {} /\ Saved(saves[t], store[l.conv]) = Shown(next)
    <3>1. Saved(saves[t], store[l.conv]) = store[l.conv]
      BY <2>1 DEF Saved
    <3>2. Shown(next) = FileOf(conv)
      BY <1>4 DEF Shown
    <3> QED
      BY <1>3, <2>1, <2>2, <3>1, <3>2, EmptySeq
  <2>5. QueueOK(next, saves[t], Files'[l.conv])
    BY <2>0, <2>1, <2>4 DEF QueueOK, Chained
  <2> QED
    BY <1>3, <1>4, <2>2, <2>3, <2>5 DEF TabSaved
<1>7. LoadsSaved'
  <2> SUFFICES ASSUME NEW m \in loads', Latest(m)', m.phase # "paint" PROVE FALSE
    BY DEF LoadsSaved
  <2>1. n.phase = "paint"
    BY <1>2 DEF Load
  <2>2. m \in loads /\ m # l /\ m.tab = t /\ m.version # l.version
    BY <1>1, <2>1, OneTabLoads
  <2>3. m.version = version[t]
    BY <1>1, <1>2, <2>2 DEF Latest, Commit
  <2> QED
    BY <1>2, <2>2, <2>3
<1>8. DOMAIN unsaved' = ConvIds
  BY <1>1 DEF SavedInv
<1>9. ASSUME NEW u \in Open(page) \ {t}
      PROVE  Files'[page.tab[u].conv.id] = Files[page.tab[u].conv.id]
  <2>0. PICK c : c = page.tab[u].conv.id
    OBVIOUS
  <2>1. c # l.conv
    <3>1. l.conv # None /\ l.kind \in {"restore", "open"} /\ OpenOnce
      BY <1>2, NoneAssumption DEF Load, Inv, PageInv
    <3>2. CASE l.kind = "restore"
      BY <1>1, <1>2, <2>0, <3>1, <3>2 DEF LatestOK, OpenOnce
    <3>3. CASE l.kind = "open"
      BY <1>1, <1>2, <2>0, <3>3 DEF LatestOK
    <3> QED
      BY <3>1, <3>2, <3>3
  <2>2. CASE c \in ConvIds
    BY <1>1, <2>0, <2>1, <2>2 DEF Files, Meant, SavedInv
  <2>3. CASE c = None
    BY <2>0, <2>3, NoneAssumption DEF Files
  <2>4. c \in ConvIds \cup {None}
    BY <2>0 DEF Inv, PageInv, TabInv, TabOK, Tab, Conversation
  <2> QED
    BY <2>0, <2>2, <2>3, <2>4
<1> QED
  BY <1>1, <1>5, <1>6, <1>7, <1>8, <1>9, CommitKeepsSaved

\* Every step of a load keeps the tabs saved.
LEMMA LoadKeepsSaved ==
    ASSUME Inv, Inv', SavedInv, NEW l \in loads, LoadStep(l)
    PROVE  SavedInv'
<1>1. CASE LoadDropped(l)
  <2>1. /\ loads' = loads \ {l} /\ version' = AfterLoad(l) /\ (loads' # {} => version' = version)
        /\ UNCHANGED <<page, requests, saves, store, unsaved>>
    BY <1>1, AfterLoadType DEF LoadDropped
  <2>2. LoadsSaved' /\ Files' = Files
    BY <2>1, FilesStay DEF SavedInv, LoadsSaved, Latest
  <2> QED
    BY <2>1, <2>2 DEF SavedInv, TabsSaved, FilesAlternate, NoEarlyStops
<1>2. CASE LoadFetched(l)
  <2> PICK n : n = [l EXCEPT !.phase = "hydrate", !.found = store[l.conv]]
    OBVIOUS
  <2>1. /\ IsCurrent(l) /\ l.phase = "fetch" /\ l \in Load
        /\ loads' = (loads \ {l}) \cup {n}
        /\ UNCHANGED <<page, requests, version, saves, store, unsaved>>
    BY <1>2, OneTabLoads DEF LoadFetched, Advance
  <2>2. n.conv = l.conv /\ n.found = store[l.conv]
    BY <2>1 DEF Load
  <2>3. LoadSaved(l, saves, store)
    BY <2>1, LoadingTab
  <2>4. LoadSaved(n, saves, store)
    BY <2>2, <2>3 DEF LoadSaved
  <2>5. LoadsSaved' /\ Files' = Files
    BY <2>1, <2>4, FilesStay DEF SavedInv, LoadsSaved, Latest
  <2> QED
    BY <2>1, <2>5 DEF SavedInv, TabsSaved, FilesAlternate, NoEarlyStops
<1> QED
  BY <1>1, <1>2, FailedKeepsSaved, HydratedKeepsSaved, PaintedKeepsSaved DEF LoadStep

\* A page just opened, by a start or a restart: nothing is queued, and its tabs are new
\* or not loaded yet.
LEMMA OpenedIsSaved ==
    ASSUME NEW t, NEW tab, NEW queues, NEW files,
           \A u \in TabIds : queues[u] = <<>>, t \in TabIds,
           tab = EmptyTab \/ \E d \in SavedTab : tab = RestoredTab(d)
    PROVE  TabSaved(t, tab, queues, files)
<1>1. \A u \in TabIds : DOMAIN queues[u] = {}
  <2>1. DOMAIN <<>> = {}
    BY EmptySeq
  <2> QED
    BY <2>1
<1>2. Len(<<>>) = 0
  BY EmptySeq
<1>3. tab.conv.messages = <<>> /\ (~tab.isPersisted \/ ~tab.isLoaded)
  <2>1. CASE tab = EmptyTab
    BY <2>1 DEF EmptyTab
  <2>2. ASSUME NEW d \in SavedTab, tab = RestoredTab(d)
        PROVE  tab.conv.messages = <<>> /\ (~tab.isPersisted \/ ~tab.isLoaded)
    <3>1. d.isPersisted \in BOOLEAN
      BY DEF SavedTab
    <3> QED
      BY <2>2, <3>1 DEF RestoredTab, EmptyTab
  <2> QED
    BY <2>1, <2>2
<1> QED
  BY <1>1, <1>2, <1>3 DEF TabSaved, QueueOK, Chained, Elsewhere, Alternates

\* After a restart nothing is shown that is not saved.
LEMMA RestartKeepsSaved ==
    ASSUME Inv, Inv', SavedInv, Restart
    PROVE  SavedInv'
<1>1. /\ page' = InitialPage(disk, FreshTab) /\ FreshTabs # {}
      /\ requests' = [t \in TabIds |-> None] /\ loads' = {}
      /\ saves' = [t \in TabIds |-> <<>>] /\ store' = store
      /\ unsaved' = [c \in ConvIds |-> None]
  BY DEF Restart
<1>2. FreshTab \in FreshTabs /\ FreshTab \in TabIds /\ Kept
  BY <1>1, FreshTabIsFresh DEF Inv
<1>3. \A t \in Open(page') : page'.tab[t] = EmptyTab \/ \E d \in SavedTab : page'.tab[t] = RestoredTab(d)
  <2>1. CASE disk = None
    BY <1>1, <2>1, FirstPage
  <2>2. CASE disk # None
    <3>1. BrowserOK(disk) /\ \A i \in DOMAIN disk.tabs : disk.tabs[i].tab # FreshTab
      BY <1>2, <2>2 DEF Kept, FreshTabs
    <3>2. \A i \in DOMAIN disk.tabs : disk.tabs[i] \in SavedTab
      BY <3>1 DEF BrowserOK, SavedTabOK
    <3> QED
      BY <1>1, <1>2, <2>2, <3>1, <3>2, RestoredPage
  <2> QED
    BY <2>1, <2>2
<1>4. Open(page') \subseteq TabIds
  BY ScratchIsLast DEF Inv, PageInv
<1>5. \A u \in TabIds : saves'[u] = <<>> /\ DOMAIN saves'[u] = {}
  <2>1. DOMAIN <<>> = {}
    BY EmptySeq
  <2> QED
    BY <1>1, <2>1
<1>6. TabsSaved'
  BY <1>3, <1>4, <1>5, OpenedIsSaved DEF TabsSaved
<1>7. FilesAlternate'
  BY <1>1, <1>5 DEF SavedInv, FilesAlternate
<1> QED
  BY <1>1, <1>6, <1>7 DEF SavedInv, NoEarlyStops, LoadsSaved

\* The first page shows nothing that is to be saved.
LEMMA InitEstablishesSaved == Init => SavedInv
<1> SUFFICES ASSUME Init PROVE SavedInv
  OBVIOUS
<1>1. Inv /\ \A t \in Open(page) : page.tab[t] = EmptyTab
  BY InitEstablishesInv, FirstPage DEF Init
<1>2. Open(page) \subseteq TabIds
  BY <1>1, ScratchIsLast DEF Inv, PageInv
<1>3. \A u \in TabIds : saves[u] = <<>> /\ DOMAIN saves[u] = {}
  <2>1. DOMAIN <<>> = {}
    BY EmptySeq
  <2> QED
    BY <2>1 DEF Init
<1>4. TabsSaved
  BY <1>1, <1>2, <1>3, OpenedIsSaved DEF TabsSaved
<1>5. Alternates(Former.messages)
  <2> DEFINE user == FromUser(CHOOSE s \in Scores : TRUE)
             messages == <<user, FromAssistant("answer")>>
  <2>1. Former.messages = messages /\ user.role = "user"
    BY DEF Former, FromUser
  <2> HIDE DEF user
  <2>2. Len(messages) = 2 /\ messages[1] = user
    OBVIOUS
  <2> HIDE DEF messages
  <2>3. \A i \in 1..(Len(messages) - 1) : i = 1
    BY <2>2
  <2> QED
    BY <2>1, <2>2, <2>3 DEF Alternates
<1>6. FilesAlternate
  BY <1>3, <1>5 DEF Init, FilesAlternate
<1> QED
  BY <1>4, <1>6 DEF Init, SavedInv, NoEarlyStops, LoadsSaved

\* Every step keeps the tabs saved.
LEMMA NextKeepsSaved ==
    ASSUME ~EarlyStops, ~LateRenames, ~EarlyPicks, Inv, SavedInv, [Next]_vars
    PROVE  SavedInv'
<1>1. Inv'
  BY NextKeepsInv
<1>2. ASSUME NEW t \in TabIds, TurnStep(t) PROVE SavedInv'
  <2>1. CASE StreamDelta(t)
    <3>1. Files' = Files
      BY <2>1, FilesStay DEF StreamDelta
    <3> QED
      BY <2>1, <3>1 DEF StreamDelta, SavedInv, TabsSaved, FilesAlternate, NoEarlyStops, LoadsSaved, Latest, Inv, PageInv
  <2>2. ASSUME NEW o \in Outcomes, FinishTurn(t, o) PROVE SavedInv'
    BY <1>1, <2>2, SettleKeepsSaved, BoundsAssumption DEF FinishTurn
  <2>3. CASE FinishStopped(t)
    BY <1>1, <2>3, SettleKeepsSaved DEF FinishStopped
  <2>4. CASE FinishStoppedEmpty(t)
    BY <2>4 DEF FinishStoppedEmpty, SavedInv, NoEarlyStops
  <2> QED
    BY <1>2, <2>1, <2>2, <2>3, <2>4 DEF TurnStep
<1>3. ASSUME NEW t \in TabIds, SaveStep(t) PROVE SavedInv'
  BY <1>3, SaveKeepsSaved
<1>4. ASSUME NEW l \in loads, LoadStep(l) PROVE SavedInv'
  BY <1>1, <1>4, LoadKeepsSaved
<1>5. ASSUME NEW t \in Open(page),
             \/ \E s \in Scores \cup {0} : Send(t, s)
             \/ StopResponse(t)
             \/ \E i \in Editable : BeginEdit(t, i)
             \/ CancelEditing(t)
             \/ CloseTab(t)
             \/ SelectTab(t)
      PROVE  SavedInv'
  <2>1. CASE StopResponse(t)
    <3>1. Files' = Files
      BY <2>1, FilesStay DEF StopResponse
    <3> QED
      BY <2>1, <3>1 DEF StopResponse, SavedInv, TabsSaved, FilesAlternate, NoEarlyStops, LoadsSaved, Latest, Inv, PageInv
  <2>2. CASE SelectTab(t)
    BY <2>2, SelectKeepsSaved DEF SelectTab, GoTo
  <2> QED
    BY <1>1, <1>5, <2>1, <2>2, SendKeepsSaved, EditKeepsSaved, CloseKeepsSaved
<1>6. CASE (\E c \in ConvIds : SelectConversation(c)) \/ EnsureTabLoaded
  BY <1>1, <1>6, PickKeepsSaved
<1>7. CASE OpenNewTab \/ \E delta \in {1, Len(page.order) - 1} : CycleTab(delta)
  <2>1. PICK t : page' = Select(page, t) /\ UNCHANGED <<requests, loads, version, saves, store, unsaved>>
    BY <1>7 DEF OpenNewTab, CycleTab, GoTo
  <2> QED
    BY <2>1, SelectKeepsSaved
<1>8. ASSUME NEW title \in ManualTitles, FinishRename(title) PROVE SavedInv'
  BY <1>1, <1>8, RenameKeepsSaved
<1>9. CASE BeginRename \/ PersistNow \/ UNCHANGED vars
  BY <1>9 DEF BeginRename, PersistNow, vars, SavedInv, TabsSaved, FilesAlternate, NoEarlyStops, LoadsSaved, Latest, Files, Meant
<1>10. CASE Restart
  BY <1>1, <1>10, RestartKeepsSaved
<1> QED
  BY <1>2, <1>3, <1>4, <1>5, <1>6, <1>7, <1>8, <1>9, <1>10 DEF Next

\* The invariant of the saves gives the property.
LEMMA SavedGivesSavedAtRest ==
    ASSUME Inv, SavedInv
    PROVE  SavedAtRest
<1> SUFFICES ASSUME NEW t \in Open(page), AtRest(t)
             PROVE  Meant(page.tab[t].conv.id) = FileOf(page.tab[t].conv)
  BY DEF SavedAtRest
<1>1. TabSaved(t, page.tab[t], saves, Files) /\ TabOK(page.tab[t])
  BY DEF SavedInv, TabsSaved, Inv, PageInv, TabInv
<1>2. page.tab[t].conv.id \in ConvIds
  BY <1>1 DEF AtRest, TabOK, Tab, Conversation
<1>3. Files[page.tab[t].conv.id] = FileOf(page.tab[t].conv)
  BY <1>1 DEF AtRest, TabSaved, QueueOK, Saved, Shown
<1> QED
  BY <1>2, <1>3, NoneAssumption DEF Files

-----------------------------------------------------------------------------
(***************************************************************************)
(* The theorems.                                                           *)
(***************************************************************************)
\* The inductive invariant of the page holds for ever.
LEMMA InvIsInvariant == Spec => []Inv
<1>1. Init => Inv
  BY InitEstablishesInv
<1>2. Inv /\ [Next]_vars => Inv'
  BY NextKeepsInv
<1> QED
  BY <1>1, <1>2, PTL DEF Spec

\* The invariant gives the types.
LEMMA InvGivesTypeOK == Inv => TypeOK
<1> SUFFICES ASSUME Inv PROVE TypeOK
  OBVIOUS
<1>1. /\ Normal(page) /\ WellFormed(page) /\ TabInv /\ ClosedInv /\ RenameInv /\ LoadInv /\ Kept
  BY DEF Inv, PageInv, Normal
<1>2. ASSUME NEW t \in TabIds
      PROVE  IF t \in Open(page)
             THEN /\ page.tab[t].conv.id \in ConvIds \cup {None}
                  /\ page.tab[t].conv.title \in Titles
                  /\ Len(page.tab[t].conv.messages) \in 0..MaxMessages
             ELSE page.tab[t] = None /\ requests[t] = None /\ version[t] = 0
  <2>1. CASE t \in Open(page)
    <3> DEFINE messages == page.tab[t].conv.messages
    <3>1. TabOK(page.tab[t])
      BY <1>1, <2>1 DEF TabInv
    <3>2. page.tab[t].conv \in Conversation /\ messages \in Seq(Message)
      BY <3>1 DEF TabOK, Tab, Conversation
    <3>3. Len(messages) \in Nat /\ Len(messages) <= MaxMessages /\ MaxMessages \in Nat
      BY <3>1, <3>2, LenProperties, BoundsAssumption DEF TabOK, Asked, Settled
    <3> QED
      BY <2>1, <3>2, <3>3 DEF Conversation
  <2>2. CASE t \notin Open(page)
    BY <1>1, <2>2 DEF WellFormed, ClosedInv
  <2> QED
    BY <2>1, <2>2
<1>3. renaming \in Open(page) \cup {None} /\ Range(page.lastActive) \subseteq Open(page)
  BY <1>1 DEF RenameInv, WellFormed
<1>4. \A l \in loads : l.tab \in TabIds /\ l.phase \in {"fetch", "hydrate", "paint"}
  BY <1>1 DEF LoadInv, Load
<1>5. \A c \in ConvIds : store[c] = None \/ store[c].title \in Titles
  BY <1>1 DEF Kept, FileOK, File
<1>6. restarts \in 0..MaxRestarts
  BY <1>1 DEF Kept
<1> QED
  BY <1>2, <1>3, <1>4, <1>5, <1>6 DEF TypeOK

\* Open tabs have a state and the others none, and whatever is kept for a tab, its
\* request, its version and its place among the activated ones, goes with it.
THEOREM TypeCorrect == Spec => []TypeOK
BY InvIsInvariant, InvGivesTypeOK, PTL

\* The invariant gives the normal page.
LEMMA InvGivesNormalPage == Inv => PageIsNormal
<1> SUFFICES ASSUME Inv PROVE PageIsNormal
  OBVIOUS
<1>1. TypeOK
  BY InvGivesTypeOK
<1>2. /\ Normal(page) /\ page.order \in Seq(TabIds) /\ IsInjective(page.order)
      /\ Len(page.order) <= MaxTabs /\ MaxTabs \in Nat
  BY BoundsAssumption DEF Inv, PageInv, Normal, WellFormed, Page
<1>3. Len(page.order) \in 1..MaxTabs
  <2>1. Len(page.order) \in Nat /\ Len(page.order) # 0
    BY <1>2, LenProperties, EmptySeq DEF Normal
  <2> QED
    BY <1>2, <2>1
<1>4. Cardinality(Open(page)) = Len(page.order)
  BY <1>2, Distinct DEF Open
<1> QED
  BY <1>1, <1>2, <1>3, <1>4 DEF PageIsNormal, Normal

\* normalizeTabsForInvariants: after whatever sequence of sends, loads, evictions,
\* closings and restarts the bar holds each tab once and at most MAX_TABS of them, the
\* selected tab is one of them, and the one scratch tab is the last.
THEOREM PageStaysNormal == Spec => []PageIsNormal
BY InvIsInvariant, InvGivesNormalPage, PTL

\* handleSelectConversation: no two open tabs are of the same conversation, whether
\* it was picked, sent, restored or is still being loaded.
THEOREM OpenInOneTab == Spec => []OpenOnce
<1>1. Inv => OpenOnce
  BY DEF Inv, PageInv
<1> QED
  BY <1>1, InvIsInvariant, PTL

\* beginTabLoad, isTabLoadCurrent: the load a tab still waits for is the last one
\* begun for it, and the conversation shown when it is painted is the one picked.
THEOREM TheLastPickWins == Spec => []LastPickWins
<1>1. Inv => LastPickWins
  <2> SUFFICES ASSUME Inv, NEW l \in loads, IsCurrent(l), l.phase = "paint"
               PROVE  page.tab[l.tab].conv.id = l.conv
    BY DEF LastPickWins
  <2>1. LatestOK(l)
    BY CurrentLoad
  <2> QED
    BY <2>1 DEF LatestOK
<1> QED
  BY <1>1, InvIsInvariant, PTL

\* The invariant gives the property of the spinners.
LEMMA InvGivesNoIdleSpinner ==
    ASSUME ~LateRenames, Inv
    PROVE  NoIdleSpinner
<1> SUFFICES ASSUME NEW t \in Open(page)
             PROVE  LET tab == page.tab[t]
                    IN  /\ tab.isBusy <=> requests[t] # None
                        /\ tab.isBusy => tab.conv.messages = requests[t].asked.messages
                        /\ ~tab.isBusy => Placeholder \notin Range(tab.conv.messages)
                        /\ tab.isHydrating <=> \E l \in loads : l.tab = t /\ IsCurrent(l)
  BY DEF NoIdleSpinner
<1> DEFINE tab == page.tab[t]
<1>1. TabOK(tab) /\ RequestOK(tab, requests[t]) /\ LoadInv
  BY DEF Inv, PageInv, TabInv
<1>2. tab.isBusy <=> requests[t] # None
  BY <1>1, NoneAssumption DEF RequestOK
<1>3. tab.isBusy => tab.conv.messages = requests[t].asked.messages
  BY <1>1 DEF RequestOK
<1>4. ~tab.isBusy => Placeholder \notin Range(tab.conv.messages)
  BY <1>1, LenProperties DEF TabOK, Settled, Clean, Range
<1>5. tab.isHydrating => \E l \in loads : l.tab = t /\ IsCurrent(l)
  BY <1>1, LatestIsCurrent DEF LoadInv
<1>6. ASSUME NEW l \in loads, l.tab = t, IsCurrent(l) PROVE tab.isHydrating
  BY <1>6, CurrentLoad
<1> QED
  BY <1>2, <1>3, <1>4, <1>5, <1>6

\* sendMessageForTab, loadConversationIntoTab: a tab is busy exactly while a turn runs
\* for it and hydrates exactly while a load is to end it, and no tab at rest shows a
\* placeholder.  A rename confirmed in the middle of a turn saves the placeholder the
\* turn shows, and a restart would bring it back.
THEOREM SpinnersEnd == ASSUME ~LateRenames PROVE Spec => []NoIdleSpinner
<1>1. Inv => NoIdleSpinner
  BY InvGivesNoIdleSpinner
<1> QED
  BY <1>1, InvIsInvariant, PTL

\* manualTitleLocked: the title the user gave stays, or is replaced by another the user
\* gives, whatever is sent, answered, stopped, loaded or closed in between.  The end of
\* a turn writes the title the turn began with, so a rename confirmed in its middle
\* would be lost.
THEOREM TheTitleLockHolds == ASSUME ~LateRenames PROVE Spec => TitleLockHolds
<1>1. Inv /\ [Next]_vars => [TitlesStay]_vars
  BY NextKeepsTitles
<1>2. TitleLockHolds <=> [][TitlesStay]_vars
  BY DEF TitleLockHolds, TitlesStay
<1> QED
  BY <1>1, <1>2, InvIsInvariant, PTL DEF Spec

\* saveUpdatedConversation, PutMessagesToConversation: once the saves queued for a
\* conversation are done, its file holds the title and the messages its tab shows, and
\* what a load paints is what the file holds.  Of a save the backend refused the tab
\* still shows what it was to write, and the next save that is done writes all of it.
\* A turn stopped before its request was sent, a rename confirmed during a turn, and a
\* conversation picked while the saves of its closed tab were still queued would each
\* leave the two apart.
THEOREM WhatIsShownIsSaved ==
    ASSUME ~EarlyStops, ~LateRenames, ~EarlyPicks
    PROVE  Spec => []SavedAtRest
<1>1. Init => Inv /\ SavedInv
  BY InitEstablishesInv, InitEstablishesSaved
<1>2. Inv /\ SavedInv /\ [Next]_vars => (Inv /\ SavedInv)'
  BY NextKeepsInv, NextKeepsSaved
<1>3. Inv /\ SavedInv => SavedAtRest
  BY SavedGivesSavedAtRest
<1> QED
  BY <1>1, <1>2, <1>3, PTL DEF Spec
=============================================================================
