-------------------------- MODULE InlineCacheProofs --------------------------
(***************************************************************************)
(* Proofs about InlineCache, for any number of objects, names, ways and    *)
(* layout operations: an edit of a layout in place is an edit of one       *)
(* object's layout, a cached read finds what a lookup of the chain finds,  *)
(* and a cached store does what an uncached one would do.                  *)
(*                                                                         *)
(* A private shape can reach a second object in one way only, through a    *)
(* store site that hands on the layout a store led to, and the root shape  *)
(* can look private in one way only, when its references are counted too   *)
(* low.  The invariant says that the sites hand on shapes of the tree      *)
(* only, other than the root, and that every object on the root is counted. *)
(***************************************************************************)
EXTENDS InlineCache, TLAPS, FiniteSetTheorems, WellFoundedInduction

Standing == {o \in live : shape[o] = Root}

(* The objects and their layouts. *)
Layouts ==
  /\ tree \subseteq Paths /\ Root \in tree
  /\ shape \in [Objs -> tree \cup Objs]
  /\ \A o \in Objs : shape[o] \in Objs => shape[o] = o

(* A prototype lives as long as what inherits from it. *)
Inherits ==
  /\ live \subseteq Objs
  /\ proto \in [Objs -> Objs \cup {none}]
  /\ \A o \in live : proto[o] \in live \cup {none}

Flags ==
  /\ extensible \subseteq live /\ usedAsProto \subseteq live
  /\ store = NoStore \/ store.obj \in live
  /\ ops \in 0 .. MaxOps

Counting == rootRefs \in Nat /\ rootRefs >= 1 + Cardinality(Standing)

(* What the ways of the site hand on. *)
Handed(ws, t) ==
  /\ Len(ws) \in 0 .. Ways /\ ws = [i \in 1 .. Len(ws) |-> ws[i]]
  /\ \A i \in 1 .. Len(ws) : ws[i].to \in (t \ {Root}) \cup {none}

CacheInv == Layouts /\ Inherits /\ Flags /\ Counting /\ Handed(ways, tree)

-----------------------------------------------------------------------------
(* Names *)

LEMMA RootIsAPath ==
  /\ Root \in Paths /\ Root \notin Objs /\ \A s \in Objs : s \notin Paths
  /\ \A s \in Paths : s \notin Objs /\ s # none
<1>1. Root \in Paths
  BY DEF Root, Paths
<1>2. (Objs \cup {none}) \cap Paths = {}
  BY CacheAssumption
<1> QED
  BY <1>1, <1>2

LEMMA NextPath ==
  ASSUME NEW s \in Paths, NEW k \in Keys, NEW attrs \in SUBSET {"W", "C"}
  PROVE  LET next == Append(s, [key |-> k, attrs |-> attrs]) IN next \in Paths /\ next # Root
BY SMTT(30) DEF Paths, Root

(* A set of natural numbers has a least element: induction, in the form the  *)
(* lemmas below use it.                                                      *)
LEMMA LeastElement ==
  ASSUME NEW T, T \subseteq Nat, T # {}
  PROVE  \E n \in T : \A m \in T : n <= m
<1>1. IsWellFoundedOn(OpToRel(<, Nat), Nat)
  BY NatLessThanWellFounded
<1>2. PICK n \in T : \A m \in T : <<m, n>> \notin OpToRel(<, Nat)
  BY <1>1, WFMin
<1>3. \A m \in T : ~(m < n)
  BY <1>2 DEF OpToRel
<1> QED
  BY <1>3

(* The layouts along a path: a recursion on its length. *)
Adds(g, p, m) ==
  g = [i \in 0 .. m |-> IF i = 0 THEN <<>> ELSE addKey(g[i - 1], p[i].key, p[i].attrs)]

LEMMA LayoutRecursion ==
  ASSUME NEW p \in Paths
  PROVE  /\ Len(p) \in Nat
         /\ \E g : Adds(g, p, Len(p)) /\ LayoutOf(p) = g[Len(p)]
<1> DEFINE T == {m \in Nat : ~ \E g : Adds(g, p, m)}
           n == Len(p)
<1>1. n \in Nat
  BY DEF Paths
<1>2. T = {}
  <2> SUFFICES ASSUME T # {} PROVE FALSE
    OBVIOUS
  <2>1. PICK m \in T : \A k \in T : m <= k
    BY LeastElement
  <2>2. m # 0
    <3> DEFINE g == [i \in 0 .. 0 |-> <<>>]
    <3>1. \A i \in 0 .. 0 : i = 0
      OBVIOUS
    <3>2. Adds(g, p, 0)
      BY <3>1 DEF Adds
    <3> QED
      BY <3>2
  <2>3. m \in Nat /\ m - 1 \in Nat /\ m - 1 \notin T
    BY <2>1, <2>2
  <2>4. PICK g : Adds(g, p, m - 1)
    BY <2>3
  <2> DEFINE step(f, i) == addKey(f[i - 1], p[i].key, p[i].attrs)
             h == [i \in 0 .. m |-> IF i = m THEN step(g, m) ELSE g[i]]
             r == [i \in 0 .. m |-> IF i = 0 THEN <<>> ELSE step(h, i)]
  <2>5. \A i \in 0 .. m - 1 : g[i] = IF i = 0 THEN <<>> ELSE step(g, i)
    BY <2>4 DEF Adds
  <2>6. ASSUME NEW i \in 0 .. m PROVE h[i] = r[i]
    <3>1. CASE i = 0
      BY <2>2, <2>3, <2>5, <3>1
    <3>2. CASE i # 0
      <4>1. i - 1 \in 0 .. m /\ i - 1 # m /\ h[i - 1] = g[i - 1]
        BY <2>3, <3>2
      <4>2. r[i] = step(g, i)
        BY <3>2, <4>1
      <4>3. i # m => i \in 0 .. m - 1
        BY <2>3
      <4> QED
        BY <2>3, <2>5, <3>2, <4>2, <4>3
    <3> QED
      BY <3>1, <3>2
  <2>7. h = r
    BY <2>6
  <2>8. Adds(h, p, m)
    BY <2>7 DEF Adds
  <2> QED
    BY <2>1, <2>8
<1> DEFINE A == CHOOSE g : Adds(g, p, n)
<1>3. Adds(A, p, n)
  BY <1>1, <1>2
<1>4. LayoutOf(p) = A[n]
  BY DEF LayoutOf, Adds
<1> QED
  BY <1>1, <1>3, <1>4

(* The empty path has no properties. *)
LEMMA RootIsEmpty == LayoutOf(Root) = <<>>
<1>1. Len(Root) = 0
  BY DEF Root
<1>2. PICK g : Adds(g, Root, 0) /\ LayoutOf(Root) = g[0]
  BY <1>1, RootIsAPath, LayoutRecursion
<1>3. 0 \in 0 .. 0
  OBVIOUS
<1> QED
  BY <1>2, <1>3 DEF Adds

(* An object on the root shape has no property of its own. *)
LEMMA RootHasNothing ==
  ASSUME NEW o, shape[o] = Root
  PROVE  Own(o, Name) = 0
BY RootIsAPath, RootIsEmpty DEF Own, Props, PropsOf, SlotOf

-----------------------------------------------------------------------------
(* The prototype chain *)

(* Up as a recursion. *)
LEMMA UpRecursion ==
  ASSUME NEW o
  PROVE  /\ Up(o, 0) = o
         /\ \A n \in Depths : Up(o, n) = IF Up(o, n - 1) = none THEN none ELSE proto[Up(o, n - 1)]
<1> DEFINE C == Cardinality(Objs)
           Step(x) == IF x = none THEN none ELSE proto[x]
           Solves(g, m) == g = [i \in 0 .. m |-> IF i = 0 THEN o ELSE Step(g[i - 1])]
           T == {m \in Nat : ~ \E g : Solves(g, m)}
<1>1. C \in Nat
  BY CacheAssumption, FS_CardinalityType
<1>2. T = {}
  <2> SUFFICES ASSUME T # {} PROVE FALSE
    OBVIOUS
  <2>1. PICK m \in T : \A k \in T : m <= k
    BY LeastElement
  <2>2. m # 0
    <3> DEFINE g == [i \in 0 .. 0 |-> o]
    <3>1. \A i \in 0 .. 0 : i = 0
      OBVIOUS
    <3>2. Solves(g, 0)
      BY <3>1
    <3> QED
      BY <3>2
  <2>3. m \in Nat /\ m - 1 \in Nat /\ m - 1 \notin T
    BY <2>1, <2>2
  <2>4. PICK g : Solves(g, m - 1)
    BY <2>3
  <2> DEFINE h == [i \in 0 .. m |-> IF i = m THEN Step(g[m - 1]) ELSE g[i]]
             r == [i \in 0 .. m |-> IF i = 0 THEN o ELSE Step(h[i - 1])]
  <2>5. \A i \in 0 .. m - 1 : g[i] = IF i = 0 THEN o ELSE Step(g[i - 1])
    BY <2>4
  <2>6. ASSUME NEW i \in 0 .. m PROVE h[i] = r[i]
    <3>1. CASE i = 0
      BY <2>2, <2>3, <2>5, <3>1
    <3>2. CASE i # 0
      <4>1. i - 1 \in 0 .. m /\ i - 1 # m /\ h[i - 1] = g[i - 1]
        BY <2>3, <3>2
      <4>2. r[i] = Step(g[i - 1])
        BY <3>2, <4>1
      <4>3. i # m => i \in 0 .. m - 1
        BY <2>3
      <4> QED
        BY <2>3, <2>5, <3>2, <4>2, <4>3
    <3> QED
      BY <3>1, <3>2
  <2>7. h = r
    BY <2>6
  <2>8. Solves(h, m)
    BY <2>7
  <2> QED
    BY <2>1, <2>8
<1> DEFINE A == CHOOSE g : Solves(g, C)
<1>3. Solves(A, C)
  BY <1>1, <1>2
<1>4. \A n : Up(o, n) = A[n]
  BY DEF Up
<1> HIDE DEF A
<1>5. \A i \in 0 .. C : A[i] = IF i = 0 THEN o ELSE Step(A[i - 1])
  BY <1>3
<1>6. \A n \in Depths : n \in 0 .. C /\ n # 0
  BY <1>1 DEF Depths
<1>7. 0 \in 0 .. C
  BY <1>1
<1> QED
  BY <1>4, <1>5, <1>6, <1>7

(* The chain of an object in use is in use. *)
LEMMA UpLives ==
  ASSUME Inherits, NEW o \in live, NEW n \in Depths
  PROVE  Up(o, n) \in live \cup {none}
<1> DEFINE T == {m \in Depths : Up(o, m) \notin live \cup {none}}
<1> SUFFICES ASSUME T # {} PROVE FALSE
  OBVIOUS
<1>1. Cardinality(Objs) \in Nat
  BY CacheAssumption, FS_CardinalityType
<1>2. Depths \subseteq Nat /\ \A m \in Depths : m >= 1 /\ (m = 1 \/ m - 1 \in Depths)
  BY <1>1 DEF Depths
<1>3. PICK m \in T : \A k \in T : m <= k
  BY <1>2, LeastElement
<1>4. Up(o, m - 1) \in live \cup {none}
  <2>1. CASE m = 1
    BY <2>1, UpRecursion
  <2>2. CASE m - 1 \in Depths
    BY <1>2, <1>3, <2>2
  <2> QED
    BY <1>2, <1>3, <2>1, <2>2
<1>5. Up(o, m) = IF Up(o, m - 1) = none THEN none ELSE proto[Up(o, m - 1)]
  BY <1>3, UpRecursion
<1> QED
  BY <1>3, <1>4, <1>5 DEF Inherits

LEMMA WalkedLives ==
  ASSUME Inherits, NEW o \in live
  PROVE  Walked(o) \subseteq live
<1> DEFINE hits == {n \in Depths : Up(o, n) # none /\ Own(Up(o, n), Name) # 0}
<1>1. Cardinality(Objs) \in Nat
  BY CacheAssumption, FS_CardinalityType
<1>2. FoundAt(o) = 0 \/ FoundAt(o) \in Depths
  <2>1. CASE hits = {}
    BY <2>1 DEF FoundAt
  <2>2. CASE hits # {}
    <3>1. hits \subseteq Nat
      BY <1>1 DEF Depths
    <3>2. \E n \in hits : \A m \in hits : n <= m
      BY <2>2, <3>1, LeastElement
    <3>3. FoundAt(o) = CHOOSE n \in hits : \A m \in hits : n <= m
      BY <2>2 DEF FoundAt
    <3> QED
      BY <3>2, <3>3
  <2> QED
    BY <2>1, <2>2
<1>3. (IF FoundAt(o) = 0 THEN Depths ELSE 1 .. FoundAt(o)) \subseteq Depths
  BY <1>1, <1>2 DEF Depths
<1> QED
  BY <1>3, UpLives DEF Walked

-----------------------------------------------------------------------------
(* The ways of the site *)

LEMMA NoWayYet == Handed(<<>>, tree)
<1>1. Ways \in Nat
  BY CacheAssumption
<1> QED
  BY <1>1 DEF Handed

(* A bump, or nothing. *)
LEMMA BumpHands ==
  ASSUME Handed(ways, tree), tree \subseteq tree', ways' = ways \/ ways' = icEpochBump
  PROVE  Handed(ways', tree')
<1> DEFINE n == Len(ways)
<1>1. n \in 0 .. Ways /\ n \in Nat /\ ways = [i \in 1 .. n |-> ways[i]]
  BY CacheAssumption DEF Handed
<1>2. DOMAIN ways = 1 .. n
  BY <1>1
<1>3. CASE ways' = ways
  BY <1>3 DEF Handed
<1>4. CASE ways' = icEpochBump
  <2>1. ways' = [i \in 1 .. n |-> Stale]
    BY <1>2, <1>4 DEF icEpochBump
  <2>2. ways' \in Seq({Stale}) /\ Len(ways') = n
    BY <1>1, <2>1
  <2>3. \A i \in 1 .. n : ways'[i].to = none
    BY <2>1 DEF Stale
  <2> QED
    BY <1>1, <2>1, <2>2, <2>3 DEF Handed
<1> QED
  BY <1>3, <1>4

LEMMA WayIndex ==
  ASSUME Handed(ways, tree), NEW s
  PROVE  \/ wayIndex(s) \in 1 .. Len(ways)
         \/ wayIndex(s) = Len(ways) + 1 /\ Len(ways) < Ways
<1> DEFINE usable == {i \in DOMAIN ways : ways[i].shape \in {s, none}}
<1>1. Len(ways) \in 0 .. Ways /\ DOMAIN ways = 1 .. Len(ways) /\ Ways \in Nat \ {0}
  BY CacheAssumption DEF Handed
<1>2. usable \subseteq 1 .. Len(ways)
  BY <1>1
<1>3. CASE usable # {}
  <2>1. \E i \in usable : \A j \in usable : i <= j
    <3>1. usable \subseteq Nat
      BY <1>1, <1>2
    <3> HIDE DEF usable
    <3> QED
      BY <1>3, <3>1, LeastElement
  <2>2. wayIndex(s) = CHOOSE i \in usable : \A j \in usable : i <= j
    BY <1>3 DEF wayIndex
  <2> QED
    BY <1>2, <2>1, <2>2
<1>4. CASE usable = {}
  <2>1. wayIndex(s) = IF Len(ways) < Ways THEN Len(ways) + 1 ELSE 1
    BY <1>4 DEF wayIndex
  <2> QED
    BY <1>1, <2>1
<1> QED
  BY <1>3, <1>4

(* What is in the site after a fill. *)
LEMMA RecordedWays ==
  ASSUME Handed(ways, tree), NEW s, NEW w, record(s, w)
  PROVE  /\ Len(ways') \in 0 .. Ways /\ ways' = [k \in 1 .. Len(ways') |-> ways'[k]]
         /\ \A k \in 1 .. Len(ways') : ways'[k] = w \/ \E j \in 1 .. Len(ways) : ways'[k] = ways[j]
<1> DEFINE n == Len(ways)
           i == wayIndex(s)
<1>1. n \in 0 .. Ways /\ n \in Nat /\ ways = [k \in 1 .. n |-> ways[k]]
  BY CacheAssumption DEF Handed
<1>2. i \in 1 .. n \/ (i = n + 1 /\ n < Ways)
  BY WayIndex
<1>3. ways \in Seq({ways[k] : k \in 1 .. n} \cup {w})
  BY <1>1
<1> HIDE DEF i
<1>4. ways' = IF i > n THEN Append(ways, w) ELSE [ways EXCEPT ![i] = w]
  BY DEF record, i
<1>5. CASE i \in 1 .. n
  <2>1. ways' = [ways EXCEPT ![i] = w]
    <3>1. ~ (i > n)
      BY <1>1, <1>5
    <3> QED
      BY <1>4, <3>1, Zenon
  <2>2. ways' \in Seq({ways[k] : k \in 1 .. n} \cup {w}) /\ Len(ways') = n
    BY <1>1, <1>3, <1>5, <2>1
  <2>3. ways' = [k \in 1 .. n |-> ways'[k]]
    BY <1>1, <2>1
  <2>4. \A k \in 1 .. n : ways'[k] = IF k = i THEN w ELSE ways[k]
    BY <1>1, <2>1
  <2> QED
    BY <1>1, <2>2, <2>3, <2>4
<1>6. CASE i = n + 1 /\ n < Ways
  <2>1. ways' = Append(ways, w)
    <3>1. i > n
      BY <1>1, <1>6
    <3> QED
      BY <1>4, <3>1, Zenon
  <2>2. /\ ways' \in Seq({ways[k] : k \in 1 .. n} \cup {w}) /\ Len(ways') = n + 1 /\ ways'[n + 1] = w
        /\ \A k \in 1 .. n : ways'[k] = ways[k]
    BY <1>1, <1>3, <2>1
  <2>3. ways' = [k \in 1 .. n + 1 |-> ways'[k]]
    BY <2>2
  <2>4. \A k \in 1 .. n + 1 : k \in 1 .. n \/ k = n + 1
    BY <1>1
  <2>5. n + 1 \in 0 .. Ways
    BY <1>1, <1>6, CacheAssumption
  <2>6. \A k \in 1 .. n + 1 : ways'[k] = w \/ \E j \in 1 .. n : ways'[k] = ways[j]
    BY <2>2, <2>4
  <2> QED
    BY <2>2, <2>3, <2>5, <2>6
<1> QED
  BY <1>2, <1>5, <1>6

(* A way filled with a shape of the tree, or with none. *)
LEMMA RecordHands ==
  ASSUME Handed(ways, tree), tree' = tree, NEW s, NEW w, w.to \in (tree \ {Root}) \cup {none}, record(s, w)
  PROVE  Handed(ways', tree')
BY RecordedWays DEF Handed

-----------------------------------------------------------------------------
(* Objects on the root shape *)

LEMMA StandingFinite ==
  ASSUME Inherits
  PROVE  IsFiniteSet(Standing) /\ Cardinality(Standing) \in Nat /\ Standing \subseteq live
<1>1. IsFiniteSet(Objs) /\ Standing \subseteq Objs /\ Standing \subseteq live
  BY CacheAssumption DEF Inherits, Standing
<1>2. IsFiniteSet(Standing)
  BY <1>1, FS_Subset
<1> QED
  BY <1>1, <1>2, FS_CardinalityType

(* The root never looks private to an object that stands on it. *)
LEMMA RootIsShared ==
  ASSUME Inherits, Counting, NEW o \in live, shape[o] = Root
  PROVE  isInTree(Root) /\ rootRefs > 1
<1>1. o \in Standing /\ IsFiniteSet(Standing) /\ Cardinality(Standing) \in Nat
  BY StandingFinite DEF Standing
<1>2. Cardinality(Standing) # 0
  BY <1>1, FS_EmptySet
<1>3. rootRefs > 1
  BY <1>1, <1>2 DEF Counting
<1> QED
  BY <1>3, RootIsAPath DEF isInTree

(* One object leaves its shape for another that is not the root. *)
LEMMA LeavesRoot ==
  ASSUME Inherits, Counting, NEW o \in live, NEW x, x # Root, live' = live,
         shape \in [Objs -> tree \cup Objs], shape' = [shape EXCEPT ![o] = x],
         rootRefs' = Release(o) \/ rootRefs' = rootRefs
  PROVE  Counting'
<1>1. IsFiniteSet(Standing) /\ Cardinality(Standing) \in Nat
  BY StandingFinite
<1>2. Standing' = Standing \ {o}
  BY DEF Standing, Inherits
<1>3. Cardinality(Standing') = IF o \in Standing THEN Cardinality(Standing) - 1 ELSE Cardinality(Standing)
  BY <1>1, <1>2, FS_RemoveElement
<1>4. o \in Standing <=> shape[o] = Root
  BY DEF Standing
<1>5. rootRefs \in Nat /\ rootRefs >= 1 + Cardinality(Standing)
  BY DEF Counting
<1>6. Release(o) = IF o \in Standing THEN rootRefs - 1 ELSE rootRefs
  BY <1>4, <1>5 DEF Release
<1>7. o \in Standing => Cardinality(Standing) >= 1
  BY <1>1, FS_EmptySet
<1> HIDE DEF Standing
<1>8. rootRefs' \in Nat /\ rootRefs' >= 1 + Cardinality(Standing')
  <2>1. CASE o \in Standing
    BY <1>1, <1>3, <1>5, <1>6, <1>7, <2>1
  <2>2. CASE o \notin Standing
    BY <1>1, <1>3, <1>5, <1>6, <2>2
  <2> QED
    BY <2>1, <2>2
<1> QED
  BY <1>8 DEF Counting

(* Fewer objects stand on the root, or as many. *)
LEMMA FewerStand ==
  ASSUME Inherits, Counting, Standing' \subseteq Standing, rootRefs' = rootRefs
  PROVE  Counting'
<1>1. IsFiniteSet(Standing) /\ Cardinality(Standing) \in Nat
  BY StandingFinite
<1>2. Cardinality(Standing') <= Cardinality(Standing) /\ IsFiniteSet(Standing') /\ Cardinality(Standing') \in Nat
  BY <1>1, FS_Subset, FS_CardinalityType
<1> QED
  BY <1>1, <1>2 DEF Counting

-----------------------------------------------------------------------------
(* Steps *)

LEMMA CacheParts ==
  ASSUME CacheInv
  PROVE  /\ Layouts /\ Inherits /\ Flags /\ Counting /\ Handed(ways, tree)
         /\ live \subseteq Objs /\ shape \in [Objs -> tree \cup Objs] /\ proto \in [Objs -> Objs \cup {none}]
         /\ ops \in Nat /\ MaxOps \in Nat
BY CacheAssumption DEF CacheInv, Layouts, Inherits, Flags

LEMMA CacheInit == Init => CacheInv
<1> SUFFICES ASSUME Init PROVE CacheInv
  OBVIOUS
<1>1. Built \subseteq Paths /\ Root \in Built /\ {Root} \subseteq Paths
  <2> DEFINE by(k) == [key |-> k, attrs |-> Default]
             T == [key : Keys, attrs : SUBSET {"W", "C"}]
  <2>1. Name \in Keys /\ \A k \in Keys : by(k) \in T
    BY CacheAssumption DEF Default
  <2> HIDE DEF by, T
  <2>2. \A k \in Keys : <<by(k)>> \in Seq(T) /\ <<by(k), by(Name)>> \in Seq(T)
    BY <2>1
  <2>3. Root \in Paths
    BY RootIsAPath
  <2> QED
    BY <2>2, <2>3 DEF Built, Paths, by, T
<1>2. Layouts
  BY <1>1, RootIsAPath DEF Init, Layouts
<1>3. Inherits /\ Flags
  BY CacheAssumption DEF Init, Inherits, Flags
<1>4. Counting
  <2>1. Standing = Objs
    BY DEF Init, Standing
  <2>2. Cardinality(Objs) \in Nat
    BY CacheAssumption, FS_CardinalityType
  <2> QED
    BY <2>1, <2>2 DEF Init, Counting
<1>5. Handed(ways, tree)
  BY NoWayYet DEF Init
<1> QED
  BY <1>2, <1>3, <1>4, <1>5 DEF CacheInv

(* What addKeyTr leaves an object on: its own private shape, or a shape of   *)
(* the tree other than the root.                                             *)
LEMMA EditShape ==
  ASSUME CacheInv, NEW o \in live, NEW k \in Keys, NEW attrs \in SUBSET {"W", "C"}
  PROVE  LET r == addKeyTr(o, k, attrs)
         IN  /\ r.shape \in r.tree \cup {o} /\ r.shape # Root
             /\ tree \subseteq r.tree /\ r.tree \subseteq Paths
<1> DEFINE s == shape[o]
           next == Append(s, [key |-> k, attrs |-> attrs])
           r == addKeyTr(o, k, attrs)
<1>1. /\ Layouts /\ o \in Objs /\ s \in tree \cup Objs /\ tree \subseteq Paths /\ o # Root
      /\ s \in Objs => s = o
  BY CacheParts, RootIsAPath DEF Layouts
<1>2. s = Root => isInTree(s)
  BY CacheParts, RootIsShared
<1>3. ~ isInTree(s) => s = o
  BY <1>1, <1>2 DEF isInTree
<1>4. isInTree(s) => s \in tree /\ next \in Paths /\ next # Root
  BY <1>1, NextPath DEF isInTree
<1> HIDE DEF s, next
<1>5. CASE ~ isInTree(s)
  <2>1. r.shape = s /\ r.tree = tree
    BY <1>5 DEF addKeyTr, s
  <2> QED
    BY <1>1, <1>3, <1>5, <2>1
<1>6. CASE isInTree(s) /\ next \in tree
  <2>1. r.shape = next /\ r.tree = tree
    BY <1>6 DEF addKeyTr, s, next
  <2> QED
    BY <1>1, <1>4, <1>6, <2>1
<1>7. CASE isInTree(s) /\ next \notin tree
  <2>1. r.shape = o /\ r.tree = tree \cup {next}
    BY <1>7 DEF addKeyTr, s, next
  <2> QED
    BY <1>1, <1>4, <1>7, <2>1
<1> QED
  BY <1>5, <1>6, <1>7

(* An object moves to another shape. *)
LEMMA MoveKeeps ==
  ASSUME CacheInv, NEW o \in live, NEW x \in tree' \cup {o}, x # Root,
         tree \subseteq tree', tree' \subseteq Paths, shape' = [shape EXCEPT ![o] = x],
         rootRefs' = Release(o) \/ rootRefs' = rootRefs,
         live' = live, proto' = proto, Flags', ways' = ways \/ ways' = icEpochBump
  PROVE  CacheInv'
<1>1. Layouts'
  <2>1. \A p \in Objs : shape'[p] = IF p = o THEN x ELSE shape[p]
    BY CacheParts
  <2>2. x \in Objs => x = o
    BY RootIsAPath
  <2> QED
    BY <2>1, <2>2, CacheParts DEF Layouts
<1>2. Inherits'
  BY CacheParts DEF Inherits
<1>3. Counting'
  BY CacheParts, LeavesRoot
<1>4. Handed(ways', tree')
  BY CacheParts, BumpHands
<1> QED
  BY <1>1, <1>2, <1>3, <1>4 DEF CacheInv

(* Nobody moves. *)
LEMMA StayKeeps ==
  ASSUME CacheInv, UNCHANGED <<tree, rootRefs, shape, live>>, Inherits', Flags', Handed(ways', tree')
  PROVE  CacheInv'
<1>1. Layouts'
  BY CacheParts DEF Layouts
<1>2. Counting'
  BY CacheParts DEF Counting, Standing
<1> QED
  BY <1>1, <1>2 DEF CacheInv

LEMMA CountTypes ==
  ASSUME CacheInv, Count
  PROVE  ops' \in 0 .. MaxOps
BY CacheParts DEF Count

(* A property is defined, deleted or frozen. *)
LEMMA DefinitionKeeps ==
  ASSUME CacheInv, NEW o \in Objs, NEW k \in Keys, NEW attrs \in {Default, ReadOnly},
         \/ DefineOwn(o, k, attrs) \/ DefineAccessor(o, k) \/ Delete(o, k) \/ Freeze(o, TRUE) \/ Freeze(o, FALSE)
         \/ PutNew(o)
  PROVE  CacheInv'
<1>1. Default \in SUBSET {"W", "C"} /\ ReadOnly \in SUBSET {"W", "C"} /\ Name \in Keys /\ none \notin Objs
  BY CacheAssumption DEF Default, ReadOnly
<1>2. o \in live /\ ops' \in 0 .. MaxOps
  BY CountTypes DEF DefineOwn, DefineAccessor, Delete, Freeze, PutNew, Spend
<1>3. o # Root /\ tree \subseteq Paths
  BY CacheParts, RootIsAPath DEF Layouts
<1>4. ASSUME NEW key \in Keys, NEW at \in SUBSET {"W", "C"}, defineOwn(o, key, at),
             live' = live, proto' = proto, Flags'
      PROVE  CacheInv'
  <2> DEFINE r == addKeyTr(o, key, at)
  <2>1. /\ r.shape \in r.tree \cup {o} /\ r.shape # Root /\ tree \subseteq r.tree /\ r.tree \subseteq Paths
    BY <1>2, EditShape
  <2>2. /\ shape' = [shape EXCEPT ![o] = r.shape] /\ tree' = r.tree /\ rootRefs' = Release(o)
        /\ ways' = ways \/ ways' = icEpochBump
    BY <1>4 DEF defineOwn, NoteLayout
  <2> HIDE DEF r
  <2> QED
    BY <1>2, <1>4, <2>1, <2>2, MoveKeeps
<1>5. ASSUME NEW props, NEW bumped, Privately(o, props, bumped), tree \subseteq tree', tree' \subseteq Paths,
             live' = live, proto' = proto, Flags'
      PROVE  CacheInv'
  <2>1. /\ shape' = [shape EXCEPT ![o] = o] /\ rootRefs' = Release(o)
        /\ ways' = ways \/ ways' = icEpochBump
    BY <1>5 DEF Privately, NoteLayout
  <2> QED
    BY <1>2, <1>3, <1>5, <2>1, MoveKeeps
<1>6. CASE DefineOwn(o, k, attrs)
  <2>1. Flags'
    BY <1>2, <1>6, CacheParts DEF DefineOwn, Flags, NoStore
  <2> QED
    BY <1>1, <1>4, <1>6, <2>1 DEF DefineOwn
<1>7. CASE PutNew(o)
  <2>1. Flags'
    BY <1>2, <1>7, CacheParts DEF PutNew, Flags
  <2> QED
    BY <1>1, <1>4, <1>7, <2>1 DEF PutNew
<1>8. CASE DefineAccessor(o, k)
  <2>1. Flags'
    BY <1>2, <1>8, CacheParts DEF DefineAccessor, Flags
  <2>2. tree \subseteq tree' /\ tree' \subseteq Paths
    <3>1. tree' = addKeyTr(o, k, ReadOnly).tree
      BY <1>8 DEF DefineAccessor
    <3> QED
      BY <1>1, <1>2, <3>1, EditShape
  <2> QED
    BY <1>5, <1>8, <2>1, <2>2 DEF DefineAccessor
<1>9. CASE Delete(o, k)
  <2>1. Flags'
    BY <1>2, <1>9, CacheParts DEF Delete, Flags
  <2> QED
    BY <1>3, <1>5, <1>9, <2>1 DEF Delete
<1>10. ASSUME NEW freeze \in BOOLEAN, Freeze(o, freeze) PROVE CacheInv'
  <2>1. Flags'
    BY <1>2, <1>10, CacheParts DEF Freeze, Flags
  <2> QED
    BY <1>3, <1>5, <1>10, <2>1 DEF Freeze
<1> QED
  BY <1>6, <1>7, <1>8, <1>9, <1>10

(* Prototypes, extensibility and collections. *)
LEMMA ObjectKeeps ==
  ASSUME CacheInv, NEW o \in Objs, NEW p \in Objs \cup {none}, NEW dead \in SUBSET Objs,
         PreventExtensions(o) \/ SetProto(o, p) \/ New(o, p) \/ Collect(dead)
  PROVE  CacheInv'
<1>1. /\ Layouts /\ Inherits /\ Flags /\ Counting /\ Handed(ways, tree) /\ live \subseteq Objs
      /\ shape \in [Objs -> tree \cup Objs] /\ proto \in [Objs -> Objs \cup {none}] /\ none \notin Objs
  BY CacheParts, CacheAssumption
<1>2. ops' \in 0 .. MaxOps
  BY CountTypes DEF PreventExtensions, SetProto, New, Collect, Spend
<1>3. CASE PreventExtensions(o)
  <2>1. Inherits' /\ Flags'
    BY <1>1, <1>2, <1>3 DEF PreventExtensions, Inherits, Flags
  <2> QED
    BY <1>1, <1>3, <2>1, StayKeeps DEF PreventExtensions
<1>4. CASE SetProto(o, p)
  <2>1. Inherits' /\ Flags'
    BY <1>1, <1>2, <1>4 DEF SetProto, Inherits, Flags
  <2>2. Handed(ways', tree')
    BY <1>1, <1>4, BumpHands DEF SetProto, NoteLayout
  <2> QED
    BY <1>4, <2>1, <2>2, StayKeeps DEF SetProto
<1>5. CASE New(o, p)
  <2>1. Inherits' /\ Flags'
    BY <1>1, <1>2, <1>5 DEF New, Inherits, Flags
  <2>2. Layouts' /\ Handed(ways', tree')
    BY <1>1, <1>5 DEF New, Layouts
  <2>3. Counting'
    <3>1. IsFiniteSet(Standing) /\ Cardinality(Standing) \in Nat
      BY <1>1, StandingFinite
    <3>2. Standing' \subseteq Standing \cup {o}
      BY <1>5 DEF New, Standing
    <3>3. /\ IsFiniteSet(Standing \cup {o}) /\ Cardinality(Standing \cup {o}) <= Cardinality(Standing) + 1
          /\ Cardinality(Standing \cup {o}) \in Nat
      <4>1. /\ IsFiniteSet(Standing \cup {o})
            /\ Cardinality(Standing \cup {o}) = IF o \in Standing THEN Cardinality(Standing) ELSE Cardinality(Standing) + 1
        BY <3>1, FS_AddElement
      <4> HIDE DEF Standing
      <4> QED
        BY <3>1, <4>1
    <3>4. Cardinality(Standing') <= Cardinality(Standing \cup {o}) /\ IsFiniteSet(Standing')
      BY <3>2, <3>3, FS_Subset
    <3>5. Cardinality(Standing') \in Nat
      BY <3>4, FS_CardinalityType
    <3>6. rootRefs' = rootRefs + 1
      BY <1>5 DEF New
    <3> QED
      BY <1>1, <3>1, <3>3, <3>4, <3>5, <3>6 DEF Counting
  <2> QED
    BY <2>1, <2>2, <2>3 DEF CacheInv
<1>6. CASE Collect(dead)
  <2>1. Inherits' /\ Flags'
    <3>1. store' = store /\ (store = NoStore \/ store.obj \in live') /\ extensible' \subseteq live' /\ usedAsProto' \subseteq live'
      BY <1>1, <1>6 DEF Collect, Flags
    <3>2. Inherits'
      BY <1>1, <1>6 DEF Collect, Inherits
    <3> QED
      BY <1>2, <3>1, <3>2 DEF Flags
  <2>2. Layouts'
    BY <1>1, <1>6, RootIsAPath DEF Collect, Layouts
  <2>3. Handed(ways', tree')
    BY <1>1, <1>6, BumpHands DEF Collect
  <2>4. Counting'
    <3>1. Standing' \subseteq Standing
      BY <1>1, <1>6 DEF Collect, Standing
    <3> QED
      BY <1>1, <1>6, <3>1, FewerStand DEF Collect
  <2> QED
    BY <2>1, <2>2, <2>3, <2>4 DEF CacheInv
<1> QED
  BY <1>3, <1>4, <1>5, <1>6

(* The property opcodes and their fills. *)
LEMMA SiteKeeps ==
  ASSUME CacheInv, NEW o \in Objs,
         GetField(o) \/ CachedStore(o) \/ PutOwn(o) \/ PutSetter(o) \/ FillStore \/ UNCHANGED vars
  PROVE  CacheInv'
<1>1. /\ Layouts /\ Inherits /\ Flags /\ Counting /\ Handed(ways, tree) /\ live \subseteq Objs
      /\ shape \in [Objs -> tree \cup Objs] /\ none \notin Objs /\ tree \subseteq Paths
  BY CacheParts, CacheAssumption DEF Layouts
<1>2. ASSUME NEW x \in live, icFillPut(x), UNCHANGED objects
      PROVE  Handed(ways', tree') /\ usedAsProto' = usedAsProto
  <2>1. usedAsProto' = usedAsProto /\ tree' = tree
    BY <1>2 DEF icFillPut, objects
  <2>2. CASE known(x)
    BY <1>1, <1>2, <2>1, <2>2, BumpHands DEF icFillPut
  <2>3. CASE ~ known(x)
    <3>1. PICK n : record(shape[x], [Stale EXCEPT !.shape = shape[x], !.slot = n])
      BY <1>2, <2>3 DEF icFillPut
    <3>2. [Stale EXCEPT !.shape = shape[x], !.slot = n].to = none
      BY DEF Stale
    <3> QED
      BY <1>1, <2>1, <3>1, <3>2, RecordHands
  <2> QED
    BY <2>2, <2>3
<1>3. CASE UNCHANGED vars
  <2>1. Inherits' /\ Flags'
    BY <1>1, <1>3 DEF vars, objects, Inherits, Flags
  <2> QED
    BY <1>1, <1>3, <2>1, StayKeeps DEF vars, objects
<1>4. CASE GetField(o)
  <2>1. o \in live /\ UNCHANGED objects /\ store' = store /\ ops' = ops /\ icFillGet(o)
    BY <1>4 DEF GetField
  <2>2. GetWay(o).to = none
    BY DEF GetWay, Stale
  <2>3. Handed(ways', tree')
    BY <1>1, <2>1, <2>2, RecordHands DEF icFillGet, objects
  <2>4. usedAsProto' \subseteq live
    BY <1>1, <2>1, WalkedLives DEF icFillGet, Flags
  <2>5. Inherits' /\ Flags'
    BY <1>1, <2>1, <2>4 DEF objects, Inherits, Flags
  <2> QED
    BY <2>1, <2>3, <2>5, StayKeeps DEF objects
<1>5. CASE CachedStore(o)
  <2>1. PICK i \in DOMAIN ways : /\ o \in live /\ ways[i].to # none /\ shape' = [shape EXCEPT ![o] = ways[i].to]
                                 /\ NoteLayout(o, FALSE)
                                 /\ UNCHANGED <<tree, rootRefs, priv, proto, extensible, live, usedAsProto, store, ops>>
    BY <1>5 DEF CachedStore
  <2>2. ways[i].to \in tree \ {Root}
    <3>1. i \in 1 .. Len(ways)
      BY <1>1, <2>1 DEF Handed
    <3> QED
      BY <1>1, <2>1, <3>1 DEF Handed
  <2>3. Flags'
    BY <1>1, <2>1 DEF Flags
  <2> QED
    BY <1>1, <2>1, <2>2, <2>3, MoveKeeps DEF NoteLayout
<1>6. CASE PutOwn(o)
  <2>1. o \in live /\ UNCHANGED objects /\ store' = store /\ ops' = ops /\ icFillPut(o)
    BY <1>6 DEF PutOwn, MissedStore
  <2>2. Handed(ways', tree') /\ usedAsProto' = usedAsProto
    BY <1>2, <2>1
  <2>3. Inherits' /\ Flags'
    BY <1>1, <2>1, <2>2 DEF objects, Inherits, Flags
  <2> QED
    BY <2>1, <2>2, <2>3, StayKeeps DEF objects
<1>7. CASE PutSetter(o)
  <2>1. o \in live /\ UNCHANGED <<objects, usedAsProto, ways, ops>> /\ store'.obj = o
    BY <1>7 DEF PutSetter, MissedStore
  <2>2. Inherits' /\ Flags'
    BY <1>1, <2>1 DEF objects, Inherits, Flags
  <2> QED
    BY <1>1, <2>1, <2>2, StayKeeps DEF objects
<1>8. CASE FillStore
  <2> DEFINE x == store.obj
  <2>1. x \in live /\ UNCHANGED objects /\ store' = NoStore /\ ops' = ops
    BY <1>1, <1>8 DEF FillStore, Flags
  <2>2. icFillPut(x) \/ icFillPutTransition(x, store.pre)
    BY <1>8 DEF FillStore
  <2> HIDE DEF x
  <2>3. ASSUME icFillPutTransition(x, store.pre) PROVE Handed(ways', tree') /\ usedAsProto' \subseteq live
    <3>1. usedAsProto' \subseteq live
      BY <1>1, <2>1, <2>3, WalkedLives DEF icFillPutTransition, Flags
    <3>2. CASE ways' = ways
      BY <1>1, <2>1, <3>1, <3>2, BumpHands DEF objects
    <3>3. CASE ways' # ways
      <4> DEFINE w == [Stale EXCEPT !.shape = store.pre, !.slot = Own(x, Name), !.to = shape[x], !.proto = proto[x],
                        !.code = store.code]
      <4>1. AddedDefault(x) /\ Shareable(x) /\ record(store.pre, w)
        BY <2>3, <3>3 DEF icFillPutTransition
      <4>2. shape[x] # Root
        BY <4>1, RootHasNothing DEF AddedDefault
      <4>3. shape[x] \in tree
        BY <1>1, <2>1, <4>1 DEF Shareable, isInTree
      <4>4. w.to = shape[x]
        BY DEF Stale
      <4> HIDE DEF w
      <4> QED
        BY <1>1, <2>1, <3>1, <4>1, <4>2, <4>3, <4>4, RecordHands DEF objects
    <3> QED
      BY <3>1, <3>2, <3>3
  <2>4. Handed(ways', tree') /\ usedAsProto' \subseteq live
    BY <1>1, <1>2, <2>1, <2>2, <2>3 DEF Flags
  <2>5. Inherits' /\ Flags'
    BY <1>1, <2>1, <2>4 DEF objects, Inherits, Flags
  <2> QED
    BY <2>1, <2>4, <2>5, StayKeeps DEF objects
<1> QED
  BY <1>3, <1>4, <1>5, <1>6, <1>7, <1>8

LEMMA CacheStep == CacheInv /\ [Next]_vars => CacheInv'
<1> SUFFICES ASSUME CacheInv, [Next]_vars PROVE CacheInv'
  OBVIOUS
<1>1. ASSUME NEW o \in Objs,
             \/ \E k \in Keys : \/ \E attrs \in {Default, ReadOnly} : DefineOwn(o, k, attrs)
                                \/ DefineAccessor(o, k) \/ Delete(o, k)
             \/ Freeze(o, TRUE) \/ Freeze(o, FALSE) \/ PutNew(o)
      PROVE  CacheInv'
  <2>1. Name \in Keys
    BY CacheAssumption
  <2> QED
    BY <1>1, <2>1, DefinitionKeeps
<1>2. ASSUME NEW o \in Objs,
             PreventExtensions(o) \/ \E p \in Objs \cup {none} : SetProto(o, p) \/ New(o, p)
      PROVE  CacheInv'
  BY <1>2, ObjectKeeps
<1>3. ASSUME NEW o \in Objs, GetField(o) \/ CachedStore(o) \/ PutOwn(o) \/ PutSetter(o) PROVE CacheInv'
  BY <1>3, SiteKeeps
<1>4. ASSUME NEW dead \in SUBSET Objs, Collect(dead) PROVE CacheInv'
  <2>1. PICK x : x \in dead
    BY <1>4 DEF Collect
  <2> QED
    BY <1>4, <2>1, ObjectKeeps
<1>5. CASE FillStore \/ UNCHANGED vars
  <2>1. CASE Objs # {}
    <3>1. PICK o : o \in Objs
      BY <2>1
    <3> QED
      BY <1>5, <3>1, SiteKeeps
  <2>2. CASE Objs = {}
    <3>1. CASE UNCHANGED vars
      BY <3>1 DEF vars, objects, CacheInv, Layouts, Inherits, Flags, Counting, Standing
    <3>2. CASE FillStore
      BY <2>2, <3>2, CacheParts DEF FillStore, Flags
    <3> QED
      BY <1>5, <3>1, <3>2
  <2> QED
    BY <2>1, <2>2
<1> QED
  BY <1>1, <1>2, <1>3, <1>4, <1>5 DEF Next

(* Every reachable state satisfies the invariant: the ways hand on shapes of *)
(* the tree only, and the references to the root count who stands on it.     *)
THEOREM CacheInvariance == Spec => []CacheInv
BY CacheInit, CacheStep, PTL DEF Spec

(* An edit in place is an edit of one object's layout: no two objects stand  *)
(* on a private shape, whatever a store site handed on, and the root shape   *)
(* is never taken for a private one (isInTree, icFillPutTransition).         *)
THEOREM EditsStayOwn == Spec => []EditsAreOwn
<1>1. ASSUME CacheInv PROVE EditsAreOwn
  <2>1. TypeOK
    BY <1>1, CacheParts DEF Layouts, Inherits, Flags, Counting, Handed, TypeOK, Shapes, NoStore
  <2>2. PrivateIsPrivate /\ RootStaysShared
    BY <1>1, CacheParts, RootIsShared DEF Layouts, PrivateIsPrivate, RootStaysShared
  <2> QED
    BY <2>1, <2>2 DEF EditsAreOwn
<1> QED
  BY <1>1, CacheInvariance, PTL

-----------------------------------------------------------------------------
(* Cached reads *)

(* What a way that names a holder has found out: the n objects c of the      *)
(* chain it walked, the last of which has the property.  All are flagged, so *)
(* that a change of one of them retires the way.                             *)
Trail(w, n, c) ==
  /\ c[1] = w.proto /\ c[n] = w.holder
  /\ \A m \in 1 .. n - 1 : c[m + 1] = proto[c[m]] /\ Own(c[m], Name) = 0
  /\ Own(w.holder, Name) = w.slot /\ ~ Props(w.holder)[w.slot].acc

(* A way that can be hit is right about every object of its layout. *)
ReadWay(w) ==
  w.slot # 0 =>
    /\ w.to = none /\ w.shape \in tree \cup Objs /\ (w.shape \in Objs => shape[w.shape] = w.shape)
    /\ w.holder = none => SlotOf(PropsOf(w.shape), Name) = w.slot /\ ~ PropsOf(w.shape)[w.slot].acc
    /\ w.holder # none => /\ SlotOf(PropsOf(w.shape), Name) = 0
                          /\ \E n \in Depths : \E c \in [1 .. n -> usedAsProto] : Trail(w, n, c)

ReadInv ==
  /\ priv = [o \in Objs |-> priv[o]]
  /\ op = "get" => store = NoStore /\ \A i \in 1 .. Len(ways) : ReadWay(ways[i])

LEMMA DepthFacts ==
  /\ Cardinality(Objs) \in Nat /\ Depths = 1 .. Cardinality(Objs) /\ Depths \subseteq Nat
  /\ \A n \in Depths : n \in Nat /\ n >= 1 /\ 1 .. n \subseteq Depths /\ n \in 1 .. n /\ 1 \in 1 .. n
  /\ \A n \in Depths : n = 1 \/ n - 1 \in Depths
BY CacheAssumption, FS_CardinalityType DEF Depths

(* Past the end of the chain there is nothing. *)
LEMMA ChainEnds ==
  ASSUME NEW o, NEW n \in Depths, Up(o, n) # none, NEW k \in 1 .. n
  PROVE  Up(o, k) # none
<1> SUFFICES ASSUME Up(o, k) = none PROVE FALSE
  OBVIOUS
<1> DEFINE T == {j \in Depths : j >= k /\ Up(o, j) # none}
<1>1. T # {} /\ T \subseteq Nat
  BY DepthFacts
<1>2. PICK j \in T : \A m \in T : j <= m
  BY <1>1, LeastElement
<1>3. j # k /\ j \in Nat /\ k \in Nat /\ j > k /\ k >= 1
  BY <1>2, DepthFacts
<1>4. j - 1 \in Depths /\ j - 1 >= k /\ j - 1 \notin T
  BY <1>2, <1>3, DepthFacts
<1>5. Up(o, j - 1) = none
  BY <1>4
<1> QED
  BY <1>2, <1>5, UpRecursion

(* Where the walk finds the name. *)
LEMMA FoundFirst ==
  ASSUME NEW o
  PROVE  /\ FoundAt(o) # 0 => /\ FoundAt(o) \in Depths /\ Up(o, FoundAt(o)) # none /\ Own(Up(o, FoundAt(o)), Name) # 0
                              /\ \A m \in 1 .. FoundAt(o) - 1 : Own(Up(o, m), Name) = 0
         /\ \A n \in Depths : /\ Up(o, n) # none /\ Own(Up(o, n), Name) # 0
                              /\ \A m \in 1 .. n - 1 : Own(Up(o, m), Name) = 0
                              => FoundAt(o) = n
<1> DEFINE hits == {n \in Depths : Up(o, n) # none /\ Own(Up(o, n), Name) # 0}
<1>1. hits \subseteq Nat
  BY DepthFacts
<1>2. CASE hits = {}
  <2>1. FoundAt(o) = 0
    BY <1>2 DEF FoundAt
  <2> QED
    BY <1>2, <2>1
<1>3. CASE hits # {}
  <2> DEFINE f == FoundAt(o)
  <2>1. \E n \in hits : \A m \in hits : n <= m
    <3> HIDE DEF hits
    <3> QED
      BY <1>1, <1>3, LeastElement
  <2>2. f = CHOOSE n \in hits : \A m \in hits : n <= m
    BY <1>3 DEF FoundAt
  <2>3. f \in hits /\ \A m \in hits : f <= m
    BY <2>1, <2>2
  <2> HIDE DEF f
  <2>4. ASSUME NEW m \in 1 .. f - 1 PROVE Own(Up(o, m), Name) = 0
    <3>1. m \in 1 .. f /\ m \in Depths /\ ~ (f <= m)
      BY <2>3, DepthFacts
    <3>2. Up(o, m) # none
      BY <2>3, <3>1, ChainEnds
    <3> QED
      BY <2>3, <3>1, <3>2
  <2>5. ASSUME NEW n \in Depths, Up(o, n) # none, Own(Up(o, n), Name) # 0,
               \A m \in 1 .. n - 1 : Own(Up(o, m), Name) = 0
        PROVE  f = n
    <3>1. f <= n /\ f \in Nat /\ n \in Nat /\ f >= 1
      BY <2>3, <2>5, DepthFacts
    <3>2. ~ (f < n)
      <4>1. f < n => f \in 1 .. n - 1
        BY <3>1
      <4> QED
        BY <2>3, <2>5, <4>1
    <3> QED
      BY <3>1, <3>2
  <2> QED
    BY <2>3, <2>4, <2>5 DEF f
<1> QED
  BY <1>2, <1>3

(* Objects each of which is the prototype of the one before it are the chain. *)
LEMMA WalkIsUp ==
  ASSUME CacheInv, NEW o \in live, NEW n \in Depths, NEW c, c[1] = proto[o],
         \A m \in 1 .. n - 1 : c[m + 1] = IF c[m] = none THEN none ELSE proto[c[m]]
  PROVE  \A m \in 1 .. n : Up(o, m) = c[m]
<1>1. n \in Nat /\ n >= 1 /\ 1 .. n \subseteq Depths /\ 1 \in 1 .. n
  BY DepthFacts
<1>2. o # none
  BY CacheParts, CacheAssumption
<1> DEFINE T == {m \in 1 .. n : Up(o, m) # c[m]}
<1> SUFFICES ASSUME T # {} PROVE FALSE
  OBVIOUS
<1>3. T \subseteq Nat
  OBVIOUS
<1>4. PICK m \in T : \A k \in T : m <= k
  BY <1>3, LeastElement
<1>5. m # 1
  <2>1. 1 \in Depths /\ Up(o, 1 - 1) = o
    BY <1>1, UpRecursion
  <2>2. Up(o, 1) = proto[o]
    BY <1>2, <2>1, UpRecursion
  <2> QED
    BY <1>4, <2>2
<1>6. m \in Depths /\ m - 1 \in 1 .. n - 1 /\ (m - 1) + 1 = m /\ m - 1 \notin T /\ m - 1 \in 1 .. n
  BY <1>1, <1>4, <1>5
<1>7. Up(o, m - 1) = c[m - 1]
  BY <1>6
<1>8. Up(o, m) = IF Up(o, m - 1) = none THEN none ELSE proto[Up(o, m - 1)]
  BY <1>6, UpRecursion
<1>9. c[m] = IF c[m - 1] = none THEN none ELSE proto[c[m - 1]]
  BY <1>6
<1> QED
  BY <1>4, <1>7, <1>8, <1>9

(* A way that a trail supports finds what the walk finds. *)
LEMMA TrailIsWalk ==
  ASSUME CacheInv, NEW o \in live, NEW w, NEW n \in Depths, NEW c \in [1 .. n -> usedAsProto],
         Trail(w, n, c), proto[o] = w.proto, w.slot # 0
  PROVE  FoundAt(o) = n /\ Up(o, n) = w.holder
<1>1. /\ n \in Depths /\ n \in Nat /\ n >= 1 /\ 1 .. n \subseteq Depths /\ n \in 1 .. n /\ 1 \in 1 .. n
      /\ c \in [1 .. n -> usedAsProto]
  BY DepthFacts
<1>2. usedAsProto \subseteq Objs /\ none \notin Objs /\ o \in Objs
  BY CacheParts, CacheAssumption DEF Flags
<1>3. \A m \in 1 .. n : Up(o, m) = c[m]
  <2>1. \A m \in 1 .. n - 1 : m \in 1 .. n
    BY <1>1
  <2>2. \A m \in 1 .. n - 1 : c[m + 1] = IF c[m] = none THEN none ELSE proto[c[m]]
    BY <1>1, <1>2, <2>1 DEF Trail
  <2>3. c[1] = proto[o]
    BY DEF Trail
  <2> QED
    BY <2>2, <2>3, WalkIsUp, ZenonT(40)
<1>4. Up(o, n) = w.holder /\ Up(o, n) # none /\ Own(Up(o, n), Name) # 0
  BY <1>1, <1>2, <1>3 DEF Trail
<1>5. \A m \in 1 .. n - 1 : Own(Up(o, m), Name) = 0
  <2>1. \A m \in 1 .. n - 1 : m \in 1 .. n
    BY <1>1
  <2> QED
    BY <1>3, <2>1 DEF Trail
<1> QED
  BY <1>1, <1>4, <1>5, FoundFirst

LEMMA ReadsAreLookups ==
  ASSUME CacheInv, ReadInv
  PROVE  CachedReadIsLookup
<1> SUFFICES ASSUME op = "get", NEW o \in live, NEW i \in DOMAIN ways, hit(ways[i], o)
             PROVE  /\ LookedUp(o) = [holder |-> IF ways[i].holder = none THEN o ELSE ways[i].holder, slot |-> ways[i].slot]
                    /\ ~ Props(LookedUp(o).holder)[ways[i].slot].acc
  BY DEF CachedReadIsLookup
<1> DEFINE w == ways[i]
<1>1. DOMAIN ways = 1 .. Len(ways)
  BY CacheParts DEF Handed
<1>2. ReadWay(w) /\ w.slot # 0 /\ w.shape = shape[o] /\ (w.holder # none => w.proto = proto[o])
  BY <1>1 DEF ReadInv, hit
<1> HIDE DEF w
<1>3. Own(o, Name) = SlotOf(PropsOf(w.shape), Name) /\ Props(o) = PropsOf(w.shape)
  BY <1>2 DEF Own, Props
<1>4. CASE w.holder = none
  <2>1. Own(o, Name) = w.slot /\ ~ Props(o)[w.slot].acc
    BY <1>2, <1>3, <1>4 DEF ReadWay
  <2>2. LookedUp(o) = [holder |-> o, slot |-> w.slot]
    <3>1. Up(o, 0) = o
      BY UpRecursion
    <3> QED
      BY <1>2, <2>1, <3>1 DEF LookedUp
  <2> QED
    BY <1>4, <2>1, <2>2 DEF w
<1>5. CASE w.holder # none
  <2>1. PICK n \in Depths : \E c \in [1 .. n -> usedAsProto] : Trail(w, n, c)
    BY <1>2, <1>5 DEF ReadWay
  <2>2. FoundAt(o) = n /\ Up(o, n) = w.holder /\ Own(o, Name) = 0
    BY <1>2, <1>3, <1>5, <2>1, TrailIsWalk DEF ReadWay
  <2>3. n # 0 /\ Own(w.holder, Name) = w.slot /\ ~ Props(w.holder)[w.slot].acc
    BY <2>1, DepthFacts DEF Trail
  <2>4. LookedUp(o) = [holder |-> w.holder, slot |-> w.slot]
    BY <2>2, <2>3 DEF LookedUp
  <2> QED
    BY <1>5, <2>3, <2>4 DEF w
<1> QED
  BY <1>4, <1>5

(* The layout a way is keyed on: of the tree, or the private one of its only *)
(* owner.                                                                    *)
LEMMA LayoutOnly ==
  ASSUME Layouts, tree \subseteq tree',
         \A x \in Objs : shape[x] = x => shape'[x] = x /\ priv'[x] = priv[x],
         NEW s \in tree \cup Objs, s \in Objs => shape[s] = s
  PROVE  PropsOf(s)' = PropsOf(s) /\ s \in tree' \cup Objs /\ (s \in Objs => shape'[s] = s)
BY DEF PropsOf

(* The properties of an object a walk went through are still the same ones. *)
LEMMA FlaggedStay ==
  ASSUME Layouts, NEW x \in usedAsProto, usedAsProto \subseteq Objs, shape'[x] = shape[x],
         \A y \in Objs : shape[y] = y => shape'[y] = y /\ priv'[y] = priv[y]
  PROVE  Props(x)' = Props(x) /\ Own(x, Name)' = Own(x, Name)
<1> DEFINE s == shape[x]
<1>1. s' = s /\ (s \in Objs => s = x /\ priv'[x] = priv[x])
  BY DEF Layouts
<1>2. PropsOf(shape[x])' = PropsOf(shape[x])
  BY <1>1 DEF PropsOf
<1> QED
  BY <1>1, <1>2 DEF Props, Own

(* No object a way was recorded through has changed: the way is still right. *)
LEMMA QuietKeeps ==
  ASSUME CacheInv, tree \subseteq tree', usedAsProto \subseteq usedAsProto',
         \A x \in Objs : shape[x] = x => shape'[x] = x /\ priv'[x] = priv[x],
         \A x \in usedAsProto : shape'[x] = shape[x] /\ proto'[x] = proto[x],
         NEW w, ReadWay(w)
  PROVE  ReadWay(w)'
<1>1. Layouts /\ usedAsProto \subseteq Objs
  BY CacheParts DEF Flags
<1>2. \A x \in usedAsProto : Props(x)' = Props(x) /\ Own(x, Name)' = Own(x, Name)
  BY <1>1, FlaggedStay
<1>3. CASE w.slot = 0
  BY <1>3 DEF ReadWay
<1>4. CASE w.slot # 0
  <2>1. /\ w.to = none /\ PropsOf(w.shape)' = PropsOf(w.shape)
        /\ w.shape \in tree' \cup Objs /\ (w.shape \in Objs => shape'[w.shape] = w.shape)
    BY <1>1, <1>4, LayoutOnly DEF ReadWay
  <2>2. CASE w.holder = none
    BY <1>4, <2>1, <2>2 DEF ReadWay
  <2>3. CASE w.holder # none
    <3>1. PICK n \in Depths : \E c \in [1 .. n -> usedAsProto] : Trail(w, n, c)
      BY <1>4, <2>3 DEF ReadWay
    <3>2. PICK c \in [1 .. n -> usedAsProto] : Trail(w, n, c)
      BY <3>1
    <3>3. w.holder \in usedAsProto /\ c \in [1 .. n -> usedAsProto']
      BY <3>2, DepthFacts DEF Trail
    <3>4. \A m \in 1 .. n - 1 : c[m] \in usedAsProto /\ c[m + 1] = proto'[c[m]] /\ Own(c[m], Name)' = 0
      <4>1. \A m \in 1 .. n - 1 : m \in 1 .. n
        BY DepthFacts
      <4> QED
        BY <1>2, <3>2, <4>1 DEF Trail
    <3>5. Trail(w, n, c)'
      BY <1>2, <3>2, <3>3, <3>4 DEF Trail
    <3>6. SlotOf(PropsOf(w.shape), Name)' = 0
      BY <1>4, <2>1, <2>3 DEF ReadWay
    <3> QED
      BY <2>1, <2>3, <3>3, <3>5, <3>6 DEF ReadWay
  <2> QED
    BY <2>2, <2>3
<1> QED
  BY <1>3, <1>4

(* What a fill records is right. *)
LEMMA FilledWay ==
  ASSUME CacheInv, NEW o \in live, UNCHANGED objects, icFillGet(o)
  PROVE  ReadWay(GetWay(o))'
<1> DEFINE w == GetWay(o)
           n == FoundAt(o)
           h == Up(o, n)
           own == Own(o, Name)
<1>1. /\ Layouts /\ Inherits /\ Flags /\ o \in Objs /\ none \notin Objs /\ shape[o] \in tree \cup Objs
      /\ (shape[o] \in Objs => shape[shape[o]] = shape[o])
  BY CacheParts, CacheAssumption DEF Layouts
<1>2. tree' = tree /\ shape' = shape /\ priv' = priv /\ proto' = proto
  BY DEF objects
<1>3. own = SlotOf(PropsOf(shape[o]), Name) /\ Props(o) = PropsOf(shape[o])
  BY DEF Own, Props
<1>4. w' = w /\ \A x : Own(x, Name)' = Own(x, Name) /\ Props(x)' = Props(x) /\ PropsOf(x)' = PropsOf(x)
  BY <1>2 DEF GetWay, Own, Props, PropsOf, FoundAt, Up
<1> HIDE DEF w, n, h, own
<1>5. CASE own # 0
  <2>1. w = [Stale EXCEPT !.shape = shape[o], !.slot = IF Props(o)[own].acc THEN 0 ELSE own]
    BY <1>5 DEF GetWay, w, own
  <2>2. /\ w.shape = shape[o] /\ w.to = none /\ w.holder = none
        /\ w.slot = IF Props(o)[own].acc THEN 0 ELSE own
    BY <2>1 DEF Stale
  <2>3. ReadWay(w)'
    BY <1>1, <1>2, <1>3, <1>4, <1>5, <2>2 DEF ReadWay
  <2> QED
    BY <2>3 DEF w
<1>6. CASE own = 0 /\ n # 0 /\ ~ Props(h)[Own(h, Name)].acc
  <2>1. w = [Stale EXCEPT !.shape = shape[o], !.slot = Own(h, Name), !.holder = h, !.proto = proto[o]]
    BY <1>6 DEF GetWay, w, own, n, h
  <2>2. w.shape = shape[o] /\ w.to = none /\ w.holder = h /\ w.slot = Own(h, Name) /\ w.proto = proto[o]
    BY <2>1 DEF Stale
  <2>3. /\ n \in Depths /\ h # none /\ Own(h, Name) # 0
        /\ \A m \in 1 .. n - 1 : Own(Up(o, m), Name) = 0
    BY <1>6, FoundFirst DEF n, h
  <2>4. \A m \in 1 .. n : Up(o, m) # none /\ m \in Depths
    BY <2>3, ChainEnds, DepthFacts DEF h
  <2>5. usedAsProto' = usedAsProto \cup Walked(o)
    BY <1>6 DEF icFillGet, own
  <2> DEFINE c == [m \in 1 .. n |-> Up(o, m)]
  <2>6. \A m \in 1 .. n : Up(o, m) \in usedAsProto'
    BY <1>6, <2>4, <2>5 DEF Walked, n
  <2>7. n \in 1 .. n /\ 1 \in 1 .. n /\ 1 .. n - 1 \subseteq 1 .. n /\ \A m \in 1 .. n - 1 : m + 1 \in 1 .. n /\ (m + 1) - 1 = m
    BY <2>3, DepthFacts
  <2>8. c[1] = w.proto
    <3>1. Up(o, 1) = IF Up(o, 1 - 1) = none THEN none ELSE proto[Up(o, 1 - 1)]
      BY <2>4, <2>7, UpRecursion
    <3>2. Up(o, 1 - 1) = o
      BY UpRecursion
    <3> QED
      BY <1>1, <2>2, <2>7, <3>1, <3>2
  <2>9. \A m \in 1 .. n - 1 : c[m + 1] = proto[c[m]] /\ Own(c[m], Name) = 0
    <3> TAKE m \in 1 .. n - 1
    <3>1. m + 1 \in Depths /\ m + 1 \in 1 .. n /\ m \in 1 .. n /\ (m + 1) - 1 = m
      BY <2>4, <2>7
    <3>2. Up(o, m + 1) = IF Up(o, m) = none THEN none ELSE proto[Up(o, m)]
      BY <3>1, UpRecursion
    <3> QED
      BY <2>3, <2>4, <3>1, <3>2
  <2>10. c[n] = w.holder /\ Own(w.holder, Name) = w.slot /\ ~ Props(w.holder)[w.slot].acc
    BY <1>6, <2>2, <2>7 DEF h
  <2>11. PICK N, C : N = n /\ C = c
    OBVIOUS
  <2>12. N \in Depths /\ C \in [1 .. N -> usedAsProto']
    BY <2>3, <2>6, <2>11
  <2>13. Trail(w, N, C)'
    BY <1>2, <1>4, <2>8, <2>9, <2>10, <2>11 DEF Trail
  <2>14. w.holder # none /\ SlotOf(PropsOf(w.shape), Name)' = 0
    BY <1>3, <1>4, <1>6, <2>2, <2>3
  <2>15. ReadWay(w)'
    BY <1>1, <1>2, <1>4, <2>2, <2>12, <2>13, <2>14 DEF ReadWay
  <2> QED
    BY <2>15 DEF w
<1>7. CASE own = 0 /\ ~ (n # 0 /\ ~ Props(h)[Own(h, Name)].acc)
  <2>1. w = [Stale EXCEPT !.shape = shape[o]]
    BY <1>7 DEF GetWay, w, own, n, h
  <2>2. w.slot = 0
    BY <2>1 DEF Stale
  <2>3. ReadWay(w)'
    BY <1>4, <2>2 DEF ReadWay
  <2> QED
    BY <2>3 DEF w
<1> QED
  BY <1>5, <1>6, <1>7

(* After a bump no way can be hit. *)
LEMMA BumpEmpties ==
  ASSUME Handed(ways, tree), ways' = icEpochBump
  PROVE  \A i \in 1 .. Len(ways') : ways'[i].slot = 0
<1>1. Len(ways) \in Nat /\ DOMAIN ways = 1 .. Len(ways)
  BY CacheAssumption DEF Handed
<1>2. ways' = [i \in 1 .. Len(ways) |-> Stale]
  BY <1>1 DEF icEpochBump
<1>3. ways' \in Seq({Stale}) /\ Len(ways') = Len(ways)
  BY <1>1, <1>2
<1> QED
  BY <1>2, <1>3 DEF Stale

(* A quiet step, or a bump. *)
LEMMA QuietOrBump ==
  ASSUME CacheInv, ReadInv, op = "get", op' = op, store' = store, priv' = [o \in Objs |-> priv'[o]],
         \/ ways' = icEpochBump
         \/ /\ ways' = ways
            /\ tree \subseteq tree' /\ usedAsProto \subseteq usedAsProto'
            /\ \A x \in Objs : shape[x] = x => shape'[x] = x /\ priv'[x] = priv[x]
            /\ \A x \in usedAsProto : shape'[x] = shape[x] /\ proto'[x] = proto[x]
  PROVE  ReadInv'
<1>1. Handed(ways, tree)
  BY CacheParts
<1>2. store' = NoStore /\ \A i \in 1 .. Len(ways) : ReadWay(ways[i])
  BY DEF ReadInv
<1>3. CASE ways' = icEpochBump
  BY <1>1, <1>2, <1>3, BumpEmpties DEF ReadInv, ReadWay, NoStore
<1>4. CASE ways' # icEpochBump
  <2>1. ASSUME NEW i \in 1 .. Len(ways') PROVE ReadWay(ways[i])'
    <3>1. PICK w : w = ways[i]
      OBVIOUS
    <3>2. ways'[i] = w /\ ReadWay(w)
      BY <1>2, <1>4, <2>1, <3>1
    <3>3. ReadWay(w)'
      BY <1>4, <3>2, QuietKeeps
    <3> QED
      BY <3>2, <3>3 DEF ReadWay
  <2> QED
    BY <1>2, <2>1 DEF ReadInv, NoStore
<1> QED
  BY <1>3, <1>4

(* One object's layout, edited or moved: quiet when nothing was recorded     *)
(* through the object and its layout is not a private one.                   *)
LEMMA EditReads ==
  ASSUME CacheInv, ReadInv, op = "get", op' = op, store' = store, NEW o \in live, NEW S, NEW P, NEW b,
         shape' = [shape EXCEPT ![o] = S], priv' = [priv EXCEPT ![o] = P],
         NoteLayout(o, b), b \/ shape[o] \notin Objs,
         tree \subseteq tree', usedAsProto' = usedAsProto, proto' = proto
  PROVE  ReadInv'
<1>1. /\ o \in Objs /\ shape \in [Objs -> tree \cup Objs] /\ usedAsProto \subseteq Objs
      /\ priv = [x \in Objs |-> priv[x]]
  BY CacheParts DEF ReadInv, Flags
<1>2. priv' = [x \in Objs |-> priv'[x]]
  BY <1>1
<1>3. CASE ways' = icEpochBump
  BY <1>2, <1>3, QuietOrBump
<1>4. CASE ways' # icEpochBump
  <2>1. ways' = ways /\ ~ b /\ o \notin usedAsProto
    BY <1>4 DEF NoteLayout
  <2>2. \A x \in Objs : shape[x] = x => shape'[x] = x /\ priv'[x] = priv[x]
    BY <1>1, <2>1
  <2>3. \A x \in usedAsProto : shape'[x] = shape[x] /\ proto'[x] = proto[x]
    BY <1>1, <2>1
  <2> QED
    BY <1>2, <2>1, <2>2, <2>3, QuietOrBump
<1> QED
  BY <1>3, <1>4

(* addKeyTr retires every way unless the object leaves a shape of the tree.  *)
LEMMA EditBumps ==
  ASSUME NEW o, NEW k, NEW attrs
  PROVE  addKeyTr(o, k, attrs).bump \/ shape[o] \notin Objs
<1>1. CASE ~ isInTree(shape[o])
  BY <1>1 DEF addKeyTr
<1>2. CASE isInTree(shape[o])
  BY <1>2 DEF isInTree
<1> QED
  BY <1>1, <1>2

LEMMA DefinitionReads ==
  ASSUME CacheInv, ReadInv, op = "get", NEW o \in Objs, NEW k \in Keys,
         \/ \E attrs \in {Default, ReadOnly} : DefineOwn(o, k, attrs)
         \/ DefineAccessor(o, k) \/ Delete(o, k)
         \/ Freeze(o, TRUE) \/ Freeze(o, FALSE)
  PROVE  ReadInv'
<1>1. CASE \E attrs \in {Default, ReadOnly} : DefineOwn(o, k, attrs)
  <2>1. PICK attrs \in {Default, ReadOnly} : DefineOwn(o, k, attrs)
    BY <1>1
  <2>2. attrs \in SUBSET {"W", "C"}
    BY DEF Default, ReadOnly
  <2>3. /\ o \in live /\ defineOwn(o, k, attrs)
        /\ UNCHANGED <<op, proto, usedAsProto, store>>
    BY <2>1 DEF DefineOwn, Spend
  <2> DEFINE r == addKeyTr(o, k, attrs)
  <2>4. tree \subseteq r.tree /\ (r.bump \/ shape[o] \notin Objs)
    BY <2>2, <2>3, EditShape, EditBumps
  <2> HIDE DEF r
  <2>5. PICK P : /\ shape' = [shape EXCEPT ![o] = r.shape] /\ priv' = [priv EXCEPT ![o] = P]
                 /\ tree' = r.tree /\ NoteLayout(o, r.bump)
    BY <2>3 DEF defineOwn, r
  <2> QED
    BY <2>3, <2>4, <2>5, EditReads
<1>2. CASE DefineAccessor(o, k)
  <2> DEFINE r == addKeyTr(o, k, ReadOnly)
  <2>1. /\ o \in live
        /\ UNCHANGED <<op, proto, usedAsProto, store>>
        /\ tree' = r.tree
    BY <1>2 DEF DefineAccessor, Spend
  <2>2. ReadOnly \in SUBSET {"W", "C"}
    BY DEF ReadOnly
  <2>3. tree \subseteq r.tree /\ (r.bump \/ shape[o] \notin Objs)
    BY <2>1, <2>2, EditShape, EditBumps
  <2>4. PICK P : shape' = [shape EXCEPT ![o] = o] /\ priv' = [priv EXCEPT ![o] = P] /\ NoteLayout(o, r.bump)
    BY <1>2 DEF DefineAccessor, Privately
  <2> QED
    BY <2>1, <2>3, <2>4, EditReads
<1>3. CASE Delete(o, k) \/ Freeze(o, TRUE) \/ Freeze(o, FALSE)
  <2>1. /\ o \in live
        /\ UNCHANGED <<op, proto, usedAsProto, store, tree>>
    BY <1>3 DEF Delete, Freeze, Spend
  <2>2. PICK P : shape' = [shape EXCEPT ![o] = o] /\ priv' = [priv EXCEPT ![o] = P] /\ NoteLayout(o, TRUE)
    BY <1>3 DEF Delete, Freeze, Privately
  <2> QED
    BY <2>1, <2>2, EditReads
<1> QED
  BY <1>1, <1>2, <1>3

LEMMA ObjectReads ==
  ASSUME CacheInv, ReadInv, op = "get", NEW o \in Objs, NEW p, NEW dead,
         PreventExtensions(o) \/ SetProto(o, p) \/ New(o, p) \/ Collect(dead) \/ UNCHANGED vars
  PROVE  ReadInv'
<1>1. /\ shape \in [Objs -> tree \cup Objs] /\ proto \in [Objs -> Objs \cup {none}]
      /\ usedAsProto \subseteq live /\ live \subseteq Objs /\ priv = [x \in Objs |-> priv[x]]
  BY CacheParts DEF ReadInv, Flags
<1>2. CASE PreventExtensions(o) \/ UNCHANGED vars
  <2>1. UNCHANGED <<op, tree, shape, priv, proto, usedAsProto, ways, store>>
    BY <1>2 DEF PreventExtensions, vars, objects
  <2> QED
    BY <1>1, <2>1, QuietOrBump
<1>3. CASE SetProto(o, p)
  <2>1. /\ UNCHANGED <<op, tree, shape, priv, usedAsProto, store>>
        /\ proto' = [proto EXCEPT ![o] = p] /\ NoteLayout(o, FALSE)
    BY <1>3 DEF SetProto
  <2>2. CASE ways' = icEpochBump
    BY <1>1, <2>1, <2>2, QuietOrBump
  <2>3. CASE ways' # icEpochBump
    <3>1. ways' = ways /\ o \notin usedAsProto
      BY <2>1, <2>3 DEF NoteLayout
    <3>2. \A x \in usedAsProto : shape'[x] = shape[x] /\ proto'[x] = proto[x]
      BY <1>1, <2>1, <3>1
    <3> QED
      BY <1>1, <2>1, <3>1, <3>2, QuietOrBump
  <2> QED
    BY <2>2, <2>3
<1>4. CASE New(o, p)
  <2>1. /\ UNCHANGED <<op, tree, shape, priv, usedAsProto, ways, store>>
        /\ o \notin live /\ proto' = [proto EXCEPT ![o] = p]
    BY <1>4 DEF New
  <2>2. \A x \in usedAsProto : shape'[x] = shape[x] /\ proto'[x] = proto[x]
    BY <1>1, <2>1
  <2> QED
    BY <1>1, <2>1, <2>2, QuietOrBump
<1>5. CASE Collect(dead)
  <2>1. /\ ways' = icEpochBump /\ op' = op /\ store' = store
        /\ priv' = [x \in Objs |-> IF x \in dead THEN <<>> ELSE priv[x]]
    BY <1>5 DEF Collect
  <2>2. priv' = [x \in Objs |-> priv'[x]]
    BY <2>1
  <2> QED
    BY <2>1, <2>2, QuietOrBump
<1> QED
  BY <1>2, <1>3, <1>4, <1>5

(* GET_FIELD fills its site, from the state a getter may have left.          *)
LEMMA FillReads ==
  ASSUME CacheInv, ReadInv, op = "get", NEW o \in Objs, GetField(o)
  PROVE  ReadInv'
<1>1. o \in live /\ UNCHANGED objects /\ op' = op /\ store' = store /\ icFillGet(o)
  BY DEF GetField
<1>2. Handed(ways, tree) /\ store = NoStore /\ \A i \in 1 .. Len(ways) : ReadWay(ways[i])
  BY CacheParts DEF ReadInv
<1>3. ReadWay(GetWay(o))' /\ record(shape[o], GetWay(o)) /\ usedAsProto \subseteq usedAsProto'
  BY <1>1, FilledWay DEF icFillGet
<1>4. GetWay(o)' = GetWay(o)
  BY <1>1 DEF objects, GetWay, Own, Props, PropsOf, FoundAt, Up
<1>5. ASSUME NEW i \in 1 .. Len(ways') PROVE ReadWay(ways[i])'
  <2>1. ways'[i] = GetWay(o) \/ \E j \in 1 .. Len(ways) : ways'[i] = ways[j]
    BY <1>2, <1>3, <1>5, RecordedWays
  <2>2. CASE ways'[i] = GetWay(o)
    BY <1>3, <1>4, <2>2 DEF ReadWay
  <2>3. CASE \E j \in 1 .. Len(ways) : ways'[i] = ways[j]
    <3>1. PICK w : ways'[i] = w /\ ReadWay(w)
      BY <1>2, <2>3
    <3>2. ReadWay(w)'
      BY <1>1, <1>3, <3>1, QuietKeeps DEF objects
    <3> QED
      BY <3>1, <3>2 DEF ReadWay
  <2> QED
    BY <2>1, <2>2, <2>3
<1> QED
  BY <1>1, <1>2, <1>5 DEF ReadInv, NoStore, objects

LEMMA ReadInit == Init => ReadInv
<1> SUFFICES ASSUME Init PROVE ReadInv
  OBVIOUS
<1>1. priv = [o \in Objs |-> priv[o]]
  BY DEF Init
<1>2. Len(ways) = 0 /\ store = NoStore
  BY DEF Init
<1> QED
  BY <1>1, <1>2 DEF ReadInv

(* A site of the other opcode only has to leave the layouts layouts.         *)
LEMMA PutReads ==
  ASSUME CacheInv, ReadInv, op # "get", [Next]_vars
  PROVE  ReadInv'
<1>1. /\ op' = op
      /\ \/ priv' = priv
         \/ \E o, P : priv' = [priv EXCEPT ![o] = P]
         \/ \E f : priv' = [o \in Objs |-> f[o]]
  <2>1. CASE UNCHANGED vars
    BY <2>1 DEF vars, objects
  <2>2. ASSUME NEW o \in Objs, NEW k \in Keys, NEW attrs, DefineOwn(o, k, attrs)
        PROVE  op' = op /\ \E P : priv' = [priv EXCEPT ![o] = P]
    BY <2>2 DEF DefineOwn, defineOwn
  <2>3. ASSUME NEW o \in Objs, NEW k \in Keys, DefineAccessor(o, k) \/ Delete(o, k) \/ Freeze(o, TRUE) \/ Freeze(o, FALSE)
        PROVE  op' = op /\ \E P : priv' = [priv EXCEPT ![o] = P]
    BY <2>3 DEF DefineAccessor, Delete, Freeze, Privately
  <2>4. ASSUME NEW o \in Objs, PutNew(o)
        PROVE  op' = op /\ \E P : priv' = [priv EXCEPT ![o] = P]
    BY <2>4 DEF PutNew, defineOwn
  <2>5. ASSUME NEW o \in Objs, NEW p,
               \/ PreventExtensions(o) \/ SetProto(o, p) \/ New(o, p) \/ GetField(o)
               \/ CachedStore(o) \/ PutOwn(o) \/ PutSetter(o) \/ FillStore
        PROVE  op' = op /\ priv' = priv
    BY <2>5 DEF PreventExtensions, SetProto, New, GetField, CachedStore, PutOwn, PutSetter, FillStore, objects
  <2>6. ASSUME NEW dead, Collect(dead) PROVE op' = op /\ \E f : priv' = [o \in Objs |-> f[o]]
    <3>1. priv' = [o \in Objs |-> [x \in Objs |-> IF x \in dead THEN <<>> ELSE priv[x]][o]]
      BY <2>6 DEF Collect
    <3> QED
      BY <2>6, <3>1 DEF Collect
  <2>7. CASE FillStore
    BY <2>7 DEF FillStore, objects
  <2>8. Name \in Keys
    BY CacheAssumption
  <2> QED
    BY <2>1, <2>2, <2>3, <2>4, <2>5, <2>6, <2>7, <2>8 DEF Next
<1>2. priv = [o \in Objs |-> priv[o]]
  BY DEF ReadInv
<1>3. priv' = [o \in Objs |-> priv'[o]]
  BY <1>1, <1>2
<1> QED
  BY <1>1, <1>3 DEF ReadInv

LEMMA ReadStep == CacheInv /\ ReadInv /\ [Next]_vars => ReadInv'
<1> SUFFICES ASSUME CacheInv, ReadInv, [Next]_vars PROVE ReadInv'
  OBVIOUS
<1>1. CASE op # "get"
  BY <1>1, PutReads
<1>2. CASE op = "get"
  <2>1. Name \in Keys /\ store = NoStore
    BY <1>2, CacheAssumption DEF ReadInv
  <2>2. ASSUME NEW o \in Objs,
               \/ \E k \in Keys : \/ \E attrs \in {Default, ReadOnly} : DefineOwn(o, k, attrs)
                                  \/ DefineAccessor(o, k) \/ Delete(o, k)
               \/ Freeze(o, TRUE) \/ Freeze(o, FALSE)
        PROVE  ReadInv'
    BY <1>2, <2>1, <2>2, DefinitionReads
  <2>3. ASSUME NEW o \in Objs,
               PreventExtensions(o) \/ \E p \in Objs \cup {none} : SetProto(o, p) \/ New(o, p)
        PROVE  ReadInv'
    BY <1>2, <2>3, ObjectReads
  <2>4. ASSUME NEW o \in Objs, GetField(o) PROVE ReadInv'
    BY <1>2, <2>4, FillReads
  <2>5. ASSUME NEW dead \in SUBSET Objs, Collect(dead) PROVE ReadInv'
    <3>1. PICK x : x \in dead
      BY <2>5 DEF Collect
    <3> QED
      BY <1>2, <2>5, <3>1, ObjectReads
  <2>6. CASE UNCHANGED vars
    <3>1. UNCHANGED <<tree, shape, priv, proto, live, usedAsProto, op, ways, store>>
      BY <2>6 DEF vars, objects
    <3>2. \A s : PropsOf(s)' = PropsOf(s)
      BY <3>1 DEF PropsOf
    <3>3. \A o : Props(o)' = Props(o) /\ Own(o, Name)' = Own(o, Name)
      BY <3>1, <3>2 DEF Props, Own
    <3>4. \A w, n, c : Trail(w, n, c)' <=> Trail(w, n, c)
      BY <3>1, <3>3 DEF Trail
    <3>5. \A w : ReadWay(w)' <=> ReadWay(w)
      BY <3>1, <3>2, <3>4 DEF ReadWay
    <3> QED
      BY <1>2, <2>1, <3>1, <3>5 DEF ReadInv
  <2>7. ~ FillStore /\ \A o \in Objs : ~ CachedStore(o) /\ ~ PutOwn(o) /\ ~ PutNew(o) /\ ~ PutSetter(o)
    BY <1>2, <2>1 DEF FillStore, CachedStore, PutOwn, PutNew, PutSetter, MissedStore
  <2> QED
    BY <2>2, <2>3, <2>4, <2>5, <2>6, <2>7 DEF Next
<1> QED
  BY <1>1, <1>2

(* A read the cache answers is the read [[Get]] would make: the same slot of *)
(* the same object, and a data slot, whatever was defined, deleted, frozen,  *)
(* re-parented or collected since the way was filled (hit and read of        *)
(* propcache.go against getField of elements.go).                            *)
THEOREM ReadsAreRight == Spec => []CachedReadIsLookup
<1>1. CacheInv /\ ReadInv /\ [Next]_vars => (CacheInv /\ ReadInv)'
  BY CacheStep, ReadStep
<1>2. CacheInv /\ ReadInv => CachedReadIsLookup
  BY ReadsAreLookups
<1> QED
  BY CacheInit, ReadInit, <1>1, <1>2, PTL DEF Spec

-----------------------------------------------------------------------------
(* Layouts of the tree *)

(* The properties of a shape of the tree: none is an accessor. *)
Data == [key : Keys, attrs : SUBSET {"W", "C"}, acc : {FALSE}]

(* Every slot of ps keeps its key in qs. *)
Keep(ps, qs) == \A j \in DOMAIN ps : j \in DOMAIN qs /\ qs[j].key = ps[j].key

LEMMA AddKeyKeeps ==
  ASSUME NEW ps \in Seq(Data), NEW k \in Keys, NEW attrs \in SUBSET {"W", "C"}
  PROVE  addKey(ps, k, attrs) \in Seq(Data) /\ Keep(ps, addKey(ps, k, attrs))
<1> DEFINE i == SlotOf(ps, k)
<1>1. DOMAIN ps = 1 .. Len(ps) /\ Len(ps) \in Nat
  OBVIOUS
<1>2. i = 0 \/ i \in 1 .. Len(ps)
  BY <1>1 DEF SlotOf
<1>3. CASE i = 0
  <2> DEFINE e == [key |-> k, attrs |-> attrs, acc |-> FALSE]
  <2>1. e \in Data
    BY DEF Data
  <2>2. addKey(ps, k, attrs) = Append(ps, e)
    BY <1>3 DEF addKey
  <2> HIDE DEF e
  <2> QED
    BY <1>1, <2>1, <2>2 DEF Keep
<1>4. CASE i \in 1 .. Len(ps)
  <2> DEFINE e == [ps[i] EXCEPT !.attrs = attrs]
  <2>1. e \in Data /\ e.key = ps[i].key
    <3>1. ps[i] \in Data
      BY <1>1, <1>4
    <3> HIDE DEF i
    <3> QED
      BY <3>1 DEF Data
  <2>2. addKey(ps, k, attrs) = [ps EXCEPT ![i] = e]
    <3>1. i # 0
      BY <1>1, <1>4
    <3> QED
      BY <3>1, Zenon DEF addKey
  <2> HIDE DEF e, i
  <2>3. addKey(ps, k, attrs) \in Seq(Data)
    BY <1>4, <2>1, <2>2
  <2>4. Keep(ps, addKey(ps, k, attrs))
    BY <1>1, <1>4, <2>1, <2>2 DEF Keep
  <2> QED
    BY <2>3, <2>4
<1> QED
  BY <1>2, <1>3, <1>4

LEMMA LayoutTypes ==
  ASSUME NEW p \in Paths
  PROVE  LayoutOf(p) \in Seq(Data)
<1> DEFINE n == Len(p)
<1>1. n \in Nat
  BY LayoutRecursion
<1>2. PICK g : Adds(g, p, n) /\ LayoutOf(p) = g[n]
  BY LayoutRecursion
<1>3. \A i \in 1 .. n : p[i].key \in Keys /\ p[i].attrs \in SUBSET {"W", "C"}
  <2> DEFINE K == [key : Keys, attrs : SUBSET {"W", "C"}]
  <2>1. \A i \in 1 .. n : p[i] \in K
    <3>1. p \in Seq(K)
      BY DEF Paths
    <3> HIDE DEF K
    <3> QED
      BY <3>1
  <2> QED
    BY <2>1
<1> HIDE DEF n
<1>4. \A i \in 0 .. n : g[i] = IF i = 0 THEN <<>> ELSE addKey(g[i - 1], p[i].key, p[i].attrs)
  BY <1>2 DEF Adds
<1> DEFINE T == {i \in 0 .. n : g[i] \notin Seq(Data)}
<1>5. T = {}
  <2> SUFFICES ASSUME T # {} PROVE FALSE
    OBVIOUS
  <2>1. T \subseteq Nat
    BY <1>1
  <2>2. PICK i \in T : \A j \in T : i <= j
    BY <2>1, LeastElement
  <2>3. i # 0
    <3>1. 0 \in 0 .. n /\ <<>> \in Seq(Data)
      BY <1>1
    <3> QED
      BY <1>4, <2>2, <3>1
  <2>4. i \in 1 .. n /\ i \in 0 .. n /\ i - 1 \in 0 .. n /\ i - 1 \notin T
    BY <1>1, <2>2, <2>3
  <2>5. g[i - 1] \in Seq(Data)
    BY <2>4
  <2>6. addKey(g[i - 1], p[i].key, p[i].attrs) \in Seq(Data)
    BY <1>3, <2>4, <2>5, AddKeyKeeps
  <2> QED
    BY <1>4, <2>2, <2>3, <2>4, <2>6
<1>6. n \in 0 .. n
  BY <1>1
<1> QED
  BY <1>2, <1>5, <1>6

(* A transition adds its key to the layout it leaves. *)
LEMMA LayoutOfNext ==
  ASSUME NEW p \in Paths, NEW k \in Keys, NEW attrs \in SUBSET {"W", "C"}
  PROVE  LET q == Append(p, [key |-> k, attrs |-> attrs])
         IN  LayoutOf(q) = addKey(LayoutOf(p), k, attrs)
<1> DEFINE n == Len(p)
           q == Append(p, [key |-> k, attrs |-> attrs])
<1>1. q \in Paths
  BY NextPath
<1>2. n \in Nat /\ Len(q) = n + 1
  BY DEF Paths
<1>3. q[n + 1].key = k /\ q[n + 1].attrs = attrs /\ \A i \in 1 .. n : q[i] = p[i]
  BY <1>2 DEF Paths
<1>4. PICK g : Adds(g, p, n) /\ LayoutOf(p) = g[n]
  BY LayoutRecursion
<1>5. PICK h : Adds(h, q, n + 1) /\ LayoutOf(q) = h[n + 1]
  BY <1>1, <1>2, LayoutRecursion
<1> HIDE DEF n, q
<1>6. \A i \in 0 .. n : g[i] = IF i = 0 THEN <<>> ELSE addKey(g[i - 1], p[i].key, p[i].attrs)
  BY <1>4 DEF Adds
<1>7. \A i \in 0 .. n + 1 : h[i] = IF i = 0 THEN <<>> ELSE addKey(h[i - 1], q[i].key, q[i].attrs)
  BY <1>5 DEF Adds
<1> DEFINE T == {i \in 0 .. n : g[i] # h[i]}
<1>8. T = {}
  <2> SUFFICES ASSUME T # {} PROVE FALSE
    OBVIOUS
  <2>1. T \subseteq Nat
    BY <1>2
  <2>2. PICK i \in T : \A j \in T : i <= j
    BY <2>1, LeastElement
  <2>3. i # 0
    <3>1. 0 \in 0 .. n /\ 0 \in 0 .. n + 1
      BY <1>2
    <3> QED
      BY <1>6, <1>7, <2>2, <3>1
  <2>4. i \in 1 .. n /\ i \in 0 .. n /\ i \in 0 .. n + 1 /\ i - 1 \in 0 .. n /\ i - 1 \notin T
    BY <1>2, <2>2, <2>3
  <2>5. g[i - 1] = h[i - 1] /\ q[i] = p[i]
    BY <1>3, <2>4
  <2> QED
    BY <1>6, <1>7, <2>2, <2>3, <2>4, <2>5
<1>9. n \in 0 .. n /\ n + 1 \in 0 .. n + 1 /\ n + 1 # 0 /\ (n + 1) - 1 = n
  BY <1>2
<1>10. h[n + 1] = addKey(h[n], k, attrs) /\ h[n] = g[n]
  BY <1>3, <1>7, <1>8, <1>9
<1> QED
  BY <1>4, <1>5, <1>10 DEF q

-----------------------------------------------------------------------------
(* Cached stores *)

(* What a store that created the property has found out: n steps up the      *)
(* chain it looked at, every object of it flagged, up to a writable data     *)
(* property or past the end.                                                 *)
Along(w, n, c) ==
  /\ c[1] = w.proto
  /\ \A m \in 1 .. n - 1 : /\ c[m + 1] = IF c[m] = none THEN none ELSE proto[c[m]]
                           /\ c[m] # none => Own(c[m], Name) = 0
  /\ IF c[n] = none \/ Own(c[n], Name) = 0 THEN n = Cardinality(Objs)
     ELSE /\ ~ Props(c[n])[Own(c[n], Name)].acc
          /\ "W" \in Props(c[n])[Own(c[n], Name)].attrs

(* A way that can be hit is right about every object of its layout. *)
OwnWay(w) ==
  /\ w.shape \in tree \cup Objs /\ (w.shape \in Objs => shape[w.shape] = w.shape)
  /\ SlotOf(PropsOf(w.shape), Name) = w.slot
  /\ ~ PropsOf(w.shape)[w.slot].acc /\ "W" \in PropsOf(w.shape)[w.slot].attrs

NewWay(w) ==
  /\ w.shape \in tree /\ w.to \in tree
  /\ SlotOf(LayoutOf(w.shape), Name) = 0 /\ SlotOf(LayoutOf(w.to), Name) = w.slot
  /\ Keep(LayoutOf(w.shape), LayoutOf(w.to))
  /\ ~ w.code => LayoutOf(w.to) = addKey(LayoutOf(w.shape), Name, Default)
  /\ \E n \in Depths : \E c \in [1 .. n -> usedAsProto \cup {none}] : Along(w, n, c)

StoreWay(w) ==
  w.slot # 0 => w.holder = none /\ (w.to = none => OwnWay(w)) /\ (w.to # none => NewWay(w))

(* A store not back yet: the layout it found is still the object's private   *)
(* one, or had no such property and has only been added to, by the stored    *)
(* property alone where no setter runs.                                      *)
Pending ==
  store # NoStore =>
    LET o   == store.obj
        pre == store.pre
    IN  /\ o \in live /\ pre \in tree \cup Objs
        /\ pre \in Objs => shape[o] = o /\ pre = o
        /\ pre \notin Objs => /\ SlotOf(LayoutOf(pre), Name) = 0
                              /\ shape[o] \notin Objs => Keep(LayoutOf(pre), LayoutOf(shape[o]))
                              /\ ~ store.code /\ shape[o] \notin Objs
                                   => LayoutOf(shape[o]) = addKey(LayoutOf(pre), Name, Default)

StoreInv == op = "put" => Pending /\ \A i \in 1 .. Len(ways) : StoreWay(ways[i])

LEMMA AlongIsClean ==
  ASSUME CacheInv, NEW o \in live, NEW w, NEW n \in Depths, NEW c, Along(w, n, c), proto[o] = w.proto
  PROVE  Clean(o)
<1>1. n \in Nat /\ n >= 1 /\ n \in 1 .. n /\ Cardinality(Objs) \in Nat /\ Depths = 1 .. Cardinality(Objs)
  BY DepthFacts
<1>2. \A m \in 1 .. n - 1 : m \in 1 .. n
  BY <1>1
<1>3. \A m \in 1 .. n : Up(o, m) = c[m]
  <2>1. \A m \in 1 .. n - 1 : c[m + 1] = IF c[m] = none THEN none ELSE proto[c[m]]
    BY DEF Along
  <2>2. c[1] = proto[o]
    BY DEF Along
  <2> QED
    BY <2>1, <2>2, WalkIsUp
<1>4. \A m \in 1 .. n - 1 : Up(o, m) # none => Own(Up(o, m), Name) = 0
  BY <1>2, <1>3 DEF Along
<1> DEFINE f == FoundAt(o)
<1> SUFFICES ASSUME f # 0
             PROVE  LET p == Props(Up(o, f))[Own(Up(o, f), Name)] IN ~ p.acc /\ "W" \in p.attrs
  BY DEF Clean
<1>5. f \in Depths /\ Up(o, f) # none /\ Own(Up(o, f), Name) # 0
  BY FoundFirst
<1>6. \A m \in 1 .. f - 1 : Own(Up(o, m), Name) = 0
  BY FoundFirst
<1> HIDE DEF f
<1>7. f \notin 1 .. n - 1
  BY <1>4, <1>5
<1>8. f >= n /\ f \in Nat
  BY <1>1, <1>5, <1>7
<1>9. CASE c[n] = none \/ Own(c[n], Name) = 0
  <2>1. n = Cardinality(Objs)
    BY <1>9 DEF Along
  <2>2. f = n
    BY <1>1, <1>5, <1>8, <2>1
  <2> QED
    BY <1>1, <1>3, <1>5, <1>9, <2>2
<1>10. CASE ~ (c[n] = none \/ Own(c[n], Name) = 0)
  <2>1. ~ (f > n)
    <3>1. f > n => n \in 1 .. f - 1
      BY <1>1, <1>8
    <3> QED
      BY <1>1, <1>3, <1>6, <1>10, <3>1
  <2>2. f = n
    BY <1>1, <1>8, <2>1
  <2> QED
    BY <1>1, <1>3, <1>10, <2>2 DEF Along
<1> QED
  BY <1>9, <1>10

LEMMA StoresAreSets ==
  ASSUME CacheInv, StoreInv
  PROVE  CachedStoreIsSet
<1> SUFFICES ASSUME op = "put", NEW o \in live, NEW i \in DOMAIN ways, hit(ways[i], o)
             PROVE  LET w   == ways[i]
                        own == Own(o, Name)
                    IN  IF w.to = none
                        THEN own = w.slot /\ ~ Props(o)[own].acc /\ "W" \in Props(o)[own].attrs
                        ELSE /\ own = 0 /\ Clean(o)
                             /\ SlotOf(PropsOf(w.to), Name) = w.slot
                             /\ \A j \in DOMAIN Props(o) : PropsOf(w.to)[j].key = Props(o)[j].key
                             /\ ~ w.code => PropsOf(w.to) = addKey(Props(o), Name, Default)
  BY DEF CachedStoreIsSet
<1> DEFINE w == ways[i]
<1>1. DOMAIN ways = 1 .. Len(ways) /\ Layouts
  BY CacheParts DEF Handed
<1>2. StoreWay(w) /\ w.slot # 0 /\ w.shape = shape[o] /\ (w.to # none => w.proto = proto[o])
  BY <1>1 DEF StoreInv, hit
<1> HIDE DEF w
<1>3. Own(o, Name) = SlotOf(PropsOf(w.shape), Name) /\ Props(o) = PropsOf(w.shape)
  BY <1>2 DEF Own, Props
<1>4. CASE w.to = none
  <2>1. Own(o, Name) = w.slot /\ ~ Props(o)[w.slot].acc /\ "W" \in Props(o)[w.slot].attrs
    BY <1>2, <1>3, <1>4 DEF StoreWay, OwnWay
  <2> QED
    BY <1>4, <2>1 DEF w
<1>5. CASE w.to # none
  <2>1. NewWay(w)
    BY <1>2, <1>5 DEF StoreWay
  <2>2. PropsOf(w.shape) = LayoutOf(w.shape) /\ PropsOf(w.to) = LayoutOf(w.to)
    BY <1>1, <2>1, RootIsAPath DEF NewWay, PropsOf, Layouts
  <2>3. Clean(o)
    <3>1. PICK n \in Depths : \E c \in [1 .. n -> usedAsProto \cup {none}] : Along(w, n, c)
      BY <2>1 DEF NewWay
    <3> QED
      BY <1>2, <1>5, <3>1, AlongIsClean
  <2>4. /\ Own(o, Name) = 0 /\ SlotOf(PropsOf(w.to), Name) = w.slot
        /\ \A j \in DOMAIN Props(o) : PropsOf(w.to)[j].key = Props(o)[j].key
        /\ ~ w.code => PropsOf(w.to) = addKey(Props(o), Name, Default)
    BY <1>3, <2>1, <2>2 DEF NewWay, Keep
  <2> QED
    BY <1>5, <2>3, <2>4 DEF w
<1> QED
  BY <1>4, <1>5

(* A quiet step. *)
LEMMA QuietStores ==
  ASSUME CacheInv, tree \subseteq tree', usedAsProto \subseteq usedAsProto',
         \A x \in Objs : shape[x] = x => shape'[x] = x /\ priv'[x] = priv[x],
         \A x \in usedAsProto : shape'[x] = shape[x] /\ proto'[x] = proto[x],
         NEW w, StoreWay(w)
  PROVE  StoreWay(w)'
<1>1. Layouts /\ usedAsProto \subseteq Objs /\ none \notin Objs
  BY CacheParts, CacheAssumption DEF Flags
<1>2. \A x \in usedAsProto : Props(x)' = Props(x) /\ Own(x, Name)' = Own(x, Name)
  BY <1>1, FlaggedStay
<1>3. CASE w.slot = 0
  BY <1>3 DEF StoreWay
<1>4. CASE w.slot # 0 /\ w.to = none
  <2>1. w.holder = none /\ OwnWay(w)
    BY <1>4 DEF StoreWay
  <2>2. OwnWay(w)'
    BY <1>1, <2>1, LayoutOnly DEF OwnWay
  <2> QED
    BY <1>4, <2>1, <2>2 DEF StoreWay
<1>5. CASE w.slot # 0 /\ w.to # none
  <2>1. w.holder = none /\ NewWay(w)
    BY <1>5 DEF StoreWay
  <2>2. PICK n \in Depths : \E c \in [1 .. n -> usedAsProto \cup {none}] : Along(w, n, c)
    BY <2>1 DEF NewWay
  <2>3. PICK c \in [1 .. n -> usedAsProto \cup {none}] : Along(w, n, c)
    BY <2>2
  <2>4. c \in [1 .. n -> usedAsProto' \cup {none}]
    BY <2>3
  <2>5. \A m \in 1 .. n : c[m] # none => c[m] \in usedAsProto
    BY <2>3
  <2>6. n \in 1 .. n /\ \A m \in 1 .. n - 1 : m \in 1 .. n
    BY DepthFacts
  <2>7. \A m \in 1 .. n - 1 : /\ c[m + 1] = IF c[m] = none THEN none ELSE proto'[c[m]]
                              /\ c[m] # none => Own(c[m], Name)' = 0
    BY <1>2, <2>3, <2>5, <2>6 DEF Along
  <2>8. IF c[n] = none \/ Own(c[n], Name)' = 0 THEN n = Cardinality(Objs)
        ELSE /\ ~ Props(c[n])'[Own(c[n], Name)'].acc
             /\ "W" \in Props(c[n])'[Own(c[n], Name)'].attrs
    <3>1. CASE c[n] = none
      BY <2>3, <3>1 DEF Along
    <3>2. CASE c[n] # none
      <4>1. Props(c[n])' = Props(c[n]) /\ Own(c[n], Name)' = Own(c[n], Name)
        BY <1>2, <2>5, <2>6, <3>2
      <4> QED
        BY <2>3, <3>2, <4>1 DEF Along
    <3> QED
      BY <3>1, <3>2
  <2>9. Along(w, n, c)'
    <3>1. c[1] = w.proto
      BY <2>3 DEF Along
    <3> QED
      BY <2>7, <2>8, <3>1 DEF Along
  <2>10. NewWay(w)'
    BY <2>1, <2>4, <2>9 DEF NewWay
  <2> QED
    BY <1>5, <2>1, <2>10 DEF StoreWay
<1> QED
  BY <1>3, <1>4, <1>5

LEMMA QuietOrBumpStores ==
  ASSUME CacheInv, StoreInv, op = "put", op' = op, Pending',
         \/ ways' = icEpochBump
         \/ /\ ways' = ways
            /\ tree \subseteq tree' /\ usedAsProto \subseteq usedAsProto'
            /\ \A x \in Objs : shape[x] = x => shape'[x] = x /\ priv'[x] = priv[x]
            /\ \A x \in usedAsProto : shape'[x] = shape[x] /\ proto'[x] = proto[x]
  PROVE  StoreInv'
<1>1. CASE ways' = icEpochBump
  BY <1>1, CacheParts, BumpEmpties DEF StoreInv, StoreWay
<1>2. CASE ways' # icEpochBump
  <2>1. ASSUME NEW i \in 1 .. Len(ways') PROVE StoreWay(ways[i])'
    <3>1. PICK w : w = ways[i]
      OBVIOUS
    <3>2. ways'[i] = w /\ StoreWay(w)
      BY <1>2, <2>1, <3>1 DEF StoreInv
    <3>3. StoreWay(w)'
      BY <1>2, <3>2, QuietStores
    <3> QED
      BY <3>2, <3>3 DEF StoreWay, OwnWay, NewWay, Along
  <2> QED
    BY <2>1 DEF StoreInv
<1> QED
  BY <1>1, <1>2

(* A layout changes for a private one, or gains what its transition adds. *)
Grows(o, s, t) ==
  s = o \/ (s \in t /\ shape[o] \notin Objs /\ Keep(LayoutOf(shape[o]), LayoutOf(s)))

LEMMA EditGrows ==
  ASSUME CacheInv, NEW o \in live, NEW k \in Keys, NEW attrs \in SUBSET {"W", "C"}
  PROVE  LET r == addKeyTr(o, k, attrs) IN Grows(o, r.shape, r.tree)
<1> DEFINE s == shape[o]
           next == Append(s, [key |-> k, attrs |-> attrs])
           r == addKeyTr(o, k, attrs)
<1>1. Layouts /\ s \in tree \cup Objs /\ (s \in Objs => s = o) /\ tree \subseteq Paths
  BY CacheParts DEF Layouts
<1>2. CASE ~ isInTree(s)
  <2>1. s # Root
    BY <1>2, CacheParts, RootIsShared
  <2>2. r.shape = s
    BY <1>2 DEF addKeyTr
  <2> QED
    BY <1>1, <1>2, <2>1, <2>2 DEF isInTree, Grows
<1>3. CASE isInTree(s) /\ next \in tree
  <2>1. r.shape = next /\ r.tree = tree
    BY <1>3 DEF addKeyTr
  <2>2. s \notin Objs /\ s \in Paths
    BY <1>1, <1>3 DEF isInTree
  <2>3. Keep(LayoutOf(s), LayoutOf(next))
    BY <2>2, LayoutOfNext, LayoutTypes, AddKeyKeeps
  <2> QED
    BY <1>3, <2>1, <2>2, <2>3 DEF Grows
<1>4. CASE isInTree(s) /\ next \notin tree
  BY <1>4 DEF addKeyTr, Grows
<1> QED
  BY <1>2, <1>3, <1>4

(* What a transition of the tree adds is the key and nothing else. *)
LEMMA EditAdds ==
  ASSUME CacheInv, NEW o \in live, NEW k \in Keys, NEW attrs \in SUBSET {"W", "C"},
         shape[o] \notin Objs, addKeyTr(o, k, attrs).shape \notin Objs
  PROVE  LayoutOf(addKeyTr(o, k, attrs).shape) = addKey(LayoutOf(shape[o]), k, attrs)
<1> DEFINE s == shape[o]
           next == Append(s, [key |-> k, attrs |-> attrs])
           r == addKeyTr(o, k, attrs)
<1>1. s \in tree /\ s \in Paths /\ o \in Objs
  BY CacheParts DEF Layouts
<1>2. isInTree(s)
  BY <1>1, CacheParts, RootIsShared DEF isInTree
<1>3. next \in tree /\ r.shape = next
  BY <1>1, <1>2 DEF addKeyTr
<1> QED
  BY <1>1, <1>3, LayoutOfNext

LEMMA KeepTwice ==
  ASSUME NEW ps, NEW qs, NEW rs, Keep(ps, qs), Keep(qs, rs)
  PROVE  Keep(ps, rs)
BY DEF Keep

(* A store that is out sees layouts grow only, and only while code runs. *)
LEMMA PendingStays ==
  ASSUME CacheInv, Pending, Running, NEW o \in live, NEW S, Grows(o, S, tree'), tree \subseteq tree', tree' \subseteq Paths,
         shape' = [shape EXCEPT ![o] = S], live' = live, store' = store
  PROVE  Pending'
<1> SUFFICES ASSUME store # NoStore PROVE Pending'
  BY DEF Pending, NoStore
<1> DEFINE x == store.obj
           pre == store.pre
<1>1. /\ x \in live /\ pre \in tree \cup Objs
      /\ pre \in Objs => shape[x] = x /\ pre = x
      /\ pre \notin Objs => /\ SlotOf(LayoutOf(pre), Name) = 0
                            /\ shape[x] \notin Objs => Keep(LayoutOf(pre), LayoutOf(shape[x]))
      /\ store.code
  BY DEF Pending, Running
<1>2. o \in Objs /\ x \in Objs /\ \A y \in Objs : shape'[y] = IF y = o THEN S ELSE shape[y]
  BY <1>1, CacheParts
<1>3. S \in Objs => S = o
  BY RootIsAPath DEF Grows
<1> HIDE DEF x, pre
<1>4. pre \in Objs => shape'[x] = x
  BY <1>1, <1>2 DEF Grows
<1>5. pre \notin Objs /\ shape'[x] \notin Objs => Keep(LayoutOf(pre), LayoutOf(shape'[x]))
  <2> SUFFICES ASSUME pre \notin Objs, shape'[x] \notin Objs PROVE Keep(LayoutOf(pre), LayoutOf(shape'[x]))
    OBVIOUS
  <2>1. CASE x # o
    BY <1>1, <1>2, <2>1
  <2>2. CASE x = o
    <3>1. shape'[x] = S /\ S # o
      BY <1>2, <2>2
    <3>2. Keep(LayoutOf(pre), LayoutOf(shape[x])) /\ Keep(LayoutOf(shape[x]), LayoutOf(S))
      BY <1>1, <2>2, <3>1 DEF Grows
    <3> QED
      BY <3>1, <3>2, KeepTwice
  <2> QED
    BY <2>1, <2>2
<1>6. x' = x /\ pre' = pre /\ store'.code
  BY <1>1 DEF x, pre
<1> QED
  BY <1>1, <1>4, <1>5, <1>6 DEF Pending, x, pre

(* One object's layout, edited or moved. *)
LEMMA EditStores ==
  ASSUME CacheInv, ReadInv, StoreInv, op = "put", op' = op, Pending', NEW o \in live, NEW S, NEW b,
         shape' = [shape EXCEPT ![o] = S], priv' = priv \/ \E P : priv' = [priv EXCEPT ![o] = P],
         NoteLayout(o, b), b \/ shape[o] \notin Objs,
         tree \subseteq tree', usedAsProto' = usedAsProto, proto' = proto
  PROVE  StoreInv'
<1>1. /\ o \in Objs /\ shape \in [Objs -> tree \cup Objs] /\ usedAsProto \subseteq Objs
      /\ priv = [x \in Objs |-> priv[x]]
  BY CacheParts DEF ReadInv, Flags
<1>2. CASE ways' = icEpochBump
  BY <1>2, QuietOrBumpStores
<1>3. CASE ways' # icEpochBump
  <2>1. ways' = ways /\ ~ b /\ o \notin usedAsProto
    BY <1>3 DEF NoteLayout
  <2>2. \A x \in Objs : shape[x] = x => shape'[x] = x /\ priv'[x] = priv[x]
    BY <1>1, <2>1
  <2>3. \A x \in usedAsProto : shape'[x] = shape[x] /\ proto'[x] = proto[x]
    BY <1>1, <2>1
  <2> QED
    BY <2>1, <2>2, <2>3, QuietOrBumpStores
<1> QED
  BY <1>2, <1>3

(* What a store into an existing slot records. *)
LEMMA FilledOwn ==
  ASSUME CacheInv, StoreInv, op = "put", NEW o \in live, UNCHANGED objects, op' = op, Pending', icFillPut(o)
  PROVE  StoreInv'
<1>1. /\ Layouts /\ Handed(ways, tree) /\ shape[o] \in tree \cup Objs
      /\ (shape[o] \in Objs => shape[shape[o]] = shape[o])
  BY CacheParts DEF Layouts
<1>2. tree' = tree /\ shape' = shape /\ priv' = priv /\ proto' = proto /\ usedAsProto' = usedAsProto
  BY DEF objects, icFillPut
<1>3. CASE known(o)
  BY <1>2, <1>3, QuietOrBumpStores DEF icFillPut
<1>4. CASE ~ known(o)
  <2> DEFINE own == Own(o, Name)
             ok == own # 0 /\ ~ Props(o)[own].acc /\ "W" \in Props(o)[own].attrs
             w == [Stale EXCEPT !.shape = shape[o], !.slot = IF ok THEN own ELSE 0]
  <2>1. record(shape[o], w)
    BY <1>4 DEF icFillPut
  <2>2. w.shape = shape[o] /\ w.to = none /\ w.holder = none /\ w.slot = IF ok THEN own ELSE 0
    BY DEF Stale
  <2>3. PICK v : v = w
    OBVIOUS
  <2>4. own = SlotOf(PropsOf(shape[o]), Name) /\ Props(o) = PropsOf(shape[o])
    BY DEF Own, Props
  <2>5. StoreWay(v)
    BY <1>1, <2>2, <2>3, <2>4 DEF StoreWay, OwnWay
  <2> HIDE DEF w
  <2>6. record(shape[o], v)
    BY <2>1, <2>3
  <2>7. ASSUME NEW i \in 1 .. Len(ways') PROVE StoreWay(ways[i])'
    <3>1. PICK u : ways'[i] = u /\ StoreWay(u)
      BY <1>1, <2>5, <2>6, <2>7, RecordedWays DEF StoreInv
    <3>2. StoreWay(u)'
      BY <1>2, <3>1, QuietStores
    <3> QED
      BY <3>1, <3>2 DEF StoreWay, OwnWay, NewWay, Along
  <2> QED
    BY <2>7 DEF StoreInv
<1> QED
  BY <1>3, <1>4

(* What a store that created the property records. *)
LEMMA FilledNew ==
  ASSUME CacheInv, StoreInv, op = "put", store # NoStore, store' = NoStore, UNCHANGED objects, op' = op,
         shape[store.obj] # store.pre, icFillPutTransition(store.obj, store.pre)
  PROVE  StoreInv'
<1> DEFINE o == store.obj
           pre == store.pre
           own == Own(o, Name)
           w == [Stale EXCEPT !.shape = pre, !.slot = own, !.to = shape[o], !.proto = proto[o],
                     !.code = store.code]
<1>1. /\ Layouts /\ Handed(ways, tree) /\ o \in live /\ o \in Objs /\ tree \subseteq Paths /\ none \notin Objs
      /\ shape[o] \in tree \cup Objs
  BY CacheParts, CacheAssumption DEF Layouts, StoreInv, Pending
<1>2. tree' = tree /\ shape' = shape /\ priv' = priv /\ proto' = proto
  BY DEF objects
<1>3. usedAsProto \subseteq usedAsProto'
  BY DEF icFillPutTransition
<1>4. Pending'
  BY DEF Pending
<1>5. CASE ways' = ways
  BY <1>2, <1>3, <1>4, <1>5, QuietOrBumpStores
<1>6. CASE ways' # ways
  <2>1. AddedDefault(o) /\ Shareable(o) /\ Clean(o) /\ record(pre, w) /\ usedAsProto' = usedAsProto \cup Walked(o)
    BY <1>6 DEF icFillPutTransition
  <2>2. w.shape = pre /\ w.to = shape[o] /\ w.holder = none /\ w.slot = own /\ w.proto = proto[o]
       /\ w.code = store.code
    BY DEF Stale
  <2>3. shape[o] \in tree /\ shape[o] \notin Objs /\ own = SlotOf(LayoutOf(shape[o]), Name)
    BY <1>1, <2>1 DEF Shareable, isInTree, Own, Props, PropsOf
  <2>4. pre \in tree /\ pre \notin Objs /\ SlotOf(LayoutOf(pre), Name) = 0 /\ Keep(LayoutOf(pre), LayoutOf(shape[o]))
       /\ (~ store.code => LayoutOf(shape[o]) = addKey(LayoutOf(pre), Name, Default))
    BY <1>1, <2>3 DEF StoreInv, Pending
  <2> DEFINE f == FoundAt(o)
             N == IF f # 0 THEN f ELSE Cardinality(Objs)
             C == [m \in 1 .. N |-> Up(o, m)]
  <2>5. PICK n : n = N
    OBVIOUS
  <2>6. PICK c : c = C
    OBVIOUS
  <2>7. n \in Depths
    <3>1. Cardinality(Objs) \in Depths
      <4>1. Cardinality(Objs) # 0 /\ Cardinality(Objs) \in Nat
        BY <1>1, DepthFacts, CacheAssumption, FS_EmptySet
      <4> QED
        BY <4>1 DEF Depths
    <3>2. f # 0 => f \in Depths
      BY FoundFirst
    <3> QED
      BY <2>5, <3>1, <3>2
  <2>8. \A m \in 1 .. n : m \in Depths /\ c[m] = Up(o, m)
    BY <2>5, <2>6, <2>7, DepthFacts
  <2>9. \A m \in 1 .. n : Up(o, m) \in usedAsProto' \cup {none}
    BY <2>1, <2>5, <2>8 DEF Walked, Depths
  <2>10. c \in [1 .. n -> usedAsProto' \cup {none}]
    BY <2>5, <2>6, <2>9
  <2>11. \A m \in Depths : (f = 0 \/ m \in 1 .. f - 1) => (Up(o, m) # none => Own(Up(o, m), Name) = 0)
    <3>1. ASSUME NEW m \in Depths, f = 0, Up(o, m) # none PROVE Own(Up(o, m), Name) = 0
      <4> DEFINE hits == {k \in Depths : Up(o, k) # none /\ Own(Up(o, k), Name) # 0}
      <4>1. CASE hits = {}
        BY <3>1, <4>1
      <4>2. CASE hits # {}
        <5>1. \E k \in hits : \A j \in hits : k <= j
          <6>1. hits \subseteq Nat
            BY DepthFacts
          <6> HIDE DEF hits
          <6> QED
            BY <4>2, <6>1, LeastElement
        <5>2. f = CHOOSE k \in hits : \A j \in hits : k <= j
          BY <4>2 DEF FoundAt
        <5>3. f \in Depths
          BY <5>1, <5>2
        <5> QED
          BY <3>1, <5>3, DepthFacts
      <4> QED
        BY <4>1, <4>2
    <3>2. ASSUME NEW m \in 1 .. f - 1, f # 0 PROVE Own(Up(o, m), Name) = 0
      BY <3>2, FoundFirst
    <3> QED
      BY <3>1, <3>2
  <2>12. /\ n \in Nat /\ n \in 1 .. n /\ 1 \in 1 .. n
         /\ \A m \in 1 .. n - 1 : m \in 1 .. n /\ m + 1 \in 1 .. n /\ (m + 1) - 1 = m
    BY <2>7, DepthFacts
  <2>13. \A m \in 1 .. n - 1 : /\ c[m + 1] = IF c[m] = none THEN none ELSE proto[c[m]]
                               /\ c[m] # none => Own(c[m], Name) = 0
    <3> TAKE m \in 1 .. n - 1
    <3>1. m \in 1 .. n /\ m + 1 \in 1 .. n /\ (m + 1) - 1 = m /\ m \in Depths /\ m + 1 \in Depths
      BY <2>8, <2>12
    <3>2. Up(o, m + 1) = IF Up(o, m) = none THEN none ELSE proto[Up(o, m)]
      BY <3>1, UpRecursion
    <3>3. f = 0 \/ m \in 1 .. f - 1
      BY <2>5
    <3>4. Up(o, m) # none => Own(Up(o, m), Name) = 0
      BY <2>11, <3>1, <3>3
    <3> QED
      BY <2>8, <3>1, <3>2, <3>4
  <2>14. c[1] = proto[o]
    <3>1. Up(o, 1) = IF Up(o, 1 - 1) = none THEN none ELSE proto[Up(o, 1 - 1)]
      BY <2>8, <2>12, UpRecursion
    <3>2. Up(o, 1 - 1) = o
      BY UpRecursion
    <3> QED
      BY <1>1, <2>8, <2>12, <3>1, <3>2
  <2>15. IF c[n] = none \/ Own(c[n], Name) = 0 THEN n = Cardinality(Objs)
         ELSE /\ ~ Props(c[n])[Own(c[n], Name)].acc
              /\ "W" \in Props(c[n])[Own(c[n], Name)].attrs
    <3>1. c[n] = Up(o, n)
      BY <2>8, <2>12
    <3>2. CASE f = 0
      <4>1. n = Cardinality(Objs)
        BY <2>5, <3>2
      <4>2. c[n] = none \/ Own(c[n], Name) = 0
        BY <2>7, <2>11, <3>1, <3>2
      <4> QED
        BY <4>1, <4>2
    <3>3. CASE f # 0
      <4>1. n = f
        BY <2>5, <3>3
      <4>2. Up(o, f) # none /\ Own(Up(o, f), Name) # 0
        BY <3>3, FoundFirst
      <4>3. ~ Props(Up(o, f))[Own(Up(o, f), Name)].acc /\ "W" \in Props(Up(o, f))[Own(Up(o, f), Name)].attrs
        BY <2>1, <3>3 DEF Clean
      <4> QED
        BY <3>1, <4>1, <4>2, <4>3
    <3> QED
      BY <3>2, <3>3
  <2>16. PICK v : v = w
    OBVIOUS
  <2> HIDE DEF w, f, N, C
  <2>17. Along(v, n, c)'
    <3>1. \A x : Own(x, Name)' = Own(x, Name) /\ Props(x)' = Props(x)
      BY <1>2 DEF Own, Props, PropsOf
    <3> QED
      BY <1>2, <2>2, <2>13, <2>14, <2>15, <2>16, <3>1 DEF Along
  <2>18. StoreWay(v)'
    <3>1. NewWay(v)'
      BY <1>2, <2>2, <2>3, <2>4, <2>7, <2>10, <2>16, <2>17 DEF NewWay
    <3>2. v.holder = none /\ v.to # none
      BY <1>1, <2>2, <2>3, <2>16, RootIsAPath
    <3> QED
      BY <3>1, <3>2 DEF StoreWay
  <2>19. record(pre, v)
    BY <2>1, <2>16
  <2>20. ASSUME NEW i \in 1 .. Len(ways') PROVE StoreWay(ways[i])'
    <3>1. ways'[i] = v \/ \E j \in 1 .. Len(ways) : ways'[i] = ways[j]
      BY <1>1, <2>19, <2>20, RecordedWays
    <3>2. PICK u : ways'[i] = u /\ (u = v \/ StoreWay(u))
      BY <3>1 DEF StoreInv
    <3>3. StoreWay(u)'
      <4>1. CASE u = v
        BY <2>18, <4>1
      <4>2. CASE StoreWay(u)
        BY <1>2, <1>3, <4>2, QuietStores
      <4> QED
        BY <3>2, <4>1, <4>2
    <3> QED
      BY <3>2, <3>3 DEF StoreWay, OwnWay, NewWay, Along
  <2> QED
    BY <1>4, <2>20 DEF StoreInv
<1> QED
  BY <1>5, <1>6

(* An operation that touches no store that is out, nor the layouts.          *)
LEMMA PendingSame ==
  ASSUME Pending, tree' = tree, shape' = shape, live \subseteq live', store' = store
  PROVE  Pending'
BY DEF Pending, NoStore

LEMMA DefinitionStores ==
  ASSUME CacheInv, ReadInv, StoreInv, op = "put", CacheInv', NEW o \in Objs, NEW k \in Keys,
         \/ \E attrs \in {Default, ReadOnly} : DefineOwn(o, k, attrs)
         \/ DefineAccessor(o, k) \/ Delete(o, k)
         \/ Freeze(o, TRUE) \/ Freeze(o, FALSE)
  PROVE  StoreInv'
<1>0. tree' \subseteq Paths /\ Pending
  BY CacheParts DEF CacheInv, Layouts, StoreInv
<1>1. CASE \E attrs \in {Default, ReadOnly} : DefineOwn(o, k, attrs)
  <2>1. PICK attrs \in {Default, ReadOnly} : DefineOwn(o, k, attrs)
    BY <1>1
  <2>2. attrs \in SUBSET {"W", "C"}
    BY DEF Default, ReadOnly
  <2>3. /\ o \in live /\ defineOwn(o, k, attrs)
        /\ UNCHANGED <<op, proto, live, usedAsProto, store>>
        /\ Running
    BY <2>1 DEF DefineOwn, Spend, Count
  <2> DEFINE r == addKeyTr(o, k, attrs)
  <2>4. tree \subseteq r.tree /\ (r.bump \/ shape[o] \notin Objs) /\ Grows(o, r.shape, r.tree)
    BY <2>2, <2>3, EditShape, EditBumps, EditGrows
  <2> HIDE DEF r
  <2>5. PICK P : /\ shape' = [shape EXCEPT ![o] = r.shape] /\ priv' = [priv EXCEPT ![o] = P]
                 /\ tree' = r.tree /\ NoteLayout(o, r.bump)
    BY <2>3 DEF defineOwn, r
  <2>6. Pending'
    BY <1>0, <2>3, <2>4, <2>5, PendingStays
  <2> QED
    BY <2>3, <2>4, <2>5, <2>6, EditStores
<1>2. CASE DefineAccessor(o, k)
  <2> DEFINE r == addKeyTr(o, k, ReadOnly)
  <2>1. /\ o \in live
        /\ UNCHANGED <<op, proto, live, usedAsProto, store>>
        /\ tree' = r.tree
        /\ Running
    BY <1>2 DEF DefineAccessor, Spend, Count
  <2>2. ReadOnly \in SUBSET {"W", "C"}
    BY DEF ReadOnly
  <2>3. tree \subseteq r.tree /\ (r.bump \/ shape[o] \notin Objs)
    BY <2>1, <2>2, EditShape, EditBumps
  <2>4. PICK P : shape' = [shape EXCEPT ![o] = o] /\ priv' = [priv EXCEPT ![o] = P] /\ NoteLayout(o, r.bump)
    BY <1>2 DEF DefineAccessor, Privately
  <2> HIDE DEF r
  <2>5. Pending'
    BY <1>0, <2>1, <2>3, <2>4, PendingStays DEF Grows
  <2> QED
    BY <2>1, <2>3, <2>4, <2>5, EditStores
<1>3. CASE Delete(o, k) \/ Freeze(o, TRUE) \/ Freeze(o, FALSE)
  <2>1. /\ o \in live
        /\ UNCHANGED <<op, proto, live, usedAsProto, store, tree>>
        /\ Running
    BY <1>3 DEF Delete, Freeze, Spend, Count
  <2>2. PICK P : shape' = [shape EXCEPT ![o] = o] /\ priv' = [priv EXCEPT ![o] = P] /\ NoteLayout(o, TRUE)
    BY <1>3 DEF Delete, Freeze, Privately
  <2>3. Pending'
    BY <1>0, <2>1, <2>2, PendingStays DEF Grows
  <2> QED
    BY <2>1, <2>2, <2>3, EditStores
<1> QED
  BY <1>1, <1>2, <1>3

LEMMA ObjectStores ==
  ASSUME CacheInv, StoreInv, op = "put", NEW o \in Objs, NEW p, NEW dead,
         PreventExtensions(o) \/ SetProto(o, p) \/ New(o, p) \/ Collect(dead) \/ UNCHANGED vars
  PROVE  StoreInv'
<1>1. /\ shape \in [Objs -> tree \cup Objs] /\ proto \in [Objs -> Objs \cup {none}]
      /\ usedAsProto \subseteq live /\ live \subseteq Objs /\ Pending
  BY CacheParts DEF StoreInv, Flags
<1>2. CASE PreventExtensions(o) \/ UNCHANGED vars
  <2>1. UNCHANGED <<op, tree, shape, priv, proto, live, usedAsProto, ways, store>>
    BY <1>2 DEF PreventExtensions, vars, objects
  <2> QED
    BY <1>1, <2>1, PendingSame, QuietOrBumpStores
<1>3. CASE SetProto(o, p)
  <2>1. /\ UNCHANGED <<op, tree, shape, priv, live, usedAsProto, store>>
        /\ proto' = [proto EXCEPT ![o] = p] /\ NoteLayout(o, FALSE)
    BY <1>3 DEF SetProto
  <2>2. Pending'
    BY <1>1, <2>1, PendingSame
  <2>3. CASE ways' = icEpochBump
    BY <2>1, <2>2, <2>3, QuietOrBumpStores
  <2>4. CASE ways' # icEpochBump
    <3>1. ways' = ways /\ o \notin usedAsProto
      BY <2>1, <2>4 DEF NoteLayout
    <3>2. \A x \in usedAsProto : shape'[x] = shape[x] /\ proto'[x] = proto[x]
      BY <1>1, <2>1, <3>1
    <3> QED
      BY <2>1, <2>2, <3>1, <3>2, QuietOrBumpStores
  <2> QED
    BY <2>3, <2>4
<1>4. CASE New(o, p)
  <2>1. /\ UNCHANGED <<op, tree, shape, priv, usedAsProto, ways, store>> /\ live \subseteq live'
        /\ o \notin live /\ proto' = [proto EXCEPT ![o] = p]
    BY <1>4 DEF New
  <2>2. Pending'
    BY <1>1, <2>1, PendingSame
  <2>3. \A x \in usedAsProto : shape'[x] = shape[x] /\ proto'[x] = proto[x]
    BY <1>1, <2>1
  <2> QED
    BY <2>1, <2>2, <2>3, QuietOrBumpStores
<1>5. CASE Collect(dead)
  <2>1. /\ ways' = icEpochBump /\ op' = op /\ store' = store /\ tree' = tree /\ live' = live \ dead
        /\ store.obj \notin dead
        /\ shape' = [x \in Objs |-> IF x \in dead THEN Root ELSE shape[x]]
    BY <1>5 DEF Collect
  <2>2. Pending'
    <3>1. store # NoStore => store.obj \in live' /\ shape'[store.obj] = shape[store.obj]
      BY <1>1, <2>1 DEF Pending
    <3> QED
      BY <1>1, <2>1, <3>1 DEF Pending, NoStore
  <2> QED
    BY <2>1, <2>2, QuietOrBumpStores
<1> QED
  BY <1>2, <1>3, <1>4, <1>5

(* A property of a shape of the tree is a data property. *)
LEMMA TreeIsData ==
  ASSUME NEW p \in Paths, SlotOf(LayoutOf(p), Name) # 0
  PROVE  ~ LayoutOf(p)[SlotOf(LayoutOf(p), Name)].acc
<1> DEFINE ps == LayoutOf(p)
           i == SlotOf(ps, Name)
<1>1. ps \in Seq(Data)
  BY LayoutTypes
<1>2. i \in DOMAIN ps
  BY DEF SlotOf
<1> HIDE DEF ps, i
<1>3. ps[i] \in Data
  BY <1>1, <1>2
<1> QED
  BY <1>3 DEF Data, i, ps

LEMMA OpcodeStores ==
  ASSUME CacheInv, ReadInv, StoreInv, op = "put", CacheInv', NEW o \in Objs,
         CachedStore(o) \/ PutOwn(o) \/ PutNew(o) \/ PutSetter(o) \/ FillStore
  PROVE  StoreInv'
<1>1. /\ Layouts /\ Flags /\ Handed(ways, tree) /\ Pending /\ tree \subseteq Paths /\ tree' \subseteq Paths
      /\ \A x \in Objs : shape[x] \in tree \cup Objs /\ (shape[x] \in Objs => shape[x] = x)
      /\ \A i \in 1 .. Len(ways) : StoreWay(ways[i])
  BY CacheParts DEF StoreInv, CacheInv, Layouts
<1>2. CASE CachedStore(o)
  <2>1. PICK i \in DOMAIN ways : /\ o \in live /\ hit(ways[i], o) /\ ways[i].to # none
                                 /\ shape' = [shape EXCEPT ![o] = ways[i].to]
                                 /\ NoteLayout(o, FALSE)
                                 /\ UNCHANGED <<op, tree, priv, proto, live, usedAsProto, store>>
                                 /\ Running
    BY <1>2 DEF CachedStore
  <2>2. NewWay(ways[i]) /\ ways[i].shape = shape[o]
    <3>1. i \in 1 .. Len(ways)
      BY <1>1, <2>1 DEF Handed
    <3> QED
      BY <1>1, <2>1, <3>1 DEF hit, StoreWay
  <2>3. shape[o] \notin Objs /\ Grows(o, ways[i].to, tree')
    BY <1>1, <2>1, <2>2, RootIsAPath DEF NewWay, Grows
  <2>4. Pending'
    BY <1>1, <2>1, <2>3, PendingStays
  <2> QED
    BY <2>1, <2>3, <2>4, EditStores
<1>3. CASE PutOwn(o)
  <2>1. o \in live /\ UNCHANGED objects /\ op' = op /\ store' = store /\ icFillPut(o)
    BY <1>3 DEF PutOwn, MissedStore
  <2>2. Pending'
    BY <1>1, <2>1, PendingSame DEF objects
  <2> QED
    BY <2>1, <2>2, FilledOwn
<1>4. CASE PutNew(o)
  <2>1. /\ o \in live /\ Own(o, Name) = 0 /\ defineOwn(o, Name, Default)
        /\ store' = [obj |-> o, pre |-> shape[o], code |-> FALSE]
        /\ UNCHANGED <<op, proto, live, usedAsProto>>
    BY <1>4 DEF PutNew, MissedStore
  <2> DEFINE r == addKeyTr(o, Name, Default)
  <2>2. Name \in Keys /\ Default \in SUBSET {"W", "C"}
    BY CacheAssumption DEF Default
  <2>3. tree \subseteq r.tree /\ (r.bump \/ shape[o] \notin Objs) /\ Grows(o, r.shape, r.tree)
    BY <2>1, <2>2, EditShape, EditBumps, EditGrows
  <2> HIDE DEF r
  <2>4. PICK P : /\ shape' = [shape EXCEPT ![o] = r.shape] /\ priv' = [priv EXCEPT ![o] = P]
                 /\ tree' = r.tree /\ NoteLayout(o, r.bump)
    BY <2>1 DEF defineOwn, r
  <2>5. shape'[o] = r.shape
    BY <2>4, CacheParts
  <2>6. Pending'
    <3>1. store'.obj = o /\ store'.pre = shape[o]
      BY <2>1
    <3>2. shape[o] \in tree' \cup Objs
      BY <1>1, <2>3, <2>4
    <3>3. shape[o] \in Objs => shape'[o] = o /\ shape[o] = o
      BY <1>1, <2>3, <2>5 DEF Grows
    <3>4. shape[o] \notin Objs => SlotOf(LayoutOf(shape[o]), Name) = 0
      BY <2>1 DEF Own, Props, PropsOf
    <3>5. shape[o] \notin Objs /\ shape'[o] \notin Objs => Keep(LayoutOf(shape[o]), LayoutOf(shape'[o]))
      BY <2>3, <2>5 DEF Grows
    <3>6. shape[o] \notin Objs /\ shape'[o] \notin Objs
            => LayoutOf(shape'[o]) = addKey(LayoutOf(shape[o]), Name, Default)
      BY <2>1, <2>2, <2>5, EditAdds DEF r
    <3> QED
      BY <2>1, <3>1, <3>2, <3>3, <3>4, <3>5, <3>6 DEF Pending
  <2> QED
    BY <2>1, <2>3, <2>4, <2>6, EditStores
<1>5. CASE PutSetter(o)
  <2>1. /\ o \in live /\ UNCHANGED <<op, objects, usedAsProto, ways>>
        /\ store' = [obj |-> o, pre |-> shape[o], code |-> TRUE]
        /\ Own(o, Name) # 0 => Props(Up(o, 0))[Own(Up(o, 0), Name)].acc
    BY <1>5 DEF PutSetter, MissedStore
  <2>2. shape[o] \notin Objs => SlotOf(LayoutOf(shape[o]), Name) = 0
    <3> SUFFICES ASSUME shape[o] \notin Objs, SlotOf(LayoutOf(shape[o]), Name) # 0 PROVE FALSE
      OBVIOUS
    <3>1. Up(o, 0) = o
      BY UpRecursion
    <3>2. Own(o, Name) = SlotOf(LayoutOf(shape[o]), Name) /\ Props(o) = LayoutOf(shape[o])
      BY DEF Own, Props, PropsOf
    <3>3. shape[o] \in Paths
      BY <1>1
    <3> QED
      BY <2>1, <3>1, <3>2, <3>3, TreeIsData
  <2>3. shape' = shape /\ tree' = tree /\ live' = live /\ priv' = priv /\ proto' = proto
    BY <2>1 DEF objects
  <2>4. Keep(LayoutOf(shape[o]), LayoutOf(shape[o]))
    BY DEF Keep
  <2>5. Pending'
    <3>1. store'.obj = o /\ store'.pre = shape[o]
      BY <2>1
    <3> QED
      BY <1>1, <2>1, <2>2, <2>3, <2>4, <3>1 DEF Pending
  <2> QED
    BY <2>1, <2>3, <2>5, QuietOrBumpStores
<1>6. CASE FillStore
  <2>1. store # NoStore /\ store' = NoStore /\ UNCHANGED objects /\ op' = op /\ store.obj \in live
    BY <1>1, <1>6 DEF FillStore, Pending
  <2>2. Pending'
    BY <2>1 DEF Pending
  <2>3. CASE shape[store.obj] # store.pre
    BY <1>6, <2>1, <2>3, FilledNew DEF FillStore
  <2>4. CASE shape[store.obj] = store.pre
    BY <1>6, <2>1, <2>2, <2>4, FilledOwn DEF FillStore
  <2> QED
    BY <2>3, <2>4
<1> QED
  BY <1>2, <1>3, <1>4, <1>5, <1>6

LEMMA StoreInit == Init => StoreInv
<1> SUFFICES ASSUME Init PROVE StoreInv
  OBVIOUS
<1>1. Len(ways) = 0 /\ store = NoStore
  BY DEF Init
<1> QED
  BY <1>1 DEF StoreInv, Pending

LEMMA StoreStep == CacheInv /\ ReadInv /\ StoreInv /\ [Next]_vars => StoreInv'
<1> SUFFICES ASSUME CacheInv, ReadInv, StoreInv, [Next]_vars PROVE StoreInv'
  OBVIOUS
<1>1. CacheInv' /\ op' = op
  <2>1. ASSUME NEW o \in Objs, NEW k \in Keys, NEW attrs, NEW freeze,
               DefineOwn(o, k, attrs) \/ DefineAccessor(o, k) \/ Delete(o, k) \/ Freeze(o, freeze)
        PROVE  op' = op
    BY <2>1 DEF DefineOwn, DefineAccessor, Delete, Freeze
  <2>2. ASSUME NEW o \in Objs, NEW p, PreventExtensions(o) \/ SetProto(o, p) \/ New(o, p)
        PROVE  op' = op
    BY <2>2 DEF PreventExtensions, SetProto, New
  <2>3. ASSUME NEW o \in Objs, GetField(o) \/ CachedStore(o) \/ PutOwn(o) \/ PutNew(o) \/ PutSetter(o)
        PROVE  op' = op
    BY <2>3 DEF GetField, CachedStore, PutOwn, PutNew, PutSetter
  <2>4. ASSUME NEW dead, Collect(dead) PROVE op' = op
    BY <2>4 DEF Collect
  <2>5. ASSUME FillStore PROVE op' = op
    BY <2>5 DEF FillStore
  <2>6. ASSUME UNCHANGED vars PROVE op' = op
    BY <2>6 DEF vars
  <2>7. Name \in Keys
    BY CacheAssumption
  <2>8. op' = op
    BY <2>1, <2>2, <2>3, <2>4, <2>5, <2>6, <2>7 DEF Next
  <2> QED
    BY <2>8, CacheStep
<1>2. CASE op # "put"
  BY <1>1, <1>2 DEF StoreInv
<1>3. CASE op = "put"
  <2>1. Name \in Keys
    BY CacheAssumption
  <2>2. ASSUME NEW o \in Objs,
               \/ \E k \in Keys : \/ \E attrs \in {Default, ReadOnly} : DefineOwn(o, k, attrs)
                                  \/ DefineAccessor(o, k) \/ Delete(o, k)
               \/ Freeze(o, TRUE) \/ Freeze(o, FALSE)
        PROVE  StoreInv'
    BY <1>1, <1>3, <2>1, <2>2, DefinitionStores
  <2>3. ASSUME NEW o \in Objs,
               PreventExtensions(o) \/ \E p \in Objs \cup {none} : SetProto(o, p) \/ New(o, p)
        PROVE  StoreInv'
    BY <1>3, <2>3, ObjectStores
  <2>4. ASSUME NEW o \in Objs, CachedStore(o) \/ PutOwn(o) \/ PutNew(o) \/ PutSetter(o) PROVE StoreInv'
    BY <1>1, <1>3, <2>4, OpcodeStores
  <2>5. ASSUME NEW dead \in SUBSET Objs, Collect(dead) PROVE StoreInv'
    <3>1. PICK x : x \in dead
      BY <2>5 DEF Collect
    <3> QED
      BY <1>3, <2>5, <3>1, ObjectStores
  <2>6. CASE UNCHANGED vars
    <3>1. UNCHANGED <<tree, shape, priv, proto, live, usedAsProto, op, ways, store>>
      BY <2>6 DEF vars, objects
    <3>2. \A s : PropsOf(s)' = PropsOf(s)
      BY <3>1 DEF PropsOf
    <3>3. \A o : Props(o)' = Props(o) /\ Own(o, Name)' = Own(o, Name)
      BY <3>1, <3>2 DEF Props, Own
    <3>4. \A w, n, c : Along(w, n, c)' <=> Along(w, n, c)
      BY <3>1, <3>3 DEF Along
    <3>5. \A w : StoreWay(w)' <=> StoreWay(w)
      BY <3>1, <3>2, <3>4 DEF StoreWay, OwnWay, NewWay
    <3>6. Pending' <=> Pending
      BY <3>1 DEF Pending
    <3> QED
      BY <1>3, <3>1, <3>5, <3>6 DEF StoreInv
  <2>7. CASE FillStore
    <3>1. store.obj \in Objs
      BY <1>3, <2>7, CacheParts DEF FillStore, StoreInv, Pending
    <3> QED
      BY <1>1, <1>3, <2>7, <3>1, OpcodeStores
  <2>8. \A o \in Objs : ~ GetField(o)
    BY <1>3 DEF GetField
  <2> QED
    BY <2>2, <2>3, <2>4, <2>5, <2>6, <2>7, <2>8 DEF Next
<1> QED
  BY <1>2, <1>3

(* A store the cache performs is one [[Set]] would perform: into a writable  *)
(* data slot of the receiver; or, when it creates the property, one no       *)
(* setter and no read-only property up the chain would divert, into the slot *)
(* the recorded layout gives the name, every other slot keeping its key.     *)
(* The layout adds the stored property and nothing else when no setter ran   *)
(* during the store the way was filled by; when one did, the theorem says    *)
(* nothing of further properties, and there may be some                      *)
(* (icCachedStore of propcache.go against setFieldR of elements.go).         *)
THEOREM StoresAreRight == Spec => []CachedStoreIsSet
<1>1. CacheInv /\ ReadInv /\ StoreInv /\ [Next]_vars => (CacheInv /\ ReadInv /\ StoreInv)'
  BY CacheStep, ReadStep, StoreStep
<1>2. CacheInv /\ StoreInv => CachedStoreIsSet
  BY StoresAreSets
<1> QED
  BY CacheInit, ReadInit, StoreInit, <1>1, <1>2, PTL DEF Spec
=============================================================================
