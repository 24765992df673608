-------------------------- MODULE InvocationProofs --------------------------
(***************************************************************************)
(* Proofs about Invocation, for a pool of any size and any number of runs: *)
(* the pool is sound and knows the run's objects whatever scripts do, and  *)
(* nothing still referred to is freed but in the three ways lost records;  *)
(* until one is met the dirty test is exact about property writes.         *)
(***************************************************************************)
EXTENDS Invocation, FiniteSetTheorems, TLAPS

(* The shared global is older than every run. *)
SharedIsOld == /\ Shared \in live
               /\ next >= 2
               /\ Running => mark >= 2
               /\ Shared \notin born
               /\ ~Running => own = {}

-----------------------------------------------------------------------------
(* Sets of handles are finite, and taking some out lowers the count by them. *)
LEMMA HandlesFinite ==
  ASSUME NEW S \in SUBSET Handles
  PROVE  IsFiniteSet(S) /\ Cardinality(S) \in Nat
<1>1. IsFiniteSet(Handles)
  BY FS_Interval, InvocationAssumption DEF Handles
<1> QED
  BY <1>1, FS_Subset, FS_CardinalityType

LEMMA CountWithout ==
  ASSUME NEW S \in SUBSET Handles, NEW T \in SUBSET S
  PROVE  Cardinality(S \ T) = Cardinality(S) - Cardinality(T)
<1>1. S \cap T = T
  OBVIOUS
<1> QED
  BY <1>1, HandlesFinite, FS_Difference, ZenonT(40)

(* Reach(roots) holds the roots, is closed under references, and is within   *)
(* every set of handles of which this is true.                               *)
LEMMA ReachIsClosure ==
  ASSUME NEW roots \in SUBSET Handles, ref \in [Handles -> Handles \cup {Null}]
  PROVE  /\ Reach(roots) \subseteq Handles
         /\ roots \subseteq Reach(roots)
         /\ \A x \in Reach(roots) : ref[x] # Null => ref[x] \in Reach(roots)
         /\ \A S \in SUBSET Handles :
              roots \subseteq S /\ (\A x \in S : ref[x] # Null => ref[x] \in S)
                => Reach(roots) \subseteq S
<1>1. Reach(roots) \subseteq Handles /\ roots \subseteq Reach(roots)
  BY DEF Reach
<1>2. ASSUME NEW x \in Reach(roots), ref[x] # Null
      PROVE  ref[x] \in Reach(roots)
  <2>1. x \in Handles /\ ref[x] \in Handles
    BY <1>1, <1>2
  <2>2. ASSUME NEW S \in SUBSET Handles, roots \subseteq S,
               \A y \in S : ref[y] # Null => ref[y] \in S
        PROVE  ref[x] \in S
    <3>1. x \in S
      BY <1>2, <2>2 DEF Reach
    <3> QED
      BY <3>1, <1>2, <2>2
  <2> QED
    BY <2>1, <2>2 DEF Reach
<1>3. ASSUME NEW S \in SUBSET Handles, roots \subseteq S,
             \A y \in S : ref[y] # Null => ref[y] \in S
      PROVE  Reach(roots) \subseteq S
  BY <1>3 DEF Reach
<1> QED
  BY <1>1, <1>2, <1>3

(* Where nothing dangles, scripts only get at objects that are live. *)
LEMMA AccessIsLive ==
  ASSUME TypeOK, NoDangling, lost = {}
  PROVE  Access \subseteq live
<1>1. {Shared, global} \cup held \cup lex \in SUBSET Handles
  BY InvocationAssumption DEF TypeOK, Handles, Shared
<1>2. {Shared, global} \cup held \cup lex \subseteq live
  BY DEF NoDangling
<1>3. live \in SUBSET Handles /\ \A x \in live : ref[x] # Null => ref[x] \in live
  BY DEF TypeOK, NoDangling
<1> QED
  BY <1>1, <1>2, <1>3, ReachIsClosure DEF Access, TypeOK

(* What the pool hands out is dead and below next. *)
LEMMA FreshIsDead ==
  ASSUME TypeOK, PoolSound, NEW h, Fresh(h)
  PROVE  /\ h \in Handles /\ h \notin live /\ h <= next
         /\ freeList[h] = 0 => h = next
         /\ h = next => freeList[h] = 0
<1>1. CASE \E x \in Handles : freeList[x] > 0
  <2>1. h \in Handles /\ freeList[h] > 0 /\ freeList[h] <= 1 /\ freeList[h] \in Nat
    BY <1>1 DEF Fresh, PoolSound, TypeOK
  <2> QED
    BY <2>1 DEF PoolSound, TypeOK, Handles
<1>2. CASE ~ \E x \in Handles : freeList[x] > 0
  <2>1. h = next /\ next <= Cells /\ next \in 1..(Cells + 1)
    BY <1>2 DEF Fresh, TypeOK
  <2>2. h \in Handles /\ freeList[h] \in Nat /\ ~(freeList[h] > 0)
    BY <2>1, <1>2, InvocationAssumption DEF TypeOK, Handles
  <2>3. h \notin live
    BY <2>1, <2>2 DEF PoolSound, TypeOK, Handles
  <2> QED
    BY <2>1, <2>2, <2>3
<1> QED
  BY <1>1, <1>2

(* alloc keeps the pool sound. *)
LEMMA AllocSound ==
  ASSUME TypeOK, PoolSound, NEW h, NEW m, NEW r, Alloc(h, m, r)
  PROVE  PoolSound'
<1>1. Fresh(h)
  BY DEF Alloc
<1>2. /\ h \in Handles /\ h \notin live /\ h <= next
      /\ freeList[h] = 0 => h = next
      /\ h = next => freeList[h] = 0
  BY <1>1, FreshIsDead
<1>3. /\ freeList \in [Handles -> Nat] /\ reborn \in [Handles -> Nat]
      /\ next \in Int /\ live \subseteq Handles
  BY DEF TypeOK, Handles
<1>4. \A x \in Handles : /\ freeList[x] <= 1
                         /\ freeList[x] = 1 => x < next /\ x \notin live
  BY DEF PoolSound
<1>5. ASSUME NEW x \in Handles
      PROVE  /\ freeList'[x] <= 1
             /\ freeList'[x] = 1 => x < next' /\ x \notin live'
  <2>1. CASE x = h
    BY <2>1, <1>2, <1>3, <1>4 DEF Alloc, Handles
  <2>2. CASE x # h
    BY <2>2, <1>2, <1>3, <1>4 DEF Alloc, Handles
  <2> QED
    BY <2>1, <2>2
<1>6. ASSUME NEW x \in Handles
      PROVE  reborn'[x] = (IF x \in born' THEN 1 ELSE 0)
  <2>1. reborn[x] = (IF x \in born THEN 1 ELSE 0) /\ reborn[h] = (IF h \in born THEN 1 ELSE 0)
    BY <1>2 DEF PoolSound
  <2>2. CASE h < m /\ h \notin born
    BY <2>1, <2>2, <1>2, <1>3 DEF Alloc
  <2>3. CASE ~(h < m /\ h \notin born)
    BY <2>1, <2>3 DEF Alloc
  <2> QED
    BY <2>2, <2>3
<1>7. \A x \in live' : x < next'
  <2>1. \A x \in live : x < next
    BY DEF PoolSound
  <2> QED
    BY <2>1, <1>2, <1>3 DEF Alloc, Handles
<1>8. liveN' = Cardinality(live')
  <2>1. IsFiniteSet(live) /\ Cardinality(live) \in Nat
    BY <1>3, HandlesFinite
  <2>2. Cardinality(live \cup {h}) = Cardinality(live) + 1
    BY <2>1, <1>2, FS_AddElement
  <2> QED
    BY <2>2 DEF Alloc, PoolSound
<1> QED
  BY <1>5, <1>6, <1>7, <1>8 DEF PoolSound

-----------------------------------------------------------------------------
(* The types are inductive by themselves. *)
LEMMA TypeStep == TypeOK /\ [Next]_vars => TypeOK'
<1> SUFFICES ASSUME TypeOK, [Next]_vars PROVE TypeOK'
  OBVIOUS
<1> USE InvocationAssumption
<1>0. /\ Cells \in Nat /\ MaxRuns \in Nat /\ Shared \in Handles /\ Null \notin Handles
      /\ next \in Int
  BY DEF Handles, Shared, Null, TypeOK
<1>1. ASSUME NEW h, NEW m, NEW r \in Handles \cup {Null}, Alloc(h, m, r)
      PROVE  /\ h \in Handles
             /\ next' \in 1..(Cells + 1) /\ live' \subseteq Handles /\ liveN' \in Int
             /\ freeList' \in [Handles -> Nat] /\ reborn' \in [Handles -> Nat]
             /\ born' \subseteq Handles
             /\ ref' \in [Handles -> Handles \cup {Null}]
  <2>1. h \in Handles
    BY <1>1 DEF Alloc, Fresh, TypeOK, Handles
  <2>2. next' \in 1..(Cells + 1)
    BY <2>1, <1>1 DEF Alloc, TypeOK, Handles
  <2>3. freeList' \in [Handles -> Nat]
    BY <2>1, <1>1 DEF Alloc, TypeOK
  <2>4. reborn' \in [Handles -> Nat] /\ born' \subseteq Handles
    BY <2>1, <1>1 DEF Alloc, TypeOK
  <2>5. ref' \in [Handles -> Handles \cup {Null}]
    BY <2>1, <1>1 DEF Alloc, TypeOK
  <2> QED
    BY <2>1, <2>2, <2>3, <2>4, <2>5, <1>1 DEF Alloc, TypeOK
<1>2. ASSUME NEW h \in Handles, New(h) PROVE TypeOK'
  BY <1>1, <1>2 DEF TypeOK, New
<1>3. ASSUME NEW h \in Handles, Begin(h) PROVE TypeOK'
  <2>1. Alloc(h, next, Shared) /\ Shared \in Handles \cup {Null}
    BY <1>0, <1>3 DEF Begin
  <2>2. /\ mark' \in 0..(Cells + 1) /\ runs' \in 0..MaxRuns
    BY <1>0, <1>3 DEF TypeOK, Begin
  <2>3. /\ dirty' \in BOOLEAN /\ wrote' \in BOOLEAN
        /\ slipped' \subseteq Handles /\ lost' \subseteq Doors
    BY <1>3 DEF TypeOK, Begin
  <2>4. /\ global' \in Handles /\ held' \subseteq Handles /\ lex' \subseteq Handles
        /\ prevLex' \subseteq Handles /\ queue' \subseteq Handles /\ own' \subseteq Handles
    BY <1>3 DEF TypeOK, Begin
  <2> QED
    BY <1>1, <2>1, <2>2, <2>3, <2>4 DEF TypeOK
<1>4. ASSUME NEW S PROVE Freed(S) \in [Handles -> Nat]
  BY DEF Freed, TypeOK
<1>5. ASSUME NEW S \in SUBSET live PROVE liveN - Cardinality(S) \in Int
  BY HandlesFinite DEF TypeOK
<1>6. CASE Collect
  BY <1>4, <1>5, <1>6 DEF TypeOK, Collect, Doors
<1>7. ASSUME EndRun
      PROVE  /\ mark' \in 0..(Cells + 1) /\ dirty' \in BOOLEAN /\ global' \in Handles
             /\ held' \subseteq Handles /\ lex' \subseteq Handles /\ prevLex' \subseteq Handles
             /\ queue' \subseteq Handles /\ own' \subseteq Handles /\ wrote' \in BOOLEAN
             /\ runs' \in 0..MaxRuns /\ slipped' \subseteq Handles
             /\ born' \subseteq Handles /\ reborn' \in [Handles -> Nat]
  BY <1>0, <1>7 DEF TypeOK, EndRun, Null
<1>8. CASE End
  BY <1>7, <1>8 DEF TypeOK, End
<1>9. CASE Release
  <2> DEFINE low == {h \in live : reborn[h] > 0}
             gone == low \cup {h \in live : h >= mark}
  <2>1. gone \in SUBSET live
    OBVIOUS
  <2>2. live' \subseteq Handles /\ liveN' \in Int
    BY <2>1, <1>5, <1>9 DEF TypeOK, Release
  <2>3. freeList' \in [Handles -> Nat]
    BY <1>4, <1>9 DEF Release
  <2>4. ref' \in [Handles -> Handles \cup {Null}]
    BY <1>9 DEF TypeOK, Release
  <2>5. next' \in 1..(Cells + 1)
    BY <1>0, <1>9 DEF TypeOK, Release, Running, Null
  <2>6. lost' \subseteq Doors
    BY <1>9 DEF TypeOK, Release, Dangling, Doors
  <2> QED
    BY <2>2, <2>3, <2>4, <2>5, <2>6, <1>7, <1>9 DEF TypeOK, Release
<1>10. ASSUME NEW h \in Handles, Drop(h) \/ RegisterGlobalLex(h) \/ Schedule(h) \/ RunJob(h)
       PROVE  TypeOK'
  BY <1>10 DEF TypeOK, Drop, RegisterGlobalLex, Schedule, RunJob, poolVars
<1>11. ASSUME NEW o \in Access, NEW v \in Access \cup {Null}, NEW k \in Kinds, Write(o, v, k)
       PROVE  TypeOK'
  <2>1. o \in Handles /\ v \in Handles \cup {Null}
    BY DEF Access, Reach
  <2> QED
    BY <2>1, <1>11 DEF TypeOK, Write, poolVars
<1>12. CASE UNCHANGED vars
  BY <1>12 DEF TypeOK, vars, poolVars
<1> QED
  BY <1>2, <1>3, <1>6, <1>8, <1>9, <1>10, <1>11, <1>12 DEF Next, ReleaseDirty

(* The region of the run, as Release computes it, is what the run made. *)
LEMMA GoneIsOwn ==
  ASSUME TypeOK, PoolSound, OwnIsKnown, Running
  PROVE  /\ {h \in live : reborn[h] > 0} \cup {h \in live : h >= mark} = own
         /\ own \subseteq live
<1>1. own = {h \in live : h >= mark \/ h \in born}
  BY DEF OwnIsKnown
<1>2. \A h \in live : reborn[h] > 0 <=> h \in born
  <2>1. \A h \in live : h \in Handles /\ reborn[h] = (IF h \in born THEN 1 ELSE 0)
    BY DEF PoolSound, TypeOK
  <2> QED
    BY <2>1
<1> QED
  BY <1>1, <1>2

PoolInv == TypeOK /\ PoolSound /\ OwnIsKnown /\ SharedIsOld

(* What End does to the marks. *)
LEMMA EndUnmarks ==
  ASSUME TypeOK, PoolSound, EndRun
  PROVE  /\ born' = {} /\ ~Running' /\ own' = {}
         /\ \A h \in Handles : reborn'[h] = 0
<1>1. \A h \in born : h \in Handles /\ reborn[h] = 1
  BY DEF PoolSound, TypeOK
<1> QED
  BY <1>1 DEF EndRun, Running, Null

LEMMA PoolStep == PoolInv /\ [Next]_vars => PoolInv'
<1> SUFFICES ASSUME PoolInv, [Next]_vars PROVE PoolInv'
  OBVIOUS
<1>0. TypeOK /\ PoolSound /\ OwnIsKnown /\ SharedIsOld /\ TypeOK'
  BY TypeStep DEF PoolInv
<1>1. /\ live \subseteq Handles /\ next \in Int /\ mark \in Int /\ born \subseteq Handles
      /\ freeList \in [Handles -> Nat] /\ reborn \in [Handles -> Nat]
      /\ Shared \in Handles /\ Shared = 1 /\ Null = 0
      /\ \A h \in Handles : h \in Nat /\ h # 0
      /\ \A h \in live : h < next
  <2>1. next \in Int /\ mark \in Int /\ Shared \in Handles /\ Shared = 1 /\ Null = 0
    BY <1>0, InvocationAssumption DEF TypeOK, Handles, Shared, Null
  <2>2. \A h \in Handles : h \in Nat /\ h # 0
    BY InvocationAssumption DEF Handles
  <2> QED
    BY <2>1, <2>2, <1>0 DEF TypeOK, PoolSound
<1>2. ASSUME NEW h \in Handles, New(h) PROVE PoolInv'
  <2>1. Alloc(h, mark, Null)
    BY <1>2 DEF New
  <2>2. PoolSound'
    BY <2>1, <1>0, AllocSound
  <2>3. h \notin live /\ h <= next /\ live' = live \cup {h} /\ mark' = mark
    BY <2>1, <1>0, <1>2, FreshIsDead DEF Alloc, New
  <2>4. /\ h < mark => born' = born \cup {h}
        /\ ~(h < mark) => born' = born
    BY <2>1 DEF Alloc
  <2>5. OwnIsKnown'
    <3>1. CASE Running
      <4>1. own' = own \cup {h} /\ own = {x \in live : x >= mark \/ x \in born}
        BY <3>1, <1>0, <1>2 DEF New, OwnIsKnown
      <4>2. own' = {x \in live' : x >= mark' \/ x \in born'}
        BY <4>1, <2>3, <2>4, <1>1
      <4> QED
        BY <3>1, <4>2, <2>3 DEF OwnIsKnown, Running
    <3>2. CASE ~Running
      <4>1. born = {} /\ mark = 0
        BY <3>2, <1>0, <1>1 DEF OwnIsKnown, Running
      <4>2. born' = {}
        BY <4>1, <2>4, <1>1
      <4> QED
        BY <3>2, <4>2, <2>3 DEF OwnIsKnown, Running
    <3> QED
      BY <3>1, <3>2
  <2>6. SharedIsOld'
    <3>1. next' >= 2
      BY <2>1, <1>0, <1>1 DEF Alloc, SharedIsOld
    <3>2. Shared # h /\ Shared \notin born' /\ Shared \in live'
      BY <2>3, <2>4, <1>0 DEF SharedIsOld
    <3>3. ~Running => own' = own
      BY <1>2 DEF New
    <3> QED
      BY <3>1, <3>2, <3>3, <2>3, <1>0 DEF SharedIsOld, Running
  <2> QED
    BY <2>2, <2>5, <2>6, <1>0 DEF PoolInv
<1>3. ASSUME NEW h \in Handles, Begin(h) PROVE PoolInv'
  <2>1. Alloc(h, next, Shared) /\ ~Running
    BY <1>3 DEF Begin
  <2>2. PoolSound'
    BY <2>1, <1>0, AllocSound
  <2>3. /\ h \notin live /\ h <= next /\ live' = live \cup {h} /\ mark' = next
        /\ own' = {h} /\ born = {}
    BY <2>1, <1>0, <1>3, FreshIsDead DEF Alloc, Begin, OwnIsKnown
  <2>4. born' = (IF h < next THEN {h} ELSE {})
    <3>1. h \notin born /\ {} \cup {h} = {h}
      BY <2>3
    <3>2. born' = (IF h < next THEN born \cup {h} ELSE born)
      BY <3>1, <2>1 DEF Alloc
    <3> QED
      BY <3>2, <2>3
  <2>5. Running' /\ mark' >= 2
    BY <2>3, <1>0, <1>1 DEF Running, SharedIsOld
  <2>6. own' = {x \in live' : x >= mark' \/ x \in born'}
    <3>1. h \in Int /\ (h >= next \/ h \in born')
      BY <2>3, <2>4, <1>1, <1>3
    <3>2. ASSUME NEW x \in live PROVE ~(x >= next) /\ x \notin born' /\ x # h
      BY <2>3, <2>4, <1>1
    <3> QED
      BY <3>1, <3>2, <2>3
  <2>7. SharedIsOld'
    <3>1. next' >= 2
      BY <2>1, <1>0, <1>1 DEF Alloc, SharedIsOld
    <3>2. Shared # h /\ Shared \notin born' /\ Shared \in live'
      BY <2>3, <2>4, <1>0 DEF SharedIsOld
    <3> QED
      BY <3>1, <3>2, <2>5 DEF SharedIsOld
  <2> QED
    BY <2>2, <2>5, <2>6, <2>7, <1>0 DEF PoolInv, OwnIsKnown
<1>4. CASE Collect
  <2> DEFINE dead == live \ Marked
  <2>1. /\ live' = live \ dead /\ dead \in SUBSET live
        /\ own' = own \cap Marked
        /\ UNCHANGED <<next, born, reborn, mark>>
    BY <1>4 DEF Collect
  <2>2. ASSUME NEW x \in Handles
        PROVE  /\ freeList'[x] <= 1
               /\ freeList'[x] = 1 => x < next' /\ x \notin live'
    <3>1. /\ freeList[x] \in Nat /\ freeList[x] <= 1
          /\ freeList[x] = 1 => x < next /\ x \notin live
      BY <1>0, <1>1 DEF PoolSound
    <3>2. freeList'[x] = IF x \in dead THEN freeList[x] + 1 ELSE freeList[x]
      BY <1>4 DEF Collect, Freed
    <3>3. CASE x \in dead
      BY <3>1, <3>2, <3>3, <2>1, <1>1
    <3>4. CASE x \notin dead
      BY <3>1, <3>2, <3>4, <2>1
    <3> QED
      BY <3>3, <3>4
  <2>3. liveN' = Cardinality(live')
    <3>1. Cardinality(live \ dead) = Cardinality(live) - Cardinality(dead)
      BY <2>1, <1>1, CountWithout
    <3> QED
      BY <3>1, <2>1, <1>0, <1>4 DEF Collect, PoolSound
  <2>4. PoolSound'
    BY <2>1, <2>2, <2>3, <1>0 DEF PoolSound
  <2>5. OwnIsKnown'
    <3>1. CASE Running
      <4>1. own' = {x \in live' : x >= mark' \/ x \in born'}
        BY <3>1, <2>1, <1>0 DEF OwnIsKnown
      <4> QED
        BY <3>1, <4>1, <2>1 DEF OwnIsKnown, Running
    <3>2. CASE ~Running
      BY <3>2, <2>1, <1>0 DEF OwnIsKnown, Running
    <3> QED
      BY <3>1, <3>2
  <2>6. Shared \in Marked
    <3>1. {Shared, global} \cup held \cup lex \cup queue \in SUBSET Handles
      BY <1>0, <1>1 DEF TypeOK
    <3> QED
      BY <3>1, <1>0, ReachIsClosure DEF Marked, TypeOK
  <2>7. SharedIsOld'
    BY <2>1, <2>6, <1>0 DEF SharedIsOld, Running
  <2> QED
    BY <2>4, <2>5, <2>7, <1>0 DEF PoolInv
<1>5. CASE End
  <2>1. /\ born' = {} /\ ~Running' /\ own' = {}
        /\ \A h \in Handles : reborn'[h] = 0
    BY <1>0, <1>5, EndUnmarks DEF End
  <2>2. UNCHANGED <<next, live, freeList, liveN>>
    BY <1>5 DEF End
  <2>3. PoolSound'
    BY <2>1, <2>2, <1>0 DEF PoolSound
  <2>4. OwnIsKnown' /\ SharedIsOld'
    BY <2>1, <2>2, <1>0 DEF OwnIsKnown, SharedIsOld
  <2> QED
    BY <2>3, <2>4, <1>0 DEF PoolInv
<1>6. CASE Release
  <2> DEFINE low == {h \in live : reborn[h] > 0}
  <2>1. /\ born' = {} /\ ~Running' /\ own' = {}
        /\ \A h \in Handles : reborn'[h] = 0
    BY <1>0, <1>6, EndUnmarks DEF Release
  <2>2. Running
    BY <1>6 DEF Release
  <2>3. low \cup {h \in live : h >= mark} = own /\ own \in SUBSET live
    BY <2>2, <1>0, GoneIsOwn
  <2>4. /\ live' = live \ own /\ liveN' = liveN - Cardinality(own) /\ next' = mark
        /\ freeList' = [h \in Handles |-> IF h >= mark THEN 0 ELSE Freed(low)[h]]
    BY <2>3, <1>6 DEF Release
  <2>5. ASSUME NEW x \in Handles
        PROVE  /\ freeList'[x] <= 1
               /\ freeList'[x] = 1 => x < next' /\ x \notin live'
    <3>1. /\ freeList[x] \in Nat /\ freeList[x] <= 1
          /\ freeList[x] = 1 => x < next /\ x \notin live
      BY <1>0, <1>1 DEF PoolSound
    <3>2. freeList'[x] = IF x >= mark THEN 0 ELSE IF x \in low THEN freeList[x] + 1 ELSE freeList[x]
      BY <2>4 DEF Freed
    <3>3. x \in low => x \in own /\ x \in live
      BY <2>3
    <3>4. CASE x >= mark
      BY <3>2, <3>4
    <3>5. CASE ~(x >= mark)
      BY <3>1, <3>2, <3>3, <3>5, <2>4, <1>1
    <3> QED
      BY <3>4, <3>5
  <2>6. liveN' = Cardinality(live')
    <3>1. Cardinality(live \ own) = Cardinality(live) - Cardinality(own)
      BY <2>3, <1>1, CountWithout
    <3> QED
      BY <3>1, <2>4, <1>0 DEF PoolSound
  <2>7. \A x \in live' : x < next'
    BY <2>3, <2>4, <1>1
  <2>8. PoolSound'
    BY <2>1, <2>5, <2>6, <2>7 DEF PoolSound
  <2>9. Shared \notin own
    BY <2>2, <1>0, <1>1 DEF OwnIsKnown, SharedIsOld
  <2>10. OwnIsKnown' /\ SharedIsOld'
    BY <2>1, <2>2, <2>4, <2>9, <1>0 DEF OwnIsKnown, SharedIsOld
  <2> QED
    BY <2>8, <2>10, <1>0 DEF PoolInv
<1>7. ASSUME UNCHANGED <<poolVars, mark, own>> PROVE PoolInv'
  <2>1. UNCHANGED <<next, live, freeList, liveN, born, reborn, mark, own>>
    BY <1>7 DEF poolVars
  <2> QED
    BY <2>1, <1>0 DEF PoolInv, PoolSound, OwnIsKnown, SharedIsOld, Running
<1>8. ASSUME NEW h \in Handles, Drop(h) \/ RegisterGlobalLex(h) \/ Schedule(h) \/ RunJob(h)
      PROVE  UNCHANGED <<poolVars, mark, own>>
  BY <1>8 DEF Drop, RegisterGlobalLex, Schedule, RunJob
<1>9. ASSUME NEW o, NEW v, NEW k, Write(o, v, k)
      PROVE  UNCHANGED <<poolVars, mark, own>>
  BY <1>9 DEF Write
<1>10. UNCHANGED vars => UNCHANGED <<poolVars, mark, own>>
  BY DEF vars
<1> QED
  BY <1>2, <1>3, <1>4, <1>5, <1>6, <1>7, <1>8, <1>9, <1>10 DEF Next, ReleaseDirty

-----------------------------------------------------------------------------
(* What has been lost stays lost. *)
LEMMA LostStays ==
  ASSUME [Next]_vars
  PROVE  lost \subseteq lost'
<1>1. ASSUME NEW h, \/ New(h) \/ Begin(h) \/ Drop(h)
                    \/ RegisterGlobalLex(h) \/ Schedule(h) \/ RunJob(h)
      PROVE  lost' = lost
  BY <1>1 DEF New, Begin, Drop, RegisterGlobalLex, Schedule, RunJob
<1>2. ASSUME NEW o, NEW v, NEW k, Write(o, v, k) PROVE lost' = lost
  BY <1>2 DEF Write
<1>3. ASSUME End PROVE lost' = lost
  BY <1>3 DEF End
<1>4. ASSUME Collect \/ Release PROVE lost \subseteq lost'
  BY <1>4 DEF Collect, Release
<1>5. ASSUME UNCHANGED vars PROVE lost' = lost
  BY <1>5 DEF vars
<1> QED
  BY <1>1, <1>2, <1>3, <1>4, <1>5 DEF Next, ReleaseDirty

(* The bindings put aside are older than the run. *)
SavedAreOlder == lost = {} => prevLex \cap own = {}

RegionInv == RegionIsolated /\ DirtyIsExact /\ NoDangling /\ SavedAreOlder

(* A new object is referred to by nobody yet. *)
LEMMA NobodyRefersToFresh ==
  ASSUME TypeOK, PoolSound, NoDangling, lost = {}, NEW h, NEW m, NEW r, Alloc(h, m, r)
  PROVE  /\ h \in Handles /\ h \notin live /\ live' = live \cup {h}
         /\ ref'[h] = r
         /\ \A x \in live : x # h /\ ref'[x] = ref[x] /\ ref[x] # h
<1>1. Fresh(h) /\ live' = live \cup {h} /\ ref' = [ref EXCEPT ![h] = r]
  BY DEF Alloc
<1>2. h \in Handles /\ h \notin live
  BY <1>1, FreshIsDead
<1>3. h # Null
  BY <1>2, InvocationAssumption DEF Handles, Null
<1>4. \A x \in live : x \in Handles /\ (ref[x] # Null => ref[x] \in live)
  BY DEF TypeOK, NoDangling
<1> QED
  BY <1>1, <1>2, <1>3, <1>4 DEF TypeOK

LEMMA RegionStep == PoolInv /\ RegionInv /\ [Next]_vars => RegionInv'
<1> SUFFICES ASSUME PoolInv, RegionInv, [Next]_vars, lost' = {} PROVE RegionInv'
  BY DEF RegionInv, RegionIsolated, DirtyIsExact, NoDangling, SavedAreOlder
<1>0. /\ TypeOK /\ PoolSound /\ OwnIsKnown /\ SharedIsOld
      /\ RegionIsolated /\ DirtyIsExact /\ NoDangling /\ lost = {}
  BY LostStays DEF RegionInv, PoolInv
<1>1. /\ live \subseteq Handles /\ ref \in [Handles -> Handles \cup {Null}]
      /\ Null \notin Handles /\ own \subseteq Handles
  <2>1. Null \notin Handles
    BY InvocationAssumption DEF Handles, Null
  <2> QED
    BY <2>1, <1>0 DEF TypeOK
<1>2. /\ \A x \in live : ref[x] # Null => ref[x] \in live
      /\ Shared \in live /\ global \in live /\ held \subseteq live /\ queue \subseteq live
      /\ lex \subseteq live /\ prevLex \subseteq live /\ prevLex \cap own = {}
  BY <1>0 DEF NoDangling, RegionInv, SavedAreOlder
<1>3. own \subseteq live
  <2>1. CASE Running
    BY <2>1, <1>0, GoneIsOwn
  <2>2. CASE ~Running
    BY <2>2, <1>0 DEF SharedIsOld
  <2> QED
    BY <2>1, <2>2
<1>4. ASSUME NEW h \in Handles, New(h) PROVE RegionInv'
  <2>1. Alloc(h, mark, Null)
    BY <1>4 DEF New
  <2>2. /\ h \notin live /\ live' = live \cup {h} /\ ref'[h] = Null
        /\ \A x \in live : x # h /\ ref'[x] = ref[x] /\ ref[x] # h
    BY <2>1, <1>0, NobodyRefersToFresh
  <2>3. /\ UNCHANGED <<mark, dirty, global, lex, prevLex, queue, wrote, slipped>>
        /\ held' = held \cup {h} /\ own' = IF Running THEN own \cup {h} ELSE own
    BY <1>4 DEF New
  <2>4. NoDangling' /\ SavedAreOlder'
    BY <2>2, <2>3, <1>2 DEF NoDangling, SavedAreOlder
  <2>5. DirtyIsExact'
    BY <2>3, <1>0 DEF DirtyIsExact, Running
  <2>6. RegionIsolated'
    <3> SUFFICES ASSUME Running', ~dirty', NEW x \in live' \ own', ref'[x] \in own' PROVE x \in slipped'
      BY DEF RegionIsolated
    <3>1. own' = own \cup {h} /\ x \in live \ own
      BY <2>2, <2>3 DEF Running
    <3>2. ref[x] \in own => x \in slipped
      BY <3>1, <2>3, <1>0 DEF RegionIsolated, Running
    <3> QED
      BY <3>1, <3>2, <2>2, <2>3
  <2> QED
    BY <2>4, <2>5, <2>6 DEF RegionInv
<1>5. ASSUME NEW h \in Handles, Begin(h) PROVE RegionInv'
  <2>1. Alloc(h, next, Shared)
    BY <1>5 DEF Begin
  <2>2. /\ h \notin live /\ live' = live \cup {h} /\ ref'[h] = Shared
        /\ \A x \in live : x # h /\ ref'[x] = ref[x] /\ ref[x] # h
    BY <2>1, <1>0, NobodyRefersToFresh
  <2>3. /\ global' = h /\ held' = {} /\ lex' = {} /\ prevLex' = lex /\ queue' = queue
        /\ own' = {h} /\ dirty' = FALSE /\ wrote' = FALSE
    BY <1>5 DEF Begin
  <2>4. NoDangling' /\ SavedAreOlder'
    BY <2>2, <2>3, <1>2 DEF NoDangling, SavedAreOlder
  <2>5. DirtyIsExact'
    BY <2>3 DEF DirtyIsExact
  <2>6. RegionIsolated'
    BY <2>2, <2>3 DEF RegionIsolated
  <2> QED
    BY <2>4, <2>5, <2>6 DEF RegionInv
<1>6. CASE Collect
  <2> DEFINE roots == {Shared, global} \cup held \cup lex \cup queue
  <2>1. roots \in SUBSET Handles
    BY <1>1, <1>2
  <2>2. /\ roots \subseteq Marked
        /\ \A x \in Marked : ref[x] # Null => ref[x] \in Marked
    BY <2>1, <1>1, ReachIsClosure DEF Marked
  <2>3. /\ live' = live \cap Marked /\ own' = own \cap Marked /\ slipped' = slipped \cap Marked
        /\ \A x \in live' : ref'[x] = ref[x]
        /\ UNCHANGED <<mark, dirty, global, held, lex, prevLex, queue, wrote>>
        /\ prevLex \subseteq Marked
    BY <1>1, <1>6 DEF Collect
  <2>4. NoDangling' /\ SavedAreOlder'
    BY <2>2, <2>3, <1>2 DEF NoDangling, SavedAreOlder
  <2>5. DirtyIsExact'
    BY <2>3, <1>0 DEF DirtyIsExact, Running
  <2>6. RegionIsolated'
    <3> SUFFICES ASSUME Running', ~dirty', NEW x \in live' \ own', ref'[x] \in own' PROVE x \in slipped'
      BY DEF RegionIsolated
    <3>1. x \in live \ own /\ x \in Marked /\ ref'[x] = ref[x] /\ own' \subseteq own
      BY <2>3
    <3>2. ref[x] \in own => x \in slipped
      BY <3>1, <2>3, <1>0 DEF RegionIsolated, Running
    <3> QED
      BY <3>1, <3>2, <2>3
  <2> QED
    BY <2>4, <2>5, <2>6 DEF RegionInv
<1>7. ASSUME EndRun
      PROVE  /\ global' = Shared /\ held' = {} /\ lex' = prevLex /\ prevLex' = {} /\ queue' = queue
             /\ ~Running'
  BY <1>7 DEF EndRun, Running, Null
<1>8. CASE End
  <2>1. live' = live /\ ref' = ref
    BY <1>8 DEF End
  <2>2. NoDangling' /\ SavedAreOlder'
    BY <2>1, <1>2, <1>7, <1>8 DEF NoDangling, SavedAreOlder, End
  <2> QED
    BY <2>2, <1>7, <1>8 DEF RegionInv, RegionIsolated, DirtyIsExact, End
<1>9. CASE Release
  <2>1. Running /\ ~dirty /\ EndRun /\ lost' = lost \cup Dangling
    BY <1>9 DEF Release
  <2>2. /\ {h \in live : reborn[h] > 0} \cup {h \in live : h >= mark} = own
    BY <2>1, <1>0, GoneIsOwn
  <2>3. live' = live \ own /\ \A x \in live' : ref'[x] = ref[x]
    BY <2>2, <1>1, <1>9 DEF Release
  <2>4. queue \cap own = {} /\ \A x \in slipped : ref[x] \notin own
    BY <2>1 DEF Dangling
  <2>5. \A x \in live' : ref[x] \notin own
    BY <2>1, <2>3, <2>4, <1>0 DEF RegionIsolated
  <2>6. Shared \in live'
    BY PoolStep DEF PoolInv, SharedIsOld
  <2>7. NoDangling' /\ SavedAreOlder'
    BY <2>1, <2>3, <2>4, <2>5, <2>6, <1>2, <1>7 DEF NoDangling, SavedAreOlder
  <2> QED
    BY <2>1, <2>7, <1>7 DEF RegionInv, RegionIsolated, DirtyIsExact
<1>10. Access \subseteq live
  BY <1>0, AccessIsLive
<1>11. ASSUME NEW o \in Access, NEW v \in Access \cup {Null}, NEW k \in Kinds, Write(o, v, k)
       PROVE  RegionInv'
  <2>1. /\ o \in live /\ o \in Handles /\ v \in live \cup {Null} /\ k \in {"property", "slot"}
    BY <1>1, <1>10 DEF Kinds
  <2>2. /\ ref' = [ref EXCEPT ![o] = v]
        /\ UNCHANGED <<live, mark, global, held, lex, prevLex, queue, own>>
        /\ dirty' = (dirty \/ (k = "property" /\ OlderThanRun(o)))
        /\ wrote' = (wrote \/ (k = "property" /\ Running /\ o \notin own))
        /\ slipped' = slipped \cup {x \in {o} : k = "slot" /\ Running /\ o \notin own}
    BY <1>11 DEF Write, poolVars
  <2>3. OlderThanRun(o) <=> Running /\ o \notin own
    <3>1. CASE Running
      <4>1. o \in Int
        BY <2>1, InvocationAssumption DEF Handles
      <4>2. mark \in 0..(Cells + 1)
        BY <1>0 DEF TypeOK
      <4>3. mark \in Int
        BY <4>2, InvocationAssumption
      <4>4. own = {h \in live : h >= mark \/ h \in born}
        BY <3>1, <1>0 DEF OwnIsKnown
      <4> QED
        BY <3>1, <4>1, <4>3, <4>4, <2>1 DEF OlderThanRun
    <3>2. CASE ~Running
      BY <3>2 DEF OlderThanRun
    <3> QED
      BY <3>1, <3>2
  <2>4. \A x \in live : ref'[x] = IF x = o THEN v ELSE ref[x]
    BY <2>1, <2>2, <1>1
  <2>5. NoDangling' /\ SavedAreOlder'
    BY <2>1, <2>2, <2>4, <1>2 DEF NoDangling, SavedAreOlder
  <2>6. DirtyIsExact'
    <3>1. Running' <=> Running
      BY <2>2 DEF Running
    <3>2. Running => (dirty <=> wrote)
      BY <1>0 DEF DirtyIsExact
    <3>3. Running => (dirty' <=> wrote')
      BY <2>2, <2>3, <3>2
    <3> QED
      BY <3>1, <3>3 DEF DirtyIsExact
  <2>7. RegionIsolated'
    <3> SUFFICES ASSUME Running', ~dirty', NEW x \in live' \ own', ref'[x] \in own' PROVE x \in slipped'
      BY DEF RegionIsolated
    <3>1. Running /\ ~dirty /\ (o \in own \/ k = "slot") /\ x \in live \ own
      BY <2>1, <2>2, <2>3 DEF Running
    <3>2. CASE x = o
      BY <3>1, <3>2, <2>2
    <3>3. CASE x # o
      <4>1. ref[x] \in own
        BY <3>1, <3>3, <2>2, <2>4
      <4> QED
        BY <4>1, <3>1, <2>2, <1>0 DEF RegionIsolated
    <3> QED
      BY <3>2, <3>3
  <2> QED
    BY <2>5, <2>6, <2>7 DEF RegionInv
<1>12. ASSUME NEW h \in Handles, Drop(h) \/ RegisterGlobalLex(h) \/ Schedule(h) \/ RunJob(h)
       PROVE  RegionInv'
  <2>1. UNCHANGED <<live, ref, mark, dirty, global, prevLex, own, wrote, slipped>>
    BY <1>12 DEF Drop, RegisterGlobalLex, Schedule, RunJob, poolVars
  <2>2. held' \subseteq live /\ queue' \subseteq live /\ lex' \subseteq live
    BY <1>2, <1>10, <1>12 DEF Drop, RegisterGlobalLex, Schedule, RunJob
  <2> QED
    BY <2>1, <2>2, <1>0, <1>2
       DEF RegionInv, RegionIsolated, DirtyIsExact, NoDangling, SavedAreOlder, Running
<1>13. CASE UNCHANGED vars
  <2>1. UNCHANGED <<live, ref, mark, dirty, global, held, lex, prevLex, queue, own, wrote, slipped, lost>>
    BY <1>13 DEF vars, poolVars
  <2> QED
    BY <2>1, <1>0, <1>2
       DEF RegionInv, RegionIsolated, DirtyIsExact, NoDangling, SavedAreOlder, Running
<1> QED
  BY <1>4, <1>5, <1>6, <1>8, <1>9, <1>11, <1>12, <1>13 DEF Next, ReleaseDirty


-----------------------------------------------------------------------------
LEMMA InitPool == Init => PoolInv
<1> SUFFICES ASSUME Init PROVE PoolInv
  OBVIOUS
<1>1. Cells \in Nat \ {0} /\ MaxRuns \in Nat /\ Shared \in Handles /\ Shared = 1 /\ Null = 0
  BY InvocationAssumption DEF Handles, Shared, Null
<1>2. TypeOK
  <2>1. /\ next \in 1..(Cells + 1) /\ mark \in 0..(Cells + 1) /\ runs \in 0..MaxRuns
        /\ liveN \in Int
    BY <1>1 DEF Init
  <2>2. /\ freeList \in [Handles -> Nat] /\ reborn \in [Handles -> Nat]
        /\ ref \in [Handles -> Handles \cup {Null}]
    BY DEF Init
  <2>3. /\ live \subseteq Handles /\ global \in Handles
        /\ born = {} /\ held = {} /\ lex = {} /\ prevLex = {} /\ queue = {} /\ own = {}
    BY <1>1 DEF Init
  <2>4. dirty \in BOOLEAN /\ wrote \in BOOLEAN /\ slipped = {} /\ lost = {}
    BY DEF Init
  <2> QED
    BY <2>1, <2>2, <2>3, <2>4 DEF TypeOK
<1>3. Cardinality({Shared}) = 1
  BY FS_Singleton
<1>4. PoolSound
  BY <1>1, <1>3 DEF Init, PoolSound
<1> QED
  BY <1>1, <1>2, <1>4 DEF Init, PoolInv, OwnIsKnown, SharedIsOld, Running

LEMMA InitRegion == Init => RegionInv
BY InvocationAssumption
   DEF Init, RegionInv, RegionIsolated, DirtyIsExact, NoDangling, SavedAreOlder, Running, Handles,
       Shared, Null

(* The invariant of the pool holds in every reachable state, whatever        *)
(* scripts and hosts do.                                                     *)
THEOREM PoolInductive == Spec => []PoolInv
BY InitPool, PoolStep, PTL DEF Spec

(* The types of the pool and of the run's state. *)
THEOREM TypeCorrect == Spec => []TypeOK
<1>1. PoolInv => TypeOK
  BY DEF PoolInv
<1> QED
  BY PoolInductive, <1>1, PTL

(* No cell is handed out twice, and liveN counts the live ones, after any    *)
(* order of alloc, free, sweep and truncate.                                 *)
THEOREM Soundness == Spec => []PoolSound
<1>1. PoolInv => PoolSound
  BY DEF PoolInv
<1> QED
  BY PoolInductive, <1>1, PTL

(* The watermark and the born marks tell the run's objects from older ones.  *)
THEOREM Ownership == Spec => []OwnIsKnown
<1>1. PoolInv => OwnIsKnown
  BY DEF PoolInv
<1> QED
  BY PoolInductive, <1>1, PTL

(* Release of a clean run frees exactly what the run made. *)
THEOREM Reclamation == Spec => ReleaseFreesTheRun
<1>1. ASSUME PoolInv, Release PROVE live' = live \ own
  <2>1. Running /\ TypeOK /\ PoolSound /\ OwnIsKnown
    BY <1>1 DEF Release, PoolInv
  <2>2. {h \in live : reborn[h] > 0} \cup {h \in live : h >= mark} = own
    BY <2>1, GoneIsOwn
  <2> QED
    BY <2>2, <1>1 DEF Release
<1>2. PoolInv /\ [Next]_vars => [Release => live' = live \ own]_vars
  BY <1>1
<1> QED
  BY PoolInductive, <1>2, PTL DEF Spec, ReleaseFreesTheRun

(* Until something has been lost the dirty test is exact, the region of a    *)
(* clean run isolated, and whatever is referred to live.                     *)
THEOREM RegionInductive == Spec => []RegionInv
<1>1. Init => PoolInv /\ RegionInv
  BY InitPool, InitRegion
<1>2. PoolInv /\ RegionInv /\ [Next]_vars => (PoolInv /\ RegionInv)'
  BY PoolStep, RegionStep
<1> QED
  BY <1>1, <1>2, PTL DEF Spec

(* Nothing still referred to is freed, by any order of collections, releases *)
(* and rewinds, whatever scripts and hosts do, but in the three ways that    *)
(* lost records: a release with an older object's unseen store or a queued   *)
(* job referring into the run, a collection during a run that only a saved   *)
(* binding could have stopped.                                               *)
THEOREM MemorySafety == Spec => []NoDangling
<1>1. RegionInv => NoDangling
  BY DEF RegionInv
<1> QED
  BY RegionInductive, <1>1, PTL

(* The free list, the count and the marks are right in every state.          *)
THEOREM ExactPool == Spec => []PoolIsExact
<1>1. PoolSound /\ OwnIsKnown => PoolIsExact
  BY DEF PoolIsExact
<1> QED
  BY Soundness, Ownership, <1>1, PTL

(* noteSharedMutation reports a run exactly when it wrote a property of      *)
(* something older, and what refers into a clean run's region from outside   *)
(* was put there by a store that does not go through it, and by nothing else.*)
THEOREM ExactRegion == Spec => []RegionIsExact
<1>1. RegionInv => RegionIsExact
  BY DEF RegionInv, RegionIsExact
<1> QED
  BY RegionInductive, <1>1, PTL
=============================================================================
