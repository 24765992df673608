-------------------------- MODULE AtomicsWaitProofs --------------------------
(***************************************************************************)
(* Proofs about AtomicsWait, for any number of agents, cells, waits and    *)
(* ticks: a wait answers "ok" exactly when a notify counted it, notify     *)
(* wakes in order of arrival, an agent that runs out of work leaves no     *)
(* entry on the wait list, and no wakeup is lost but those that come while *)
(* a timeout is coerced.                                                   *)
(*                                                                         *)
(* The inductive invariant says where every entry of the wait list is: its *)
(* agent is blocked on it or has it among its pending promises, and it has *)
(* not been answered.                                                      *)
(***************************************************************************)
EXTENDS AtomicsWait, TLAPS, FiniteSetTheorems, FunctionTheorems

(* The agent has a wait under way, and is in it. *)
Busy == {"plan", "parked", "unpark", "service", "finish"}

Types ==
  /\ TypeOK /\ plan \in [Waiters -> Plans \cup {NoPlan}]

(* What an agent is doing, and what its locals say. *)
Control ==
  \A a \in Agents :
    /\ st[a] \in Busy => cur[a] >= 1 /\ cur[a] <= used[a]
    /\ a # Root /\ ~ At(a, "unborn") => started > 0
    /\ st[a] \in {"unpark", "finish"} /\ local[a] = "ok" => Current(a) \in woken
    /\ At(a, "plan") => /\ result[Current(a)] = "none"
                        /\ Current(a) \notin ToSet(waiters) /\ Current(a) \notin woken

(* A waiter that has left any trace has begun. *)
Begun ==
  \A w \in Waiters :
    \/ w \in ToSet(waiters) \/ w \in woken \/ w \in ToSet(asyncWaits[w[1]]) \/ result[w] # "none"
    => w[2] <= used[w[1]]

(* An agent's promises are its own. *)
Promises == \A a \in Agents : \A w \in ToSet(asyncWaits[a]) : w[1] = a

Answered ==
  \A w \in Waiters : result[w] # "none" => /\ w \notin ToSet(waiters)
                                           /\ result[w] = "ok" <=> w \in woken

Before(s, x, y) == \E i, j \in 1 .. Len(s) : i < j /\ s[i] = x /\ s[j] = y
Once(s) == \A i, j \in 1 .. Len(s) : s[i] = s[j] => i = j

(* No entry is on the list twice, and the woken are the oldest. *)
Ordered ==
  /\ Once(waiters)
  /\ \A x, y \in Waiters :
       Before(waiters, x, y) /\ plan[x].loc = plan[y].loc /\ y \in woken => x \in woken

(* An agent that has ended has no promise pending, unless its event loop was *)
(* cut short.                                                                *)
Ended == \A a \in Agents : At(a, "dead") /\ ~ CutShort(a) => ToSet(asyncWaits[a]) = {}

WaitInv == Types /\ Control /\ Begun /\ Promises /\ Owned /\ Answered /\ Ordered /\ Ended

(* No wakeup is lost on a wait that is on the list or was compared for it.   *)
Hearing ==
  /\ \A w \in ToSet(waiters) : Heard(w)
  /\ \A a \in Agents : At(a, "plan") => Heard(Current(a))

(* Where no timeout runs code, nobody else runs between comparison and list. *)
Undisturbed ==
  /\ \A w \in missed : w[1] \in program.coerces
  /\ \A a \in Agents \ program.coerces : At(a, "plan") => turn = a

-----------------------------------------------------------------------------
(* Lists *)

LEMMA ElementsOf ==
  ASSUME NEW S, NEW s \in Seq(S)
  PROVE  /\ Len(s) \in Nat /\ DOMAIN s = 1 .. Len(s)
         /\ ToSet(s) = {s[i] : i \in 1 .. Len(s)} /\ ToSet(s) \subseteq S
BY DEF ToSet

LEMMA AppendSet ==
  ASSUME NEW S, NEW s \in Seq(S), NEW z \in S
  PROVE  Append(s, z) \in Seq(S) /\ ToSet(Append(s, z)) = ToSet(s) \cup {z}
<1> DEFINE t == Append(s, z)
           n == Len(s)
<1>1. /\ n \in Nat /\ t \in Seq(S) /\ Len(t) = n + 1 /\ t[n + 1] = z
      /\ \A i \in 1 .. n : t[i] = s[i]
  OBVIOUS
<1>2. \A i \in 1 .. n + 1 : i \in 1 .. n \/ i = n + 1
  BY <1>1
<1>3. /\ ToSet(s) = {s[i] : i \in 1 .. n} /\ ToSet(t) = {t[i] : i \in 1 .. n + 1}
  BY <1>1 DEF ToSet
<1>4. n + 1 \in 1 .. n + 1 /\ \A i \in 1 .. n : i \in 1 .. n + 1
  BY <1>1
<1> HIDE DEF t
<1>5. \A x \in ToSet(t) : x \in ToSet(s) \cup {z}
  BY <1>1, <1>2, <1>3
<1>6. \A x \in ToSet(s) \cup {z} : x \in ToSet(t)
  BY <1>1, <1>3, <1>4
<1>7. ToSet(t) = ToSet(s) \cup {z}
  BY <1>5, <1>6
<1> QED
  BY <1>1, <1>7 DEF t

LEMMA AppendList ==
  ASSUME NEW S, NEW s \in Seq(S), NEW z \in S, z \notin ToSet(s)
  PROVE  /\ Once(s) => Once(Append(s, z))
         /\ \A x, y : Before(Append(s, z), x, y) => Before(s, x, y) \/ (x \in ToSet(s) /\ y = z)
<1> DEFINE t == Append(s, z)
           n == Len(s)
<1>1. /\ n \in Nat /\ t \in Seq(S) /\ Len(t) = n + 1 /\ t[n + 1] = z
      /\ \A i \in 1 .. n : t[i] = s[i]
  OBVIOUS
<1>2. \A i \in 1 .. n + 1 : i \in 1 .. n \/ i = n + 1
  BY <1>1
<1>3. /\ ToSet(s) = {s[i] : i \in 1 .. n} /\ ToSet(t) = {t[i] : i \in 1 .. n + 1}
  BY <1>1 DEF ToSet
<1> HIDE DEF t
<1>5. Once(s) => Once(t)
  <2> SUFFICES ASSUME Once(s), NEW i \in 1 .. n + 1, NEW j \in 1 .. n + 1, t[i] = t[j] PROVE i = j
    BY <1>1 DEF Once
  <2>1. \A k \in 1 .. n : t[k] \in ToSet(s)
    BY <1>1, <1>3
  <2> QED
    BY <1>1, <1>2, <2>1 DEF Once
<1>6. ASSUME NEW x, NEW y, Before(t, x, y) PROVE Before(s, x, y) \/ (x \in ToSet(s) /\ y = z)
  <2>1. PICK i \in 1 .. n + 1, j \in 1 .. n + 1 : i < j /\ t[i] = x /\ t[j] = y
    BY <1>1, <1>6 DEF Before
  <2>2. i \in 1 .. n
    BY <1>1, <1>2, <2>1
  <2>3. CASE j = n + 1
    BY <1>1, <1>3, <2>1, <2>2, <2>3
  <2>4. CASE j \in 1 .. n
    BY <1>1, <2>1, <2>2, <2>4 DEF Before
  <2> QED
    BY <1>2, <2>3, <2>4
<1> QED
  BY <1>5, <1>6 DEF t

(* Every place has a rank of its own, and every rank up to their number is a *)
(* place's.                                                                  *)
LEMMA Ranks ==
  ASSUME NEW n \in Nat, NEW I \in SUBSET (1..n)
  PROVE  /\ Cardinality(I) \in Nat /\ Cardinality(I) <= n
         /\ \A i \in I : Rank(i, I) \in 1..Cardinality(I)
         /\ \A i, j \in I : i < j => Rank(i, I) < Rank(j, I)
         /\ \A k \in 1..Cardinality(I) : \E i \in I : Rank(i, I) = k
<1> DEFINE Upto(i) == {j \in I : j <= i}
           c == Cardinality(I)
           f == [i \in I |-> Rank(i, I)]
<1>1. /\ IsFiniteSet(I) /\ c \in Nat /\ c <= n
      /\ \A J \in SUBSET I : IsFiniteSet(J) /\ Cardinality(J) \in Nat /\ Cardinality(J) <= c
                             /\ (Cardinality(J) = c => J = I) /\ (J # {} => Cardinality(J) # 0)
  <2>1. IsFiniteSet(1..n) /\ Cardinality(1..n) = n
    BY FS_Interval, SMT
  <2>2. IsFiniteSet(I) /\ c \in Nat /\ c <= n
    BY <2>1, FS_Subset, FS_CardinalityType
  <2> QED
    BY <2>2, FS_Subset, FS_CardinalityType, FS_EmptySet
<1>2. \A i \in I : i \in Int /\ i \in Upto(i) /\ Upto(i) \in SUBSET I
  OBVIOUS
<1> HIDE DEF c
<1>3. \A i \in I : Rank(i, I) \in 1..c
  BY <1>1, <1>2 DEF Rank
<1>4. ASSUME NEW i \in I, NEW j \in I, i < j
      PROVE  Rank(i, I) < Rank(j, I)
  <2>0. i \in Int /\ j \in Int /\ ~(j <= i) /\ \A k \in I : k <= i => k <= j
    BY <1>2, <1>4
  <2>1. Upto(i) \in SUBSET Upto(j) /\ j \notin Upto(i) /\ j \in Upto(j)
    BY <1>2, <2>0
  <2>2. IsFiniteSet(Upto(j)) /\ Cardinality(Upto(i)) <= Cardinality(Upto(j))
        /\ Cardinality(Upto(i)) # Cardinality(Upto(j))
    BY <1>1, <1>2, <2>1, FS_Subset
  <2> QED
    BY <1>1, <1>2, <2>2 DEF Rank
<1>5. \A i, j \in I : f[i] = f[j] => i = j
  BY <1>2, <1>3, <1>4
<1>6. f \in Injection(I, 1..c)
  BY <1>3, <1>5, Fun_IsInj
<1>7. IsFiniteSet(1..c) /\ Cardinality(1..c) = c
  BY <1>1, FS_Interval, SMT
<1>8. f \in Surjection(I, 1..c)
  BY <1>6, <1>7, FS_Injection DEF c
<1>9. \A k \in 1..c : \E i \in I : f[i] = k
  BY <1>8 DEF Surjection
<1> QED
  BY <1>1, <1>3, <1>4, <1>9 DEF c

(* What Kept keeps: a list no longer than s whose elements are those of s    *)
(* that are in K, each from a place of its own, in the order of s.           *)
LEMMA KeptProperties ==
  ASSUME NEW S, NEW s \in Seq(S), NEW K
  PROVE  /\ Kept(s, K) \in Seq(S)
         /\ Len(Kept(s, K)) <= Len(s)
         /\ \E f \in [1..Len(Kept(s, K)) -> Places(s, K)] :
              /\ \A k \in 1..Len(Kept(s, K)) : Kept(s, K)[k] = s[f[k]]
              /\ \A k, l \in 1..Len(Kept(s, K)) : k < l => f[k] < f[l]
              /\ \A i \in Places(s, K) : \E k \in 1..Len(Kept(s, K)) : f[k] = i
<1> DEFINE I == Places(s, K)
           c == Cardinality(I)
           f == [k \in 1..c |-> CHOOSE i \in I : Rank(i, I) = k]
<1>1. I \in SUBSET (1..Len(s)) /\ Len(s) \in Nat
  BY DEF Places
<1>2. c \in Nat /\ c <= Len(s)
  BY <1>1, Ranks
<1>3. \A k \in 1..c : f[k] \in I /\ Rank(f[k], I) = k
  BY <1>1, Ranks
<1>4. f \in [1..c -> I]
  BY <1>3
<1>5. Kept(s, K) = [k \in 1..c |-> s[f[k]]]
  BY DEF Kept
<1>6. \A i \in I : s[i] \in S
  BY <1>1
<1> HIDE DEF I, c, f
<1>7. Kept(s, K) \in Seq(S) /\ Len(Kept(s, K)) = c
  <2>1. [k \in 1..c |-> s[f[k]]] \in [1..c -> S]
    BY <1>4, <1>6
  <2> QED
    BY <1>2, <1>5, <2>1
<1>8. ASSUME NEW k \in 1..c, NEW l \in 1..c, k < l
      PROVE  f[k] < f[l]
  <2>1. f[k] \in 1..Len(s) /\ f[l] \in 1..Len(s) /\ f[k] \in I /\ f[l] \in I
    BY <1>1, <1>3
  <2>2. f[l] < f[k] => Rank(f[l], I) < Rank(f[k], I)
    BY <2>1, <1>1, Ranks
  <2> QED
    BY <2>1, <2>2, <1>2, <1>3, <1>8
<1>9. ASSUME NEW i \in I
      PROVE  \E k \in 1..c : f[k] = i
  <2> DEFINE k == Rank(i, I)
  <2>1. k \in 1..c
    BY <1>1, Ranks DEF c
  <2>2. f[k] \in I /\ Rank(f[k], I) = k /\ f[k] \in 1..Len(s) /\ i \in 1..Len(s)
    BY <2>1, <1>1, <1>3
  <2>3. ~(Rank(i, I) < Rank(i, I)) /\ Rank(f[k], I) = Rank(i, I)
    BY <2>1, <2>2, <1>2
  <2>4. ~(f[k] < i) /\ ~(i < f[k])
    BY <2>2, <2>3, <1>1, Ranks
  <2> QED
    BY <2>1, <2>2, <2>4
<1> QED
  BY <1>1, <1>2, <1>4, <1>5, <1>7, <1>8, <1>9 DEF I

(* The elements of Kept, as a set. *)
LEMMA KeptElements ==
  ASSUME NEW S, NEW s \in Seq(S), NEW K
  PROVE  {Kept(s, K)[k] : k \in DOMAIN Kept(s, K)} = {s[i] : i \in DOMAIN s} \cap K
<1>1. PICK f \in [1..Len(Kept(s, K)) -> Places(s, K)] :
              /\ \A k \in 1..Len(Kept(s, K)) : Kept(s, K)[k] = s[f[k]]
              /\ \A i \in Places(s, K) : \E k \in 1..Len(Kept(s, K)) : f[k] = i
  BY KeptProperties
<1>2. DOMAIN Kept(s, K) = 1..Len(Kept(s, K))
  BY KeptProperties
<1> QED
  BY <1>1, <1>2 DEF Places

LEMMA KeptList ==
  ASSUME NEW S, NEW s \in Seq(S), NEW K
  PROVE  /\ Kept(s, K) \in Seq(S) /\ ToSet(Kept(s, K)) = ToSet(s) \cap K
         /\ Once(s) => Once(Kept(s, K))
         /\ \A x, y : Before(Kept(s, K), x, y) => Before(s, x, y)
<1> DEFINE t == Kept(s, K)
           c == Len(t)
<1>1. t \in Seq(S) /\ c \in Nat /\ Len(s) \in Nat /\ DOMAIN s = 1 .. Len(s)
  BY KeptProperties
<1>2. PICK f \in [1 .. c -> Places(s, K)] :
             /\ \A k \in 1 .. c : t[k] = s[f[k]]
             /\ \A k, l \in 1 .. c : k < l => f[k] < f[l]
  BY KeptProperties
<1>3. ToSet(t) = ToSet(s) \cap K
  BY KeptElements DEF ToSet
<1> HIDE DEF t
<1>4. \A k \in 1 .. c : f[k] \in 1 .. Len(s)
  BY <1>1, <1>2 DEF Places
<1>5. Once(s) => Once(t)
  <2> SUFFICES ASSUME Once(s), NEW k \in 1 .. c, NEW l \in 1 .. c, t[k] = t[l] PROVE k = l
    BY DEF Once
  <2>1. f[k] = f[l]
    BY <1>2, <1>4 DEF Once
  <2>2. ~ (k < l) /\ ~ (l < k)
    BY <1>2, <1>4, <2>1
  <2> QED
    BY <1>1, <2>2
<1>6. ASSUME NEW x, NEW y, Before(t, x, y) PROVE Before(s, x, y)
  <2>1. PICK k \in 1 .. c, l \in 1 .. c : k < l /\ t[k] = x /\ t[l] = y
    BY <1>6 DEF Before
  <2>2. f[k] < f[l] /\ s[f[k]] = x /\ s[f[l]] = y
    BY <1>2, <2>1
  <2> QED
    BY <1>4, <2>2 DEF Before
<1> QED
  BY <1>1, <1>3, <1>5, <1>6 DEF t

(* The first m of the entries in K. *)
LEMMA FirstOfKept ==
  ASSUME NEW S, NEW s \in Seq(S), NEW K, Once(s), NEW m \in 0 .. Len(Kept(s, K))
  PROVE  LET N == ToSet(SubSeq(Kept(s, K), 1, m))
         IN  /\ N \subseteq ToSet(s) \cap K
             /\ \A x, y : Before(s, x, y) /\ x \in K /\ y \in N => x \in N
             /\ m = Len(Kept(s, K)) => N = ToSet(s) \cap K
<1> DEFINE t == Kept(s, K)
           c == Len(t)
           u == SubSeq(t, 1, m)
           N == ToSet(u)
<1>1. t \in Seq(S) /\ c \in Nat /\ Len(s) \in Nat /\ DOMAIN s = 1 .. Len(s)
  BY KeptProperties
<1>2. PICK f \in [1 .. c -> Places(s, K)] :
             /\ \A k \in 1 .. c : t[k] = s[f[k]]
             /\ \A k, l \in 1 .. c : k < l => f[k] < f[l]
             /\ \A i \in Places(s, K) : \E k \in 1 .. c : f[k] = i
  BY KeptProperties
<1>3. ToSet(t) = ToSet(s) \cap K /\ ToSet(t) = {t[k] : k \in 1 .. c}
  <2>1. ToSet(t) = ToSet(s) \cap K
    BY KeptList
  <2>2. ToSet(t) = {t[k] : k \in 1 .. c}
    BY <1>1, ElementsOf
  <2> QED
    BY <2>1, <2>2
<1> HIDE DEF t
<1>4. \A k \in 1 .. c : f[k] \in 1 .. Len(s)
  BY <1>1, <1>2 DEF Places
<1>5. m \in Nat /\ m <= c
  BY <1>1 DEF t
<1>6. Len(u) = m /\ DOMAIN u = 1 .. m /\ \A k \in 1 .. m : u[k] = t[k]
  <2>1. \A k \in 1 .. m : k \in 1 .. c
    BY <1>1, <1>5
  <2>2. \A k \in 1 .. m : 1 + k - 1 = k
    BY <1>5
  <2>3. Len(u) = m /\ DOMAIN u = 1 .. m
    BY <1>1, <1>5
  <2> QED
    BY <1>1, <1>5, <2>1, <2>2, <2>3
<1> HIDE DEF u
<1>7. N = {t[k] : k \in 1 .. m}
  BY <1>6 DEF ToSet
<1>8. N \subseteq ToSet(s) \cap K
  BY <1>1, <1>3, <1>5, <1>7
<1>9. ASSUME NEW x, NEW y, Before(s, x, y), x \in K, y \in N PROVE x \in N
  <2>1. PICK i \in 1 .. Len(s), j \in 1 .. Len(s) : i < j /\ s[i] = x /\ s[j] = y
    BY <1>9 DEF Before
  <2>2. PICK l \in 1 .. m : t[l] = y
    BY <1>7, <1>9
  <2>3. l \in 1 .. c /\ f[l] = j
    BY <1>1, <1>2, <1>4, <1>5, <2>1, <2>2 DEF Once
  <2>4. i \in Places(s, K)
    BY <1>1, <1>9, <2>1 DEF Places
  <2>5. PICK k \in 1 .. c : f[k] = i
    BY <1>2, <2>4
  <2>6. k < l
    <3>1. ~ (l < k)
      BY <1>2, <2>1, <2>3, <2>5
    <3>2. k # l
      BY <2>1, <2>3, <2>5
    <3> QED
      BY <1>1, <3>1, <3>2, <2>3
  <2>7. k \in 1 .. m /\ t[k] = x
    BY <1>1, <1>2, <1>5, <2>1, <2>5, <2>6
  <2> QED
    BY <1>7, <2>7
<1>10. m = c => N = ToSet(s) \cap K
  BY <1>3, <1>7
<1> QED
  BY <1>8, <1>9, <1>10 DEF t, u

(* The wait list is no longer than there are waiters. *)
LEMMA ListIsShort ==
  ASSUME NEW s \in Seq(Waiters), Once(s)
  PROVE  Len(s) <= MaxWaiters /\ MaxWaiters \in Nat
<1> DEFINE n == Len(s)
<1>1. IsFiniteSet(Agents) /\ IsFiniteSet(1 .. MaxWaits) /\ Cardinality(1 .. MaxWaits) = MaxWaits /\ MaxWaits \in Nat
  <2>1. MaxWaits \in Nat /\ IsFiniteSet(Agents)
    BY ShapeAssumption
  <2>2. 1 \in Int /\ MaxWaits \in Int
    BY <2>1
  <2>3. IsFiniteSet(1 .. MaxWaits) /\ Cardinality(1 .. MaxWaits) = IF 1 > MaxWaits THEN 0 ELSE MaxWaits - 1 + 1
    BY <2>2, FS_Interval
  <2> QED
    BY <2>1, <2>3
<1>2. IsFiniteSet(Waiters) /\ Cardinality(Waiters) = MaxWaiters
  BY <1>1, FS_Product DEF Waiters, MaxWaiters
<1>3. n \in Nat /\ IsFiniteSet(1 .. n) /\ Cardinality(1 .. n) = n
  <2>1. n \in Nat /\ n \in Int /\ 1 \in Int
    OBVIOUS
  <2>2. IsFiniteSet(1 .. n) /\ Cardinality(1 .. n) = IF 1 > n THEN 0 ELSE n - 1 + 1
    BY <2>1, FS_Interval
  <2> QED
    BY <2>1, <2>2
<1>4. s \in Injection(1 .. n, Waiters)
  <2>1. s \in [1 .. n -> Waiters]
    OBVIOUS
  <2> QED
    BY <2>1 DEF Once, Injection, IsInjective
<1>5. Cardinality(1 .. n) <= Cardinality(Waiters)
  BY <1>2, <1>4, FS_Injection DEF ExistsInjection
<1> QED
  BY <1>2, <1>3, <1>5, FS_CardinalityType

-----------------------------------------------------------------------------
(* The first state *)

LEMMA WaitInit == Init => WaitInv
<1> SUFFICES ASSUME Init PROVE WaitInv
  OBVIOUS
<1>1. /\ ToSet(waiters) = {} /\ Len(waiters) = 0 /\ woken = {}
      /\ \A a \in Agents : ToSet(asyncWaits[a]) = {} /\ (a # Root => st[a] = "unborn")
      /\ \A w \in Waiters : result[w] = "none"
      /\ st[Root] = "run"
  BY ShapeAssumption DEF Init, ToSet
<1>2. \A a \in Agents : st[a] \notin Busy
  BY <1>1 DEF Busy
<1>3. Types
  <2> USE DEF Init
  <2>1. turn \in Agents \cup {Nobody} /\ line \in Seq(Agents) /\ mem \in [Locs -> {0, 1}]
    BY ShapeAssumption
  <2>2. waiters \in Seq(Waiters) /\ woken \subseteq Waiters /\ started \in 0 .. MaxAgents
    BY ShapeAssumption
  <2>3. st \in [Agents -> States] /\ ret \in [Agents -> {"loop", "pick"}]
    BY DEF States
  <2>4. cur \in [Agents -> 0 .. MaxWaits] /\ used \in [Agents -> 0 .. MaxWaits]
    BY ShapeAssumption
  <2>5. plan \in [Waiters -> Plans \cup {NoPlan}]
    OBVIOUS
  <2>6. deadline \in [Waiters -> 0 .. Forever] /\ now \in 0 .. MaxTime
    BY ShapeAssumption DEF Forever
  <2>7. /\ local \in [Agents -> {"ok", "timed-out"}] /\ asyncWaits \in [Agents -> Seq(Waiters)]
        /\ result \in [Waiters -> {"none", "ok", "timed-out"}] /\ owed \subseteq Locs /\ missed \subseteq Waiters
    OBVIOUS
  <2>8. LoopTypes
    BY ShapeAssumption DEF LoopTypes
  <2> QED
    BY <2>1, <2>2, <2>3, <2>4, <2>5, <2>6, <2>7, <2>8 DEF Types, TypeOK
<1>4. Control
  BY <1>1, <1>2 DEF Control, Busy, At
<1>5. Begun /\ Promises /\ Owned /\ Answered
  <2>1. \A w \in Waiters : w[1] \in Agents
    BY DEF Waiters
  <2> QED
    BY <1>1, <2>1 DEF Begun, Promises, Owned, Answered
<1>6. Ordered
  BY <1>1 DEF Ordered, Once, Before
<1>7. Ended
  BY <1>1 DEF Ended
<1> QED
  BY <1>3, <1>4, <1>5, <1>6, <1>7 DEF WaitInv

-----------------------------------------------------------------------------
(* Facts about one state *)

LEMMA WaiterParts ==
  /\ \A w \in Waiters : w[1] \in Agents /\ w[2] \in 1 .. MaxWaits /\ w = <<w[1], w[2]>>
  /\ \A a \in Agents, n \in 1 .. MaxWaits : <<a, n>> \in Waiters /\ <<a, n>>[1] = a /\ <<a, n>>[2] = n
BY DEF Waiters

(* The parts of the types that steps need. *)
LEMMA TypeParts ==
  ASSUME Types
  PROVE  /\ waiters \in Seq(Waiters) /\ woken \subseteq Waiters
         /\ st \in [Agents -> States] /\ cur \in [Agents -> 0 .. MaxWaits] /\ used \in [Agents -> 0 .. MaxWaits]
         /\ plan \in [Waiters -> Plans \cup {NoPlan}] /\ local \in [Agents -> {"ok", "timed-out"}]
         /\ asyncWaits \in [Agents -> Seq(Waiters)] /\ result \in [Waiters -> {"none", "ok", "timed-out"}]
         /\ ToSet(waiters) \subseteq Waiters /\ \A a \in Agents : ToSet(asyncWaits[a]) \subseteq Waiters
         /\ MaxWaits \in Nat /\ started \in Nat
         /\ exiting \in [Agents -> BOOLEAN] /\ fired \in [Agents -> 0 .. MaxMacrotasks]
<1>1. /\ waiters \in Seq(Waiters) /\ woken \subseteq Waiters
      /\ st \in [Agents -> States] /\ cur \in [Agents -> 0 .. MaxWaits] /\ used \in [Agents -> 0 .. MaxWaits]
      /\ plan \in [Waiters -> Plans \cup {NoPlan}] /\ local \in [Agents -> {"ok", "timed-out"}]
      /\ asyncWaits \in [Agents -> Seq(Waiters)] /\ result \in [Waiters -> {"none", "ok", "timed-out"}]
      /\ started \in 0 .. MaxAgents
      /\ exiting \in [Agents -> BOOLEAN] /\ fired \in [Agents -> 0 .. MaxMacrotasks]
  BY DEF Types, TypeOK, LoopTypes
<1>2. ToSet(waiters) \subseteq Waiters
  BY <1>1, ElementsOf
<1>3. ASSUME NEW a \in Agents PROVE ToSet(asyncWaits[a]) \subseteq Waiters
  <2>1. asyncWaits[a] \in Seq(Waiters)
    BY <1>1
  <2> QED
    BY <2>1, ElementsOf
<1> QED
  BY <1>1, <1>2, <1>3, ShapeAssumption

(* The wait an agent is in. *)
LEMMA CurrentIs ==
  ASSUME Types, Control, NEW a \in Agents, st[a] \in Busy
  PROVE  /\ Current(a) \in Waiters /\ Current(a) = <<a, cur[a]>> /\ cur[a] \in 1 .. MaxWaits /\ cur[a] <= used[a]
         /\ Current(a)[1] = a /\ Current(a)[2] = cur[a]
<1>1. cur[a] >= 1 /\ cur[a] <= used[a] /\ cur[a] \in 0 .. MaxWaits /\ MaxWaits \in Nat
  BY TypeParts DEF Control
<1>2. cur[a] \in 1 .. MaxWaits
  BY <1>1
<1> QED
  BY <1>1, <1>2, WaiterParts DEF Current

(* The turn keeps its types. *)
LEMMA TurnTypes ==
  ASSUME Types, NEW a \in Agents,
         \/ Turn!Ask(a) \/ Turn!Pass \/ KeepTurn
         \/ line # <<>> /\ turn' = Head(line) /\ line' = Append(Tail(line), a)
  PROVE  turn' \in Agents \cup {Nobody} /\ line' \in Seq(Agents)
<1>1. turn \in Agents \cup {Nobody} /\ line \in Seq(Agents)
  BY DEF Types, TypeOK, LoopTypes
<1>2. CASE Turn!Ask(a)
  BY <1>1, <1>2 DEF Turn!Ask
<1>3. CASE Turn!Pass
  BY <1>1, <1>3 DEF Turn!Pass
<1>4. CASE KeepTurn
  BY <1>1, <1>4 DEF KeepTurn
<1>5. CASE line # <<>> /\ turn' = Head(line) /\ line' = Append(Tail(line), a)
  <2>1. Head(line) \in Agents /\ Tail(line) \in Seq(Agents)
    BY <1>1, <1>5
  <2> QED
    BY <1>5, <2>1
<1> QED
  BY <1>2, <1>3, <1>4, <1>5

(* Steps that change neither the wait list nor a wait. *)
Quiet ==
  /\ waiters' = waiters /\ woken' = woken /\ asyncWaits' = asyncWaits /\ result' = result
  /\ plan' = plan /\ used' = used /\ cur' = cur /\ local' = local /\ deadline' = deadline
  /\ started' \in 0 .. MaxAgents /\ started' >= started /\ missed' = missed /\ LoopTypes'
  /\ \A b \in Agents : At(b, "dead") => exiting'[b] = exiting[b] /\ fired'[b] = fired[b]
  /\ \/ st' = st
     \/ \E b \in Agents, x \in States \ Busy :
          /\ st[b] \notin Blocking /\ st' = [st EXCEPT ![b] = x] /\ (b # Root => started' > 0)
          /\ x = "dead" => ToSet(asyncWaits[b]) = {} \/ CutShort(b)'

LEMMA QuietKeeps ==
  ASSUME WaitInv, Quiet, turn' \in Agents \cup {Nobody}, line' \in Seq(Agents), mem' \in [Locs -> {0, 1}],
         ret' \in [Agents -> {"loop", "pick"}], owed' \subseteq Locs, now' \in 0 .. MaxTime
  PROVE  WaitInv'
<1>1. /\ waiters' = waiters /\ woken' = woken /\ asyncWaits' = asyncWaits /\ result' = result
      /\ plan' = plan /\ used' = used /\ cur' = cur /\ local' = local /\ deadline' = deadline
      /\ started' \in 0 .. MaxAgents /\ started' >= started /\ missed' = missed /\ LoopTypes'
      /\ \A b \in Agents : At(b, "dead") => exiting'[b] = exiting[b] /\ fired'[b] = fired[b]
  BY DEF Quiet
<1>2. Types /\ Control /\ Begun /\ Promises /\ Owned /\ Answered /\ Ordered /\ Ended
  BY DEF WaitInv
<1>3. st' \in [Agents -> States]
  BY <1>2, TypeParts DEF Quiet
<1>4. Types'
  <2>1. TypeOK /\ plan \in [Waiters -> Plans \cup {NoPlan}]
    BY <1>2 DEF Types
  <2> QED
    BY <1>1, <1>3, <2>1 DEF Types, TypeOK, LoopTypes
<1>5. \A a \in Agents : /\ st'[a] \in Busy => st'[a] = st[a]
                        /\ st[a] \in Blocking => st'[a] = st[a]
                        /\ a # Root /\ st'[a] # "unborn" => started' > 0
  <2>1. \A a \in Agents : a # Root /\ st[a] # "unborn" => started > 0
    BY <1>2 DEF Control, At
  <2>2. started \in Nat /\ started' \in Nat
    BY <1>1, <1>2, TypeParts, ShapeAssumption
  <2>3. CASE st' = st
    BY <1>1, <2>1, <2>2, <2>3
  <2>4. ASSUME NEW b \in Agents, NEW x \in States \ Busy, st[b] \notin Blocking,
               st' = [st EXCEPT ![b] = x], b # Root => started' > 0
        PROVE  \A a \in Agents : /\ st'[a] \in Busy => st'[a] = st[a]
                                 /\ st[a] \in Blocking => st'[a] = st[a]
                                 /\ a # Root /\ st'[a] # "unborn" => started' > 0
    BY <1>1, <1>2, <2>1, <2>2, <2>4, TypeParts
  <2> QED
    BY <2>3, <2>4 DEF Quiet
<1>6. Control'
  BY <1>1, <1>2, <1>5 DEF Control, At, Current, Busy
<1>7. Begun' /\ Promises' /\ Answered' /\ Ordered'
  BY <1>1, <1>2 DEF Begun, Promises, Answered, Ordered
<1>8. Owned'
  <2>1. \A w \in ToSet(waiters) : w[1] \in Agents
    BY <1>2, TypeParts, WaiterParts
  <2> QED
    BY <1>1, <1>2, <1>5, <2>1 DEF Owned, Tended, Current
<1>9. Ended'
  <2>1. CASE st' = st
    BY <1>1, <1>2, <2>1 DEF Ended, At, CutShort
  <2>2. CASE st' # st
    BY <1>1, <1>2, <2>2, TypeParts DEF Ended, At, CutShort, Quiet
  <2> QED
    BY <2>1, <2>2
<1> QED
  BY <1>4, <1>6, <1>7, <1>8, <1>9 DEF WaitInv

LEMMA QuietSteps ==
  ASSUME WaitInv, NEW a \in Agents,
         \/ Tick \/ RunScript \/ UNCHANGED vars \/ Preempt(a) \/ Enter(a) \/ Start(a) \/ ScriptEnd(a)
         \/ LoopEnd(a) \/ LoopCapped(a) \/ LoopExits(a) \/ FireTimer(a) \/ Exit(a)
         \/ \E l \in Locs : Store(a, l)
         \/ \E t \in {"none", "once", "interval"} : SetTimer(a, t)
  PROVE  WaitInv'
<1> USE DEF At, Does, Runs, Goto, KeepTurn, waitVars
<1>1. Types /\ Control /\ TypeOK /\ started \in 0 .. MaxAgents /\ started \in Nat /\ MaxAgents \in Nat
  <2>1. Types /\ Control /\ TypeOK /\ started \in 0 .. MaxAgents /\ MaxAgents \in Nat
    BY ShapeAssumption DEF WaitInv, Types, TypeOK
  <2> QED
    BY <2>1
<1>0. started >= started
  BY <1>1
<1>2. /\ turn \in Agents \cup {Nobody} /\ line \in Seq(Agents) /\ mem \in [Locs -> {0, 1}]
      /\ ret \in [Agents -> {"loop", "pick"}] /\ owed \subseteq Locs /\ now \in 0 .. MaxTime
      /\ st \in [Agents -> States] /\ MaxTime \in Nat
  BY <1>1, ShapeAssumption DEF TypeOK
<1>3. \A b \in Agents : b # Root /\ st[b] # "unborn" => started > 0
  BY <1>1 DEF Control
<1>15. /\ timer \in [Agents -> {"none", "once", "interval"}] /\ exiting \in [Agents -> BOOLEAN]
       /\ fired \in [Agents -> 0 .. MaxMacrotasks] /\ MaxMacrotasks \in Nat /\ program \in Programs
  BY <1>1, ShapeAssumption DEF TypeOK, LoopTypes
<1>16. LoopTypes
  BY <1>1 DEF TypeOK
<1>17. UNCHANGED loopVars => /\ LoopTypes' /\ exiting' = exiting /\ fired' = fired
                             /\ \A b \in Agents : st[b] = "dead" => exiting'[b] = exiting[b] /\ fired'[b] = fired[b]
  BY <1>16 DEF LoopTypes, loopVars
<1>4. {"born", "run", "loop", "pick", "idle", "dead"} \subseteq States \ Busy
  BY DEF States, Busy
<1>5. {"unborn", "born", "run", "loop", "pick", "idle"} \cap Blocking = {}
  BY DEF Blocking
<1>6. CASE UNCHANGED vars
  <2>1. Quiet
    BY <1>1, <1>6, <1>17 DEF vars, loopVars, Quiet
  <2> QED
    BY <1>2, <1>6, <2>1, QuietKeeps DEF vars
<1>7. CASE Tick
  <2>1. Quiet
    BY <1>1, <1>7, <1>17 DEF Tick, Quiet
  <2>2. now' \in 0 .. MaxTime
    BY <1>2, <1>7 DEF Tick
  <2> QED
    BY <1>2, <1>7, <2>1, <2>2, QuietKeeps DEF Tick
<1>8. CASE RunScript
  <2>1. Quiet
    <3>1. st[Root] \notin Blocking /\ st' = [st EXCEPT ![Root] = "run"] /\ Root \in Agents
      BY <1>5, <1>8, ShapeAssumption DEF RunScript
    <3>2. fired' = [fired EXCEPT ![Root] = 0] /\ timer' = timer /\ exiting' = exiting /\ st[Root] = "idle"
          /\ program' = program
      BY <1>8 DEF RunScript
    <3>3. LoopTypes' /\ \A b \in Agents : st[b] = "dead" => exiting'[b] = exiting[b] /\ fired'[b] = fired[b]
      BY <1>15, <3>1, <3>2 DEF LoopTypes
    <3> QED
      BY <1>0, <1>1, <1>4, <1>8, <3>1, <3>3, Zenon DEF RunScript, Quiet
  <2> QED
    BY <1>2, <1>8, <2>1, QuietKeeps DEF RunScript
<1>9. CASE Preempt(a)
  <2>1. Quiet
    BY <1>1, <1>9, <1>17 DEF Preempt, Quiet
  <2>2. turn' \in Agents \cup {Nobody} /\ line' \in Seq(Agents)
    BY <1>1, <1>9, TurnTypes DEF Preempt
  <2> QED
    BY <1>2, <1>9, <2>1, <2>2, QuietKeeps DEF Preempt
<1>10. CASE Enter(a)
  <2>1. Quiet
    <3>1. st[a] \notin Blocking /\ st' = [st EXCEPT ![a] = "run"] /\ (a # Root => started > 0) /\ started' = started
      BY <1>3, <1>5, <1>10 DEF Enter
    <3> QED
      BY <1>0, <1>1, <1>4, <1>10, <1>17, <3>1, Zenon DEF Enter, Quiet
  <2>2. turn' \in Agents \cup {Nobody} /\ line' \in Seq(Agents)
    BY <1>1, <1>10, TurnTypes DEF Enter
  <2> QED
    BY <1>2, <1>10, <2>1, <2>2, QuietKeeps DEF Enter
<1>11. CASE Start(a)
  <2>1. started' \in 0 .. MaxAgents /\ started' >= started /\ started' > 0
    BY <1>1, <1>11 DEF Start
  <2>2. Quiet
    <3>1. st[a] \notin Blocking /\ st' = [st EXCEPT ![a] = "born"]
      BY <1>5, <1>11 DEF Start
    <3> QED
      BY <1>1, <1>4, <1>11, <1>17, <2>1, <3>1 DEF Start, Quiet
  <2> QED
    BY <1>2, <1>11, <2>2, QuietKeeps DEF Start
<1>12. CASE ScriptEnd(a)
  <2>1. Quiet
    <3>1. st[a] \notin Blocking /\ st' = [st EXCEPT ![a] = ret[a]] /\ (a # Root => started > 0) /\ started' = started
      BY <1>3, <1>5, <1>12 DEF ScriptEnd
    <3>2. ret[a] \in States \ Busy /\ ret[a] # "dead"
      BY <1>2, <1>4
    <3> QED
      BY <1>0, <1>1, <1>12, <1>17, <3>1, <3>2, Zenon DEF ScriptEnd, Quiet
  <2>2. ret' \in [Agents -> {"loop", "pick"}]
    BY <1>2, <1>12 DEF ScriptEnd
  <2> QED
    BY <1>2, <1>12, <2>1, <2>2, QuietKeeps DEF ScriptEnd
<1>13. ASSUME NEW l \in Locs, Store(a, l) PROVE WaitInv'
  <2>1. Quiet
    BY <1>1, <1>13, <1>17 DEF Store, Quiet
  <2>2. mem' \in [Locs -> {0, 1}] /\ owed' \subseteq Locs
    BY <1>2, <1>13 DEF Store
  <2> QED
    BY <1>2, <1>13, <2>1, <2>2, QuietKeeps DEF Store
<1>14. CASE LoopEnd(a) \/ LoopCapped(a) \/ LoopExits(a)
  <2>0. Leave(a)
    BY <1>14 DEF LoopEnd, LoopCapped, LoopExits
  <2>1. turn' \in Agents \cup {Nobody} /\ line' \in Seq(Agents)
    BY <1>1, <2>0, TurnTypes DEF Leave
  <2>2. st[a] \in {"loop", "pick"} /\ st[a] \notin Blocking /\ (a # Root => started > 0) /\ started' = started
    BY <1>3, <1>5, <1>14 DEF LoopEnd, LoopCapped, LoopExits
  <2>3. /\ waiters' = waiters /\ woken' = woken /\ asyncWaits' = asyncWaits /\ result' = result
        /\ plan' = plan /\ used' = used /\ cur' = cur /\ local' = local /\ deadline' = deadline
        /\ missed' = missed /\ mem' = mem /\ ret' = ret /\ owed' = owed /\ now' = now
        /\ exiting' = exiting /\ fired' = fired /\ program' = program
        /\ timer' = timer \/ timer' = [timer EXCEPT ![a] = IF @ = "once" THEN "none" ELSE @]
    BY <1>14 DEF LoopEnd, LoopCapped, LoopExits, AfterFiring, loopVars
  <2>4. LoopTypes' /\ \A b \in Agents : st[b] = "dead" => exiting'[b] = exiting[b] /\ fired'[b] = fired[b]
    BY <1>15, <2>3 DEF LoopTypes
  <2>5. ASSUME a # Root PROVE ToSet(asyncWaits[a]) = {} \/ CutShort(a)'
    <3>1. CASE LoopCapped(a) \/ LoopExits(a)
      BY <3>1, <2>3 DEF LoopCapped, LoopExits, CutShort
    <3>2. CASE LoopEnd(a)
      <4> DEFINE A == asyncWaits[a]
                 K == {w \in ToSet(A) : Settleable(w)}
      <4>1. A \in Seq(Waiters)
        BY <1>1, TypeParts
      <4>2. K = ToSet(A)
        BY <2>2, <2>5 DEF Settleable
      <4>3. Kept(A, K) = <<>>
        BY <3>2 DEF LoopEnd, Candidates
      <4>4. ToSet(Kept(A, K)) = ToSet(A) \cap K
        BY <4>1, KeptList
      <4>5. ToSet(<<>>) = {}
        BY DEF ToSet
      <4> QED
        BY <4>2, <4>3, <4>4, <4>5
    <3> QED
      BY <1>14, <3>1, <3>2
  <2>6. Quiet
    <3>1. CASE a = Root
      <4>1. st' = [st EXCEPT ![a] = "idle"] /\ "idle" # "dead"
        BY <2>0, <3>1 DEF Leave
      <4> QED
        BY <1>0, <1>1, <1>4, <2>2, <2>3, <2>4, <4>1, Zenon DEF Quiet
    <3>2. CASE a # Root
      <4>1. st' = [st EXCEPT ![a] = "dead"]
        BY <2>0, <3>2 DEF Leave
      <4> QED
        BY <1>0, <1>1, <1>4, <2>2, <2>3, <2>4, <2>5, <3>2, <4>1, Zenon DEF Quiet
    <3> QED
      BY <3>1, <3>2
  <2> QED
    BY <1>2, <2>1, <2>3, <2>6, QuietKeeps
<1>18. CASE FireTimer(a)
  <2>1. /\ st[a] = "pick" /\ st' = [st EXCEPT ![a] = "run"] /\ exiting' = exiting /\ fired' = fired
        /\ program' = program
        /\ timer' = [timer EXCEPT ![a] = IF @ = "once" THEN "none" ELSE @] /\ started' = started
    BY <1>18 DEF FireTimer, AfterFiring
  <2>2. LoopTypes' /\ \A b \in Agents : st[b] = "dead" => exiting'[b] = exiting[b] /\ fired'[b] = fired[b]
    BY <1>15, <2>1 DEF LoopTypes
  <2>3. st[a] \notin Blocking /\ (a # Root => started' > 0)
    BY <1>3, <1>5, <2>1
  <2>4. Quiet
    BY <1>0, <1>1, <1>4, <1>18, <2>1, <2>2, <2>3, Zenon DEF FireTimer, Quiet
  <2> QED
    BY <1>2, <1>18, <2>4, QuietKeeps DEF FireTimer
<1>19. CASE Exit(a)
  <2>1. st[a] = "run" /\ exiting' = [exiting EXCEPT ![a] = TRUE] /\ timer' = timer /\ fired' = fired
        /\ program' = program
    BY <1>19 DEF Exit
  <2>2. LoopTypes' /\ \A b \in Agents : st[b] = "dead" => exiting'[b] = exiting[b] /\ fired'[b] = fired[b]
    BY <1>15, <2>1 DEF LoopTypes
  <2>3. Quiet
    BY <1>0, <1>1, <1>19, <2>2, Zenon DEF Exit, Quiet
  <2> QED
    BY <1>2, <1>19, <2>3, QuietKeeps DEF Exit
<1>20. ASSUME NEW t \in {"none", "once", "interval"}, SetTimer(a, t) PROVE WaitInv'
  <2>1. timer' = [timer EXCEPT ![a] = t] /\ exiting' = exiting /\ fired' = fired /\ program' = program
    BY <1>20 DEF SetTimer
  <2>2. LoopTypes' /\ \A b \in Agents : st[b] = "dead" => exiting'[b] = exiting[b] /\ fired'[b] = fired[b]
    BY <1>15, <2>1 DEF LoopTypes
  <2>3. Quiet
    BY <1>1, <1>20, <2>2 DEF SetTimer, Quiet
  <2> QED
    BY <1>2, <1>20, <2>3, QuietKeeps DEF SetTimer
<1> QED
  BY <1>6, <1>7, <1>8, <1>9, <1>10, <1>11, <1>12, <1>13, <1>14, <1>18, <1>19, <1>20

-----------------------------------------------------------------------------
(* The steps of a wait *)

(* What one state says about an agent at a wait. *)
LEMMA InvParts ==
  ASSUME WaitInv
  PROVE  /\ Types /\ Control /\ Begun /\ Promises /\ Owned /\ Answered /\ Ordered /\ Ended /\ TypeOK
         /\ MaxWaits \in Nat /\ MaxTime \in Nat /\ now \in 0 .. MaxTime /\ started \in 0 .. MaxAgents
         /\ deadline \in [Waiters -> 0 .. Forever]
BY ShapeAssumption DEF WaitInv, Types, TypeOK

(* Waiters that are on the list of an agent that is not blocked are promises. *)
LEMMA UnblockedOwns ==
  ASSUME WaitInv, NEW a \in Agents, st[a] \notin Blocking, NEW w \in ToSet(waiters), w[1] = a
  PROVE  w \in ToSet(asyncWaits[a])
BY InvParts DEF Owned, Tended

LEMMA ListedOnly ==
  ASSUME NEW s \in Seq(Waiters), NEW x, NEW y, Before(s, x, y)
  PROVE  x \in ToSet(s) /\ y \in ToSet(s)
BY ElementsOf DEF Before

(* The order is kept when entries leave, and by what happens to others. *)
LEMMA OrderLeaves ==
  ASSUME waiters \in Seq(Waiters), Ordered, NEW K, waiters' = waiters \/ waiters' = Kept(waiters, K),
         woken' = woken, \A w \in ToSet(waiters') : plan'[w].loc = plan[w].loc
  PROVE  Ordered'
<1>1. waiters' \in Seq(Waiters) /\ Once(waiters') /\ \A x, y : Before(waiters', x, y) => Before(waiters, x, y)
  BY KeptList DEF Ordered
<1>2. \A x, y : Before(waiters', x, y) => x \in ToSet(waiters') /\ y \in ToSet(waiters')
  BY <1>1, ListedOnly
<1> QED
  BY <1>1, <1>2 DEF Ordered

LEMMA WaitCheckKeeps ==
  ASSUME WaitInv, NEW a \in Agents, NEW p \in Plans, WaitCheck(a, p)
  PROVE  WaitInv'
<1> DEFINE n == used[a] + 1
           v == <<a, n>>
<1>1. /\ Types /\ Control /\ Begun /\ Promises /\ Owned /\ Answered /\ Ordered /\ Ended /\ TypeOK
      /\ MaxWaits \in Nat
  BY InvParts
<1>2. /\ st[a] = "run" /\ used[a] < MaxWaits /\ used' = [used EXCEPT ![a] = n]
      /\ cur' = [cur EXCEPT ![a] = n] /\ plan' = [plan EXCEPT ![v] = p] /\ st' = [st EXCEPT ![a] = "plan"]
      /\ turn' = turn /\ line' = line /\ mem' = mem /\ waiters' = waiters /\ woken' = woken /\ started' = started
      /\ ret' = ret /\ deadline' = deadline /\ local' = local /\ asyncWaits' = asyncWaits
      /\ result' = result /\ owed' = owed /\ now' = now
      /\ missed' = missed /\ timer' = timer /\ exiting' = exiting /\ fired' = fired /\ program' = program
  BY DEF WaitCheck, Does, At, Goto, KeepTurn, loopVars
<1>3. used[a] \in Nat /\ n \in 1 .. MaxWaits /\ v \in Waiters /\ v[1] = a /\ v[2] = n
  <2>1. used[a] \in 0 .. MaxWaits
    BY <1>1, TypeParts
  <2>2. n \in 1 .. MaxWaits
    BY <1>1, <1>2, <2>1
  <2> QED
    BY <2>1, <2>2, WaiterParts
<1>4. /\ v \notin ToSet(waiters) /\ v \notin woken /\ v \notin ToSet(asyncWaits[a]) /\ result[v] = "none"
  <2>1. ~ (v[2] <= used[v[1]])
    BY <1>3
  <2> QED
    BY <1>1, <1>3, <2>1 DEF Begun
<1> HIDE DEF v
<1>5. Types'
  <2>1. used' \in [Agents -> 0 .. MaxWaits] /\ cur' \in [Agents -> 0 .. MaxWaits]
    <3>1. n \in 0 .. MaxWaits
      BY <1>3
    <3> QED
      BY <1>1, <1>2, <3>1, TypeParts
  <2>2. plan' \in [Waiters -> Plans \cup {NoPlan}]
    BY <1>1, <1>2, <1>3, TypeParts
  <2>3. st' \in [Agents -> States]
    BY <1>1, <1>2, TypeParts DEF States
  <2> QED
    BY <1>1, <1>2, <2>1, <2>2, <2>3 DEF Types, TypeOK, LoopTypes
<1>6. /\ st'[a] = "plan" /\ cur'[a] = n /\ used'[a] = n /\ \A w \in Waiters : w # v => plan'[w] = plan[w]
      /\ \A b \in Agents : b # a => st'[b] = st[b] /\ cur'[b] = cur[b] /\ used'[b] = used[b]
  BY <1>1, <1>2, TypeParts
<1>7. Control'
  <2>1. ASSUME NEW b \in Agents, b # a PROVE Control!(b)'
    BY <1>1, <1>2, <1>6, <2>1 DEF Control, At, Current
  <2>2. Current(a)' = v
    BY <1>6 DEF Current, v
  <2>3. Control!(a)'
    BY <1>1, <1>2, <1>3, <1>4, <1>6, <2>2 DEF Control, At, Busy
  <2> QED
    BY <2>1, <2>3 DEF Control
<1>8. Begun'
  <2>1. \A b \in Agents : used'[b] >= used[b] /\ used[b] \in Nat /\ used'[b] \in Nat
    <3>1. \A b \in Agents : used[b] \in Nat
      BY <1>1, TypeParts
    <3> QED
      BY <1>3, <1>6, <3>1
  <2>2. \A w \in Waiters : w[2] \in Nat /\ w[1] \in Agents
    BY WaiterParts
  <2>3. \A w \in Waiters : w[2] <= used[w[1]] => w[2] <= used'[w[1]]
    BY <2>1, <2>2
  <2> QED
    BY <1>1, <1>2, <2>3 DEF Begun
<1>9. Promises' /\ Answered'
  BY <1>1, <1>2 DEF Promises, Answered
<1>10. Owned'
  <2> SUFFICES ASSUME NEW w \in ToSet(waiters) PROVE Tended(w)'
    BY <1>2 DEF Owned
  <2>1. w[1] \in Agents
    BY <1>1, TypeParts, WaiterParts
  <2>2. CASE w[1] = a
    BY <1>2, <2>2, UnblockedOwns DEF Tended, Blocking
  <2>3. CASE w[1] # a
    BY <1>1, <1>2, <1>6, <2>1, <2>3 DEF Owned, Tended, Current
  <2> QED
    BY <2>2, <2>3
<1>11. Ordered'
  BY <1>1, <1>2, <1>4, <1>6, TypeParts, OrderLeaves
<1>12. Ended'
  BY <1>1, <1>2, <1>6 DEF Ended, At, CutShort
<1> QED
  BY <1>5, <1>7, <1>8, <1>9, <1>10, <1>11, <1>12 DEF WaitInv

(* The timer of a wait. *)
LEMMA DeadlineType ==
  ASSUME WaitInv, NEW w \in Waiters, SetDeadline(w)
  PROVE  deadline' \in [Waiters -> 0 .. Forever]
<1>1. /\ deadline \in [Waiters -> 0 .. Forever] /\ now \in 0 .. MaxTime /\ MaxTime \in Nat
      /\ plan[w] \in Plans \cup {NoPlan}
  BY InvParts, TypeParts, ShapeAssumption
<1>2. plan[w].timeout \in 0 .. Forever /\ Forever \in Nat
  <2>1. 0 \in 0 .. Forever /\ Forever \in Nat
    BY <1>1 DEF Forever
  <2> QED
    <3>1. CASE plan[w] \in Plans
      BY <1>1, <2>1, <3>1 DEF Plans
    <3>2. CASE plan[w] = NoPlan
      BY <2>1, <3>2 DEF NoPlan
    <3> QED
      BY <1>1, <3>1, <3>2
<1>3. Least(now + plan[w].timeout, MaxTime) \in 0 .. Forever
  BY <1>1, <1>2 DEF Least, Forever
<1>4. Forever \in 0 .. Forever
  BY <1>2
<1> QED
  BY <1>1, <1>3, <1>4 DEF SetDeadline

(* A wait joins the list. *)
LEMMA Joins ==
  ASSUME WaitInv, NEW a \in Agents, st[a] = "plan", waiters' = Append(waiters, Current(a))
  PROVE  /\ Current(a) \in Waiters /\ Current(a)[1] = a /\ Current(a)[2] <= used[a]
         /\ Current(a) \notin ToSet(waiters) /\ Current(a) \notin woken /\ result[Current(a)] = "none"
         /\ waiters' \in Seq(Waiters) /\ ToSet(waiters') = ToSet(waiters) \cup {Current(a)}
         /\ woken' = woken /\ plan' = plan => Ordered'
<1>1. /\ Types /\ Control /\ Ordered /\ waiters \in Seq(Waiters)
  BY InvParts, TypeParts
<1>2. st[a] \in Busy
  BY DEF Busy
<1>3. Current(a) \in Waiters /\ Current(a)[1] = a /\ Current(a)[2] <= used[a]
  BY <1>1, <1>2, CurrentIs
<1>4. Current(a) \notin ToSet(waiters) /\ Current(a) \notin woken /\ result[Current(a)] = "none"
  BY <1>1 DEF Control, At
<1>5. waiters' \in Seq(Waiters) /\ ToSet(waiters') = ToSet(waiters) \cup {Current(a)}
  BY <1>1, <1>3, AppendSet
<1>6. ASSUME woken' = woken, plan' = plan PROVE Ordered'
  <2>1. /\ Once(waiters')
        /\ \A x, y : Before(waiters', x, y) => Before(waiters, x, y) \/ (x \in ToSet(waiters) /\ y = Current(a))
    BY <1>1, <1>3, <1>4, AppendList DEF Ordered
  <2> QED
    BY <1>1, <1>4, <1>6, <2>1 DEF Ordered
<1> QED
  BY <1>3, <1>4, <1>5, <1>6

LEMMA ParkKeeps ==
  ASSUME WaitInv, NEW a \in Agents, Park(a)
  PROVE  WaitInv'
<1> DEFINE v == Current(a)
<1>1. /\ Types /\ Control /\ Begun /\ Promises /\ Owned /\ Answered /\ Ordered /\ Ended /\ TypeOK
  BY InvParts
<1>2. /\ st[a] = "plan" /\ waiters' = Append(waiters, v) /\ SetDeadline(v) /\ local' = [local EXCEPT ![a] = "ok"]
      /\ Turn!Pass /\ st' = [st EXCEPT ![a] = "parked"] /\ mem' = mem /\ woken' = woken /\ started' = started
      /\ ret' = ret /\ cur' = cur /\ plan' = plan /\ used' = used /\ asyncWaits' = asyncWaits
      /\ result' = result /\ owed' = owed /\ now' = now
      /\ missed' = missed /\ timer' = timer /\ exiting' = exiting /\ fired' = fired /\ program' = program
  BY DEF Park, Does, At, Goto, loopVars
<1>3. /\ v \in Waiters /\ v[1] = a /\ v[2] <= used[a] /\ v \notin ToSet(waiters) /\ v \notin woken /\ result[v] = "none"
      /\ waiters' \in Seq(Waiters) /\ ToSet(waiters') = ToSet(waiters) \cup {v} /\ Ordered'
  BY <1>2, Joins
<1>4. Types'
  <2>1. deadline' \in [Waiters -> 0 .. Forever]
    BY <1>2, <1>3, DeadlineType
  <2>2. turn' \in Agents \cup {Nobody} /\ line' \in Seq(Agents)
    BY <1>1, <1>2, TurnTypes
  <2>3. st' \in [Agents -> States] /\ local' \in [Agents -> {"ok", "timed-out"}]
    BY <1>1, <1>2, TypeParts DEF States
  <2> QED
    BY <1>1, <1>2, <1>3, <2>1, <2>2, <2>3 DEF Types, TypeOK, LoopTypes
<1>5. /\ st'[a] = "parked" /\ \A b \in Agents : b # a => st'[b] = st[b] /\ local'[b] = local[b]
  BY <1>1, <1>2, TypeParts
<1>6. \A b \in Agents : st[b] \in Busy /\ b # a => Current(b) # v
  BY <1>1, <1>3, CurrentIs
<1>7. Control'
  <2>1. ASSUME NEW b \in Agents, b # a PROVE Control!(b)'
    BY <1>1, <1>2, <1>3, <1>5, <1>6, <2>1 DEF Control, At, Current, Busy
  <2>2. Control!(a)'
    BY <1>1, <1>2, <1>5 DEF Control, At, Busy
  <2> QED
    BY <2>1, <2>2 DEF Control
<1>8. Begun' /\ Promises' /\ Answered'
  BY <1>1, <1>2, <1>3 DEF Begun, Promises, Answered
<1>9. Owned'
  <2> SUFFICES ASSUME NEW w \in ToSet(waiters) \cup {v} PROVE Tended(w)'
    BY <1>3 DEF Owned
  <2>1. w[1] \in Agents
    BY <1>1, <1>3, TypeParts, WaiterParts
  <2>2. CASE w = v
    <3>1. w[1] = a /\ st'[w[1]] \in Blocking /\ Current(w[1])' = w
      BY <1>2, <1>3, <1>5, <2>2 DEF Blocking, Current
    <3> QED
      BY <3>1 DEF Tended
  <2>3. CASE w # v /\ w[1] = a
    BY <1>2, <2>3, UnblockedOwns DEF Tended, Blocking
  <2>4. CASE w # v /\ w[1] # a
    BY <1>1, <1>2, <1>5, <2>1, <2>4 DEF Owned, Tended, Current
  <2> QED
    BY <2>2, <2>3, <2>4
<1>10. Ended'
  BY <1>1, <1>2, <1>5 DEF Ended, At, CutShort
<1> QED
  BY <1>3, <1>4, <1>7, <1>8, <1>9, <1>10 DEF WaitInv

LEMMA ParkAsyncKeeps ==
  ASSUME WaitInv, NEW a \in Agents, ParkAsync(a)
  PROVE  WaitInv'
<1> DEFINE v == Current(a)
<1>1. /\ Types /\ Control /\ Begun /\ Promises /\ Owned /\ Answered /\ Ordered /\ Ended /\ TypeOK
  BY InvParts
<1>2. /\ st[a] = "plan" /\ waiters' = Append(waiters, v) /\ SetDeadline(v)
      /\ asyncWaits' = [asyncWaits EXCEPT ![a] = Append(@, v)] /\ cur' = [cur EXCEPT ![a] = 0]
      /\ turn' = turn /\ line' = line /\ st' = [st EXCEPT ![a] = "run"] /\ mem' = mem /\ woken' = woken
      /\ started' = started /\ ret' = ret /\ plan' = plan /\ used' = used /\ local' = local
      /\ result' = result /\ owed' = owed /\ now' = now
      /\ missed' = missed /\ timer' = timer /\ exiting' = exiting /\ fired' = fired /\ program' = program
  BY DEF ParkAsync, Does, At, Goto, KeepTurn, loopVars
<1>3. /\ v \in Waiters /\ v[1] = a /\ v[2] <= used[a] /\ v \notin ToSet(waiters) /\ v \notin woken /\ result[v] = "none"
      /\ waiters' \in Seq(Waiters) /\ ToSet(waiters') = ToSet(waiters) \cup {v} /\ Ordered'
  BY <1>2, Joins
<1>4. /\ asyncWaits' \in [Agents -> Seq(Waiters)] /\ ToSet(asyncWaits'[a]) = ToSet(asyncWaits[a]) \cup {v}
      /\ \A b \in Agents : b # a => asyncWaits'[b] = asyncWaits[b]
  <2>1. asyncWaits \in [Agents -> Seq(Waiters)] /\ asyncWaits[a] \in Seq(Waiters)
    BY <1>1, TypeParts
  <2>2. Append(asyncWaits[a], v) \in Seq(Waiters) /\ ToSet(Append(asyncWaits[a], v)) = ToSet(asyncWaits[a]) \cup {v}
    BY <1>3, <2>1, AppendSet
  <2> QED
    BY <1>2, <2>1, <2>2
<1>5. Types'
  <2>1. deadline' \in [Waiters -> 0 .. Forever]
    BY <1>2, <1>3, DeadlineType
  <2>2. st' \in [Agents -> States] /\ cur' \in [Agents -> 0 .. MaxWaits]
    BY <1>1, <1>2, TypeParts DEF States
  <2> QED
    BY <1>1, <1>2, <1>3, <1>4, <2>1, <2>2 DEF Types, TypeOK, LoopTypes
<1>6. /\ st'[a] = "run" /\ \A b \in Agents : b # a => st'[b] = st[b] /\ cur'[b] = cur[b]
  BY <1>1, <1>2, TypeParts
<1>7. \A b \in Agents : st[b] \in Busy /\ b # a => Current(b) # v
  BY <1>1, <1>3, CurrentIs
<1>8. Control'
  <2>1. ASSUME NEW b \in Agents, b # a PROVE Control!(b)'
    <3>1. Current(b)' = Current(b)
      BY <1>6, <2>1 DEF Current
    <3> HIDE DEF v
    <3> QED
      BY <1>1, <1>2, <1>3, <1>6, <1>7, <2>1, <3>1 DEF Control, At, Busy
  <2>2. Control!(a)'
    BY <1>1, <1>2, <1>6 DEF Control, At, Busy
  <2> QED
    BY <2>1, <2>2 DEF Control
<1>9. Begun'
  <2> SUFFICES ASSUME NEW w \in Waiters, 
                      w \in ToSet(waiters') \/ w \in woken' \/ w \in ToSet(asyncWaits'[w[1]]) \/ result'[w] # "none"
               PROVE  w[2] <= used'[w[1]]
    BY DEF Begun
  <2>1. w[1] \in Agents
    BY WaiterParts
  <2> QED
    BY <1>1, <1>2, <1>3, <1>4, <2>1 DEF Begun
<1>10. Promises' /\ Answered'
  BY <1>1, <1>2, <1>3, <1>4 DEF Promises, Answered
<1>11. Owned'
  <2> SUFFICES ASSUME NEW w \in ToSet(waiters) \cup {v} PROVE Tended(w)'
    BY <1>3 DEF Owned
  <2>1. w[1] \in Agents
    BY <1>1, <1>3, TypeParts, WaiterParts
  <2>2. CASE w = v
    BY <1>3, <1>4, <2>2 DEF Tended
  <2>3. CASE w # v /\ w[1] = a
    BY <1>2, <1>4, <2>3, UnblockedOwns DEF Tended, Blocking
  <2>4. CASE w # v /\ w[1] # a
    BY <1>1, <1>4, <1>6, <2>1, <2>4 DEF Owned, Tended, Current
  <2> QED
    BY <2>2, <2>3, <2>4
<1>12. Ended'
  BY <1>1, <1>2, <1>4, <1>6 DEF Ended, At, CutShort
<1> QED
  BY <1>3, <1>5, <1>8, <1>9, <1>10, <1>11, <1>12 DEF WaitInv

(* The sleep ends. *)
LEMMA ParkEndsKeeps ==
  ASSUME WaitInv, NEW a \in Agents, NEW r \in {"ok", "timed-out"}, Unpark(a, r) \/ ServiceEnds(a, r)
  PROVE  WaitInv'
<1>1. /\ Types /\ Control /\ Begun /\ Promises /\ Owned /\ Answered /\ Ordered /\ Ended /\ TypeOK
  BY InvParts
<1>2. /\ st[a] \in {"parked", "service"} /\ (r = "ok" => Current(a) \in woken)
      /\ local' = [local EXCEPT ![a] = r] /\ Turn!Ask(a)
      /\ \/ st' = [st EXCEPT ![a] = "unpark"] \/ st' = [st EXCEPT ![a] = "finish"]
      /\ mem' = mem /\ waiters' = waiters /\ woken' = woken /\ started' = started /\ ret' = ret /\ cur' = cur
      /\ plan' = plan /\ deadline' = deadline /\ used' = used /\ asyncWaits' = asyncWaits
      /\ result' = result /\ owed' = owed /\ now' = now
      /\ missed' = missed /\ timer' = timer /\ exiting' = exiting /\ fired' = fired /\ program' = program
  BY DEF Unpark, ServiceEnds, ParkEnds, At, Goto, loopVars
<1>3. Types'
  <2>1. turn' \in Agents \cup {Nobody} /\ line' \in Seq(Agents)
    BY <1>1, <1>2, TurnTypes
  <2>2. st' \in [Agents -> States] /\ local' \in [Agents -> {"ok", "timed-out"}]
    BY <1>1, <1>2, TypeParts DEF States
  <2> QED
    BY <1>1, <1>2, <2>1, <2>2 DEF Types, TypeOK, LoopTypes
<1>4. /\ st'[a] \in {"unpark", "finish"} /\ local'[a] = r
      /\ \A b \in Agents : b # a => st'[b] = st[b] /\ local'[b] = local[b]
  BY <1>1, <1>2, TypeParts
<1>5. Control'
  <2>1. ASSUME NEW b \in Agents, b # a PROVE Control!(b)'
    BY <1>1, <1>2, <1>4, <2>1 DEF Control, At, Current
  <2>2. Control!(a)'
    <3>1. Current(a)' = Current(a)
      BY <1>2 DEF Current
    <3> QED
      BY <1>1, <1>2, <1>4, <3>1 DEF Control, At, Busy
  <2> QED
    BY <2>1, <2>2 DEF Control
<1>6. Begun' /\ Promises' /\ Answered' /\ Ordered'
  BY <1>1, <1>2 DEF Begun, Promises, Answered, Ordered
<1>7. Owned'
  <2> SUFFICES ASSUME NEW w \in ToSet(waiters) PROVE Tended(w)'
    BY <1>2 DEF Owned
  <2>1. w[1] \in Agents /\ Tended(w)
    BY <1>1, TypeParts, WaiterParts DEF Owned
  <2>2. st[w[1]] \in Blocking => st'[w[1]] \in Blocking
    BY <1>4, <2>1 DEF Blocking
  <2> QED
    BY <1>2, <2>1, <2>2 DEF Tended, Current
<1>8. Ended'
  BY <1>1, <1>2, <1>4 DEF Ended, At, CutShort
<1> QED
  BY <1>3, <1>5, <1>6, <1>7, <1>8 DEF WaitInv

(* A wait is answered. *)
LEMMA AnswerKeeps ==
  ASSUME WaitInv, NEW a \in Agents, ParkReturn(a) \/ FinishAsyncWait(a)
  PROVE  WaitInv'
<1> DEFINE v == Current(a)
           K == ToSet(waiters) \ {v}
<1>1. /\ Types /\ Control /\ Begun /\ Promises /\ Owned /\ Answered /\ Ordered /\ Ended /\ TypeOK
  BY InvParts
<1>2. /\ st[a] \in {"unpark", "finish"} /\ waiters' = Kept(waiters, K)
      /\ result' = [result EXCEPT ![v] = IF v \in woken THEN "ok" ELSE local[a]]
      /\ cur' = [cur EXCEPT ![a] = 0] /\ plan' = [plan EXCEPT ![v] = NoPlan]
      /\ deadline' = [deadline EXCEPT ![v] = 0] /\ local' = [local EXCEPT ![a] = "ok"]
      /\ st' = [st EXCEPT ![a] = "run"] /\ turn' = turn /\ line' = line
      /\ mem' = mem /\ woken' = woken /\ started' = started /\ ret' = ret /\ used' = used
      /\ asyncWaits' = asyncWaits /\ owed' = owed /\ now' = now
      /\ missed' = missed /\ timer' = timer /\ exiting' = exiting /\ fired' = fired /\ program' = program
  BY DEF ParkReturn, FinishAsyncWait, Answer, Without, Does, At, Goto, KeepTurn, loopVars
<1>3. v \in Waiters /\ v[1] = a /\ v[2] <= used[a] /\ (local[a] = "ok" => v \in woken)
  <2>1. st[a] \in Busy
    BY <1>2 DEF Busy
  <2> QED
    BY <1>1, <1>2, <2>1, CurrentIs DEF Control
<1>4. waiters' \in Seq(Waiters) /\ ToSet(waiters') = ToSet(waiters) \ {v}
  <2>1. waiters \in Seq(Waiters)
    BY <1>1, TypeParts
  <2>2. ToSet(waiters') = ToSet(waiters) \cap K /\ waiters' \in Seq(Waiters)
    BY <1>2, <2>1, KeptList
  <2> QED
    BY <2>2
<1>5. Types'
  <2>1. result' \in [Waiters -> {"none", "ok", "timed-out"}] /\ local' \in [Agents -> {"ok", "timed-out"}]
    BY <1>1, <1>2, TypeParts
  <2>2. cur' \in [Agents -> 0 .. MaxWaits] /\ deadline' \in [Waiters -> 0 .. Forever]
    <3>1. 0 \in 0 .. MaxWaits /\ 0 \in 0 .. Forever
      BY ShapeAssumption DEF Forever
    <3> QED
      BY <1>1, <1>2, <3>1, TypeParts, InvParts
  <2>3. plan' \in [Waiters -> Plans \cup {NoPlan}] /\ st' \in [Agents -> States]
    BY <1>1, <1>2, TypeParts DEF States
  <2> QED
    BY <1>1, <1>2, <1>4, <2>1, <2>2, <2>3 DEF Types, TypeOK, LoopTypes
<1>6. /\ st'[a] = "run" /\ \A b \in Agents : b # a => st'[b] = st[b] /\ cur'[b] = cur[b] /\ local'[b] = local[b]
      /\ result'[v] = IF v \in woken THEN "ok" ELSE local[a]
      /\ \A w \in Waiters : w # v => result'[w] = result[w] /\ plan'[w] = plan[w]
  BY <1>1, <1>2, <1>3, TypeParts
<1>7. local[a] \in {"ok", "timed-out"}
  BY <1>1, TypeParts
<1>8. \A b \in Agents : st[b] \in Busy /\ b # a => Current(b) # v /\ Current(b) \in Waiters
  BY <1>1, <1>3, CurrentIs
<1>9. Control'
  <2>1. ASSUME NEW b \in Agents, b # a PROVE Control!(b)'
    <3>1. Current(b)' = Current(b)
      BY <1>6, <2>1 DEF Current
    <3>2. st'[b] = st[b] /\ cur'[b] = cur[b] /\ local'[b] = local[b]
      BY <1>6, <2>1
    <3>3. st[b] = "plan" => /\ result'[Current(b)] = result[Current(b)]
                            /\ Current(b) \notin ToSet(waiters) => Current(b) \notin ToSet(waiters')
      BY <1>4, <1>6, <1>8, <2>1 DEF Busy
    <3> HIDE DEF v
    <3> QED
      BY <1>1, <1>2, <3>1, <3>2, <3>3 DEF Control, At
  <2>2. Control!(a)'
    BY <1>1, <1>2, <1>6 DEF Control, At, Busy
  <2> QED
    BY <2>1, <2>2 DEF Control
<1> HIDE DEF v, K
<1>10. Begun'
  <2>1. \A w \in Waiters : result'[w] # "none" => w = v \/ result[w] # "none"
    BY <1>6
  <2> QED
    BY <1>1, <1>2, <1>3, <1>4, <2>1 DEF Begun
<1>11. Promises'
  BY <1>1, <1>2 DEF Promises
<1>12. Answered'
  BY <1>1, <1>2, <1>3, <1>4, <1>6, <1>7 DEF Answered
<1>13. Owned'
  <2> SUFFICES ASSUME NEW w \in ToSet(waiters), w # v PROVE Tended(w)'
    BY <1>4 DEF Owned
  <2>1. w[1] \in Agents /\ Tended(w)
    BY <1>1, TypeParts, WaiterParts DEF Owned
  <2>2. CASE w[1] = a
    BY <1>2, <2>1, <2>2 DEF Tended, v
  <2>3. CASE w[1] # a
    BY <1>2, <1>6, <2>1, <2>3 DEF Tended, Current
  <2> QED
    BY <2>2, <2>3
<1>14. Ordered'
  <2>1. \A w \in ToSet(waiters') : plan'[w].loc = plan[w].loc
    BY <1>1, <1>4, <1>6, TypeParts
  <2> QED
    BY <1>1, <1>2, <2>1, TypeParts, OrderLeaves
<1>15. Ended'
  BY <1>1, <1>2, <1>6 DEF Ended, At, CutShort
<1> QED
  BY <1>5, <1>9, <1>10, <1>11, <1>12, <1>13, <1>14, <1>15 DEF WaitInv

(* notify *)
LEMMA NotifyKeeps ==
  ASSUME WaitInv, NEW a \in Agents, NEW l \in Locs, NEW k \in Counts, Notify(a, l, k)
  PROVE  WaitInv'
<1> DEFINE K == {w \in ToSet(waiters) \ woken : plan[w].loc = l}
           m == Least(k, Len(Kept(waiters, K)))
           N == ToSet(SubSeq(Kept(waiters, K), 1, m))
<1>1. /\ Types /\ Control /\ Begun /\ Promises /\ Owned /\ Answered /\ Ordered /\ Ended /\ TypeOK
  BY InvParts
<1>2. /\ woken' = woken \cup N /\ (owed' = owed \ {l} \/ owed' = owed) /\ turn' = turn /\ line' = line /\ mem' = mem
      /\ waiters' = waiters /\ started' = started /\ st' = st /\ ret' = ret /\ cur' = cur /\ plan' = plan
      /\ deadline' = deadline /\ used' = used /\ local' = local /\ asyncWaits' = asyncWaits
      /\ result' = result /\ now' = now /\ timer' = timer /\ exiting' = exiting /\ fired' = fired /\ program' = program
      /\ (missed' = missed \/ missed' = missed \cup Planned(l))
  BY DEF Notify, Sleeping, Discharge, KeepTurn, loopVars
<1>3. /\ N \subseteq ToSet(waiters) \cap K
      /\ \A x, y : Before(waiters, x, y) /\ x \in K /\ y \in N => x \in N
  <2>1. waiters \in Seq(Waiters) /\ Once(waiters)
    BY <1>1, TypeParts DEF Ordered
  <2>2. m \in 0 .. Len(Kept(waiters, K))
    <3>1. Len(Kept(waiters, K)) \in Nat
      BY <2>1, KeptList
    <3>2. k \in Nat
      BY <2>1, ShapeAssumption, ListIsShort
    <3> QED
      BY <3>1, <3>2 DEF Least
  <2> HIDE DEF K, m
  <2> QED
    BY <2>1, <2>2, FirstOfKept
<1>4. ToSet(waiters) \subseteq Waiters /\ woken \subseteq Waiters
  BY <1>1, TypeParts
<1> HIDE DEF N
<1>5. Types'
  <2>1. woken' \subseteq Waiters /\ owed' \subseteq Locs
    BY <1>1, <1>2, <1>3, <1>4 DEF TypeOK
  <2>2. Planned(l) \subseteq Waiters
    BY <1>1, CurrentIs DEF Planned, At, Busy
  <2>3. missed' \subseteq Waiters
    BY <1>1, <1>2, <2>2 DEF TypeOK
  <2> QED
    BY <1>1, <1>2, <2>1, <2>3 DEF Types, TypeOK, LoopTypes
<1>6. Control'
  BY <1>1, <1>2, <1>3 DEF Control, At, Current
<1>7. Begun' /\ Promises' /\ Owned' /\ Answered' /\ Ended'
  BY <1>1, <1>2, <1>3 DEF Begun, Promises, Owned, Tended, Current, Answered, Ended, At, CutShort
<1>8. Ordered'
  <2> SUFFICES ASSUME NEW x \in Waiters, NEW y \in Waiters, Before(waiters, x, y),
                      plan[x].loc = plan[y].loc, y \in woken \cup N, x \notin woken
               PROVE  x \in N
    BY <1>1, <1>2 DEF Ordered
  <2>1. x \in ToSet(waiters)
    BY <1>1, TypeParts, ListedOnly
  <2>2. y \in N
    BY <1>1 DEF Ordered
  <2>3. plan[y].loc = l
    BY <1>3, <2>2
  <2> QED
    BY <1>3, <2>1, <2>2, <2>3
<1> QED
  BY <1>5, <1>6, <1>7, <1>8 DEF WaitInv

(* The loop picks a promise to wait for. *)
LEMMA ServiceKeeps ==
  ASSUME WaitInv, NEW a \in Agents, NEW n \in 1 .. MaxWaits, Service(a, n)
  PROVE  WaitInv'
<1> DEFINE v == <<a, n>>
           A == asyncWaits[a]
           K == {w \in ToSet(A) : Settleable(w)}
<1>1. /\ Types /\ Control /\ Begun /\ Promises /\ Owned /\ Answered /\ Ordered /\ Ended /\ TypeOK
  BY InvParts
<1>2. /\ st[a] = "pick" /\ Best(Kept(A, K), v) /\ asyncWaits' = [asyncWaits EXCEPT ![a] = Kept(A, ToSet(A) \ {v})]
      /\ cur' = [cur EXCEPT ![a] = n] /\ local' = [local EXCEPT ![a] = "ok"] /\ Turn!Pass
      /\ st' = [st EXCEPT ![a] = "service"] /\ mem' = mem /\ waiters' = waiters /\ woken' = woken
      /\ started' = started /\ ret' = ret /\ plan' = plan /\ deadline' = deadline /\ used' = used
      /\ result' = result /\ owed' = owed /\ now' = now
      /\ missed' = missed /\ timer' = timer /\ exiting' = exiting /\ fired' = fired /\ program' = program
  BY DEF Service, Candidates, Without, Does, At, Goto, loopVars
<1>3. A \in Seq(Waiters) /\ asyncWaits \in [Agents -> Seq(Waiters)]
  BY <1>1, TypeParts
<1>4. v \in Waiters /\ v[1] = a /\ v[2] = n
  BY WaiterParts
<1>5. v \in ToSet(A)
  <2>1. Kept(A, K) \in Seq(Waiters) /\ ToSet(Kept(A, K)) = ToSet(A) \cap K
    BY <1>3, KeptList
  <2>2. v \in ToSet(Kept(A, K))
    BY <1>2, <2>1 DEF Best, ToSet
  <2> QED
    BY <2>1, <2>2
<1>6. n <= used[a]
  BY <1>1, <1>4, <1>5 DEF Begun
<1>7. /\ asyncWaits' \in [Agents -> Seq(Waiters)] /\ ToSet(asyncWaits'[a]) = ToSet(A) \ {v}
      /\ \A b \in Agents : b # a => asyncWaits'[b] = asyncWaits[b]
  <2>1. Kept(A, ToSet(A) \ {v}) \in Seq(Waiters)
    BY <1>3, KeptList
  <2>2. ToSet(Kept(A, ToSet(A) \ {v})) = ToSet(A) \cap (ToSet(A) \ {v})
    BY <1>3, KeptList
  <2> QED
    BY <1>2, <1>3, <2>1, <2>2
<1> HIDE DEF v, A, K
<1>8. Types'
  <2>1. turn' \in Agents \cup {Nobody} /\ line' \in Seq(Agents)
    BY <1>1, <1>2, TurnTypes
  <2>2. cur' \in [Agents -> 0 .. MaxWaits]
    <3>1. n \in 0 .. MaxWaits
      BY ShapeAssumption
    <3> QED
      BY <1>1, <1>2, <3>1, TypeParts
  <2>3. st' \in [Agents -> States] /\ local' \in [Agents -> {"ok", "timed-out"}]
    BY <1>1, <1>2, TypeParts DEF States
  <2> QED
    BY <1>1, <1>2, <1>7, <2>1, <2>2, <2>3 DEF Types, TypeOK, LoopTypes
<1>9. /\ st'[a] = "service" /\ cur'[a] = n
      /\ \A b \in Agents : b # a => st'[b] = st[b] /\ cur'[b] = cur[b] /\ local'[b] = local[b]
  BY <1>1, <1>2, TypeParts
<1>10. Control'
  <2>1. ASSUME NEW b \in Agents, b # a PROVE Control!(b)'
    BY <1>1, <1>2, <1>9, <2>1 DEF Control, At, Current
  <2>2. Control!(a)'
    BY <1>1, <1>2, <1>6, <1>9 DEF Control, At, Busy
  <2> QED
    BY <2>1, <2>2 DEF Control
<1>11. Begun' /\ Promises' /\ Answered'
  <2>1. \A b \in Agents : ToSet(asyncWaits'[b]) \subseteq ToSet(asyncWaits[b])
    BY <1>7 DEF A
  <2>2. \A w \in Waiters : w[1] \in Agents
    BY WaiterParts
  <2> QED
    BY <1>1, <1>2, <2>1, <2>2 DEF Begun, Promises, Answered
<1>12. Owned'
  <2> SUFFICES ASSUME NEW w \in ToSet(waiters) PROVE Tended(w)'
    BY <1>2 DEF Owned
  <2>1. w[1] \in Agents /\ Tended(w)
    BY <1>1, TypeParts, WaiterParts DEF Owned
  <2>2. CASE w = v
    <3>1. w[1] = a /\ st'[w[1]] \in Blocking
      BY <1>4, <1>9, <2>2 DEF Blocking
    <3>2. Current(w[1])' = w
      BY <1>9, <2>2, <3>1 DEF Current, v
    <3> QED
      BY <3>1, <3>2 DEF Tended
  <2>3. CASE w # v /\ w[1] = a
    <3>1. w \in ToSet(A)
      BY <1>2, <2>3, UnblockedOwns DEF A, Blocking
    <3> QED
      BY <1>7, <2>3, <3>1 DEF Tended
  <2>4. CASE w[1] # a
    BY <1>7, <1>9, <2>1, <2>4 DEF Tended, Current
  <2> QED
    BY <2>2, <2>3, <2>4
<1>13. Ordered'
  BY <1>1, <1>2 DEF Ordered
<1>14. Ended'
  BY <1>1, <1>2, <1>7, <1>9 DEF Ended, At, CutShort
<1> QED
  BY <1>8, <1>10, <1>11, <1>12, <1>13, <1>14 DEF WaitInv

(* The loop answers every promise that is ready. *)
LEMMA SettleReadyKeeps ==
  ASSUME WaitInv, NEW a \in Agents, SettleReady(a)
  PROVE  WaitInv'
<1> DEFINE A == asyncWaits[a]
           R == {w \in ToSet(A) : w \in woken \/ Expired(w)}
<1>1. /\ Types /\ Control /\ Begun /\ Promises /\ Owned /\ Answered /\ Ordered /\ Ended /\ TypeOK
  BY InvParts
<1>2. /\ st[a] = "loop" /\ asyncWaits' = [asyncWaits EXCEPT ![a] = Kept(A, ToSet(A) \ R)]
      /\ waiters' = Kept(waiters, ToSet(waiters) \ R)
      /\ result' = [w \in Waiters |-> CASE w \notin R -> result[w]
                                        [] w \in R /\ w \in woken -> "ok"
                                        [] OTHER -> "timed-out"]
      /\ plan' = [w \in Waiters |-> IF w \in R THEN NoPlan ELSE plan[w]]
      /\ deadline' = [w \in Waiters |-> IF w \in R THEN 0 ELSE deadline[w]]
      /\ \/ st' = [st EXCEPT ![a] = "pick"] /\ ret' = ret
         \/ st' = [st EXCEPT ![a] = "run"] /\ ret' = [ret EXCEPT ![a] = "pick"]
      /\ turn' = turn /\ line' = line /\ mem' = mem /\ woken' = woken /\ started' = started /\ cur' = cur
      /\ used' = used /\ local' = local /\ owed' = owed /\ now' = now
      /\ missed' = missed /\ timer' = timer /\ exiting' = exiting /\ program' = program
      /\ fired[a] < MaxMacrotasks /\ fired' = [fired EXCEPT ![a] = @ + 1]
  BY DEF SettleReady, Does, At, Goto, KeepTurn, loopVars
<1>3. A \in Seq(Waiters) /\ waiters \in Seq(Waiters) /\ ToSet(A) \subseteq Waiters
  BY <1>1, TypeParts
<1>4. R \subseteq ToSet(A) /\ R \subseteq Waiters /\ \A w \in R : w[1] = a
  BY <1>1, <1>3 DEF Promises
<1> HIDE DEF R
<1>5. /\ asyncWaits' \in [Agents -> Seq(Waiters)] /\ ToSet(asyncWaits'[a]) = ToSet(A) \ R
      /\ \A b \in Agents : b # a => asyncWaits'[b] = asyncWaits[b]
  <2>1. Kept(A, ToSet(A) \ R) \in Seq(Waiters)
    BY <1>3, KeptList
  <2>2. ToSet(Kept(A, ToSet(A) \ R)) = ToSet(A) \cap (ToSet(A) \ R)
    BY <1>3, KeptList
  <2> QED
    BY <1>1, <1>2, <2>1, <2>2, TypeParts
<1>6. waiters' \in Seq(Waiters) /\ ToSet(waiters') = ToSet(waiters) \ R
  <2>1. waiters' \in Seq(Waiters) /\ ToSet(waiters') = ToSet(waiters) \cap (ToSet(waiters) \ R)
    BY <1>2, <1>3, KeptList
  <2> QED
    BY <2>1
<1>7. /\ \A w \in Waiters : w \notin R => result'[w] = result[w] /\ plan'[w] = plan[w]
      /\ \A w \in R : result'[w] = IF w \in woken THEN "ok" ELSE "timed-out"
  BY <1>2, <1>4
<1>8. Types'
  <2>1. result' \in [Waiters -> {"none", "ok", "timed-out"}]
    <3>1. \A w \in Waiters : result'[w] \in {"none", "ok", "timed-out"}
      BY <1>1, <1>7, TypeParts
    <3> QED
      BY <1>2, <3>1
  <2>2. deadline' \in [Waiters -> 0 .. Forever]
    <3>1. 0 \in 0 .. Forever /\ deadline \in [Waiters -> 0 .. Forever]
      BY ShapeAssumption, InvParts DEF Forever
    <3> QED
      BY <1>2, <3>1
  <2>3. plan' \in [Waiters -> Plans \cup {NoPlan}]
    BY <1>1, <1>2, TypeParts
  <2>4. st' \in [Agents -> States] /\ ret' \in [Agents -> {"loop", "pick"}]
    BY <1>1, <1>2, TypeParts DEF States, TypeOK
  <2>5. fired' \in [Agents -> 0 .. MaxMacrotasks]
    <3>1. fired \in [Agents -> 0 .. MaxMacrotasks] /\ MaxMacrotasks \in Nat
      BY <1>1, TypeParts, ShapeAssumption
    <3>2. fired[a] + 1 \in 0 .. MaxMacrotasks
      BY <1>2, <3>1
    <3> QED
      BY <1>2, <3>1, <3>2
  <2> QED
    BY <1>1, <1>2, <1>5, <1>6, <2>1, <2>2, <2>3, <2>4, <2>5 DEF Types, TypeOK, LoopTypes
<1>9. st'[a] \in {"pick", "run"} /\ \A b \in Agents : b # a => st'[b] = st[b]
  BY <1>1, <1>2, TypeParts
<1>10. Control'
  <2>1. ASSUME NEW b \in Agents, b # a PROVE Control!(b)'
    <3>1. Current(b)' = Current(b)
      BY <1>2 DEF Current
    <3>2. st[b] = "plan" => Current(b) \in Waiters /\ Current(b) \notin R
      BY <1>1, <1>4, <2>1, CurrentIs DEF Busy
    <3>3. st'[b] = st[b] /\ cur'[b] = cur[b] /\ local'[b] = local[b]
      BY <1>2, <1>9, <2>1
    <3>4. st[b] = "plan" => /\ result'[Current(b)] = result[Current(b)]
                            /\ Current(b) \notin ToSet(waiters) => Current(b) \notin ToSet(waiters')
      BY <1>6, <1>7, <3>2
    <3>5. used' = used /\ started' = started /\ woken' = woken
      BY <1>2
    <3> QED
      BY <1>1, <3>1, <3>3, <3>4, <3>5 DEF Control, At
  <2>2. Control!(a)'
    BY <1>1, <1>2, <1>9 DEF Control, At, Busy
  <2> QED
    BY <2>1, <2>2 DEF Control
<1>11. Begun'
  <2> SUFFICES ASSUME NEW w \in Waiters,
                      w \in ToSet(waiters') \/ w \in woken' \/ w \in ToSet(asyncWaits'[w[1]]) \/ result'[w] # "none"
               PROVE  w[2] <= used'[w[1]]
    BY DEF Begun
  <2>1. w[1] \in Agents
    BY WaiterParts
  <2>2. w \in ToSet(asyncWaits'[w[1]]) => w \in ToSet(asyncWaits[w[1]])
    BY <1>5, <2>1
  <2>3. result'[w] # "none" => result[w] # "none" \/ w \in ToSet(asyncWaits[w[1]])
    BY <1>4, <1>7
  <2> QED
    BY <1>1, <1>2, <1>6, <2>2, <2>3 DEF Begun
<1>12. Promises'
  BY <1>1, <1>5 DEF Promises
<1>13. Answered'
  BY <1>1, <1>2, <1>4, <1>6, <1>7 DEF Answered
<1>14. Owned'
  <2> SUFFICES ASSUME NEW w \in ToSet(waiters), w \notin R PROVE Tended(w)'
    BY <1>6 DEF Owned
  <2>1. w[1] \in Agents /\ Tended(w)
    BY <1>1, TypeParts, WaiterParts DEF Owned
  <2>2. CASE w[1] = a
    <3>1. w \in ToSet(A)
      BY <1>2, <2>2, UnblockedOwns DEF Blocking
    <3> QED
      BY <1>5, <2>2, <3>1 DEF Tended
  <2>3. CASE w[1] # a
    BY <1>2, <1>5, <1>9, <2>1, <2>3 DEF Tended, Current
  <2> QED
    BY <2>2, <2>3
<1>15. Ordered'
  <2>1. \A w \in ToSet(waiters') : plan'[w].loc = plan[w].loc
    BY <1>1, <1>6, <1>7, TypeParts
  <2> QED
    BY <1>1, <1>2, <2>1, TypeParts, OrderLeaves
<1>16. Ended'
  <2>1. \A b \in Agents : st'[b] = "dead" => b # a /\ st[b] = "dead" /\ fired'[b] = fired[b] /\ exiting'[b] = exiting[b]
    BY <1>1, <1>2, <1>9, TypeParts
  <2> QED
    BY <1>1, <1>5, <2>1 DEF Ended, At, CutShort
<1> QED
  BY <1>8, <1>10, <1>11, <1>12, <1>13, <1>14, <1>15, <1>16 DEF WaitInv

-----------------------------------------------------------------------------
(* The invariant *)

LEMMA WaitStep == WaitInv /\ [Next]_vars => WaitInv'
<1> SUFFICES ASSUME WaitInv, [Next]_vars PROVE WaitInv'
  OBVIOUS
<1>1. CASE UNCHANGED vars \/ Tick \/ RunScript
  <2>1. Root \in Agents
    BY ShapeAssumption
  <2> QED
    BY <1>1, <2>1, QuietSteps
<1>2. ASSUME NEW a \in Agents, Script(a) PROVE WaitInv'
  <2>1. CASE \/ (\E l \in Locs : Store(a, l)) \/ ScriptEnd(a) \/ Start(a)
             \/ Exit(a) \/ \E t \in {"none", "once", "interval"} : SetTimer(a, t)
    BY <2>1, QuietSteps
  <2>2. CASE \E l \in Locs : \E k \in Counts : Notify(a, l, k)
    BY <2>2, NotifyKeeps
  <2>3. CASE \E p \in Plans : WaitCheck(a, p)
    BY <2>3, WaitCheckKeeps
  <2> QED
    BY <1>2, <2>1, <2>2, <2>3 DEF Script
<1>3. ASSUME NEW a \in Agents, Engine(a) PROVE WaitInv'
  <2>1. CASE Preempt(a) \/ Enter(a) \/ LoopEnd(a) \/ LoopCapped(a) \/ LoopExits(a) \/ FireTimer(a)
    BY <2>1, QuietSteps
  <2>2. CASE Park(a) \/ ParkAsync(a)
    BY <2>2, ParkKeeps, ParkAsyncKeeps
  <2>3. CASE ParkReturn(a) \/ FinishAsyncWait(a)
    BY <2>3, AnswerKeeps
  <2>4. CASE \E r \in {"ok", "timed-out"} : Unpark(a, r) \/ ServiceEnds(a, r)
    BY <2>4, ParkEndsKeeps
  <2>5. CASE SettleReady(a)
    BY <2>5, SettleReadyKeeps
  <2>6. CASE \E n \in 1 .. MaxWaits : Service(a, n)
    BY <2>6, ServiceKeeps
  <2> QED
    BY <1>3, <2>1, <2>2, <2>3, <2>4, <2>5, <2>6 DEF Engine
<1> QED
  BY <1>1, <1>2, <1>3 DEF Next

(* Every reachable state satisfies the invariant: each entry of the wait     *)
(* list belongs to an agent that is blocked on it or holds its promise.      *)
THEOREM WaitInvariance == Spec => []WaitInv
BY WaitInit, WaitStep, PTL DEF Spec

(* A wait answers "ok" exactly when a notify counted it, whichever of the    *)
(* wake channel and the timer its select took (atomicsPark, finishAsyncWait, *)
(* settleReadyAsyncWaits).                                                   *)
THEOREM CountedWaitsAnswerOk == Spec => []CountedMeansOk
<1>1. WaitInv => CountedMeansOk
  BY DEF WaitInv, Answered, CountedMeansOk
<1> QED
  BY <1>1, WaitInvariance, PTL

(* On one cell nobody sleeps before a waiter that was woken; each entry is   *)
(* its agent's, which is blocked on it or holds its promise; and an agent    *)
(* leaves entries behind when it ends only if process.exit or the cap on its *)
(* turns ended its loop (atomicsWake, serviceAsyncWaits, runEventLoop).      *)
THEOREM WaitListIsSound == Spec => []WaitListSound
<1>1. ASSUME WaitInv PROVE WaitListSound
  <2>1. /\ Types /\ TypeOK /\ Owned /\ Ordered /\ Ended
    BY <1>1, InvParts
  <2>2. WokenInArrivalOrder
    <3> SUFFICES ASSUME NEW i \in DOMAIN waiters, NEW j \in DOMAIN waiters, i < j,
                        plan[waiters[i]].loc = plan[waiters[j]].loc, waiters[j] \in woken
                 PROVE  waiters[i] \in woken
      BY DEF WokenInArrivalOrder
    <3>1. DOMAIN waiters = 1 .. Len(waiters) /\ waiters[i] \in Waiters /\ waiters[j] \in Waiters
      BY <2>1, TypeParts
    <3>2. Before(waiters, waiters[i], waiters[j])
      BY <3>1 DEF Before
    <3> QED
      BY <2>1, <3>1, <3>2 DEF Ordered
  <2>3. LeftOnlyIfCutShort
    <3> SUFFICES ASSUME NEW w \in ToSet(waiters), st[w[1]] = "dead" PROVE CutShort(w[1])
      BY DEF LeftOnlyIfCutShort, At
    <3>1. w[1] \in Agents
      BY <2>1, TypeParts, WaiterParts
    <3>2. w \in ToSet(asyncWaits[w[1]])
      BY <1>1, <3>1, UnblockedOwns DEF Blocking
    <3> QED
      BY <2>1, <3>1, <3>2 DEF Ended, At
  <2> QED
    BY <2>1, <2>2, <2>3 DEF WaitListSound
<1> QED
  BY <1>1, WaitInvariance, PTL

-----------------------------------------------------------------------------
(* No wakeup is lost *)

(* While one agent runs, the others that are between comparison and wait     *)
(* list are those whose timeouts run code.                                   *)
LEMMA OthersCoerce ==
  ASSUME Undisturbed, NEW b \in Agents, turn = b, b \in program.coerces \/ st[b] # "plan",
         NEW a \in Agents, st[a] = "plan"
  PROVE  a \in program.coerces
BY DEF Undisturbed, At

LEMMA UndisturbedStep == WaitInv /\ Undisturbed /\ [Next]_vars => Undisturbed'
<1> SUFFICES ASSUME WaitInv, Undisturbed, [Next]_vars
             PROVE  Undisturbed'
  OBVIOUS
<1> DEFINE C == program.coerces
           Good == /\ \A w \in missed' : w[1] \in C
                   /\ \A b \in Agents : st'[b] = "plan" => turn' = b \/ b \in C
<1>0. ASSUME program' = program, Good PROVE Undisturbed'
  BY <1>0 DEF Undisturbed, At
<1> USE DEF At, Does, Runs, Goto, KeepTurn, waitVars, loopVars
<1>1. /\ st \in [Agents -> States] /\ ret \in [Agents -> {"loop", "pick"}] /\ Nobody \notin Agents /\ Root \in Agents
      /\ \A w \in missed : w[1] \in C
      /\ \A a \in Agents : st[a] = "plan" => turn = a \/ a \in C
  BY InvParts, TypeParts, ShapeAssumption DEF TypeOK, Undisturbed
<1> HIDE DEF C
<1>2. CASE UNCHANGED vars
  BY <1>0, <1>1, <1>2 DEF vars
<1>3. CASE Tick
  BY <1>0, <1>1, <1>3 DEF Tick
<1>4. CASE RunScript
  BY <1>0, <1>1, <1>4 DEF RunScript
<1>5. ASSUME NEW a \in Agents, Script(a)
      PROVE  program' = program /\ Good
  <2>1. ASSUME NEW l \in Locs, Store(a, l) PROVE program' = program /\ Good
    BY <1>1, <2>1 DEF Store
  <2>2. ASSUME NEW l \in Locs, NEW k \in Counts, Notify(a, l, k)
        PROVE  program' = program /\ Good
    <3>1. \A w \in Planned(l) : w[1] \in C
      <4>1. \A b \in Agents : st[b] = "plan" => b \in C
        BY <2>2, OthersCoerce DEF Notify, C
      <4>2. \A w \in Planned(l) : \E b \in Agents : st[b] = "plan" /\ w = <<b, cur[b]>>
        BY DEF Planned, Current
      <4> QED
        BY <4>1, <4>2
    <3> QED
      BY <1>1, <2>2, <3>1 DEF Notify, Discharge
  <2>3. ASSUME NEW p \in Plans, WaitCheck(a, p) PROVE program' = program /\ Good
    BY <1>1, <2>3 DEF WaitCheck
  <2>4. CASE Exit(a) \/ \E t \in {"none", "once", "interval"} : SetTimer(a, t)
    BY <1>1, <2>4 DEF Exit, SetTimer
  <2>5. CASE ScriptEnd(a)
    BY <1>1, <2>5 DEF ScriptEnd
  <2>6. CASE Start(a)
    BY <1>1, <2>6 DEF Start
  <2> QED
    BY <1>5, <2>1, <2>2, <2>3, <2>4, <2>5, <2>6 DEF Script
<1>6. ASSUME NEW a \in Agents, Engine(a)
      PROVE  program' = program /\ Good
  <2>1. CASE Preempt(a)
    <3>1. \A b \in Agents : st[b] = "plan" => b \in C
      BY <2>1, OthersCoerce DEF Preempt, C
    <3> QED
      BY <1>1, <2>1, <3>1 DEF Preempt
  <2>2. CASE Enter(a) \/ \E r \in {"ok", "timed-out"} : Unpark(a, r) \/ ServiceEnds(a, r)
    BY <1>1, <2>2 DEF Enter, Unpark, ServiceEnds, ParkEnds, Turn!Ask
  <2>3. CASE Park(a) \/ ParkAsync(a) \/ ParkReturn(a) \/ FinishAsyncWait(a)
    <3>1. /\ turn = a /\ missed' = missed /\ \E x \in {"run", "parked"} : st' = [st EXCEPT ![a] = x]
          /\ program' = program
      BY <2>3 DEF Park, ParkAsync, ParkReturn, FinishAsyncWait
    <3> QED
      BY <1>1, <3>1
  <2>4. CASE SettleReady(a) \/ FireTimer(a) \/ \E n \in 1 .. MaxWaits : Service(a, n)
    <3>1. /\ turn = a /\ missed' = missed /\ \E x \in {"run", "pick", "service"} : st' = [st EXCEPT ![a] = x]
          /\ program' = program
      BY <2>4 DEF SettleReady, FireTimer, Service
    <3> QED
      BY <1>1, <3>1
  <2>5. CASE LoopEnd(a) \/ LoopCapped(a) \/ LoopExits(a)
    <3>1. /\ turn = a /\ missed' = missed /\ \E x \in {"idle", "dead"} : st' = [st EXCEPT ![a] = x]
          /\ program' = program
      BY <2>5 DEF LoopEnd, LoopCapped, LoopExits, Leave
    <3> QED
      BY <1>1, <3>1
  <2> QED
    BY <1>6, <2>1, <2>2, <2>3, <2>4, <2>5 DEF Engine
<1> QED
  BY <1>0, <1>2, <1>3, <1>4, <1>5, <1>6 DEF Next

(* A step after which nobody new is on the list or compared, and whoever was *)
(* has still heard.                                                          *)
LEMMA HearingStays ==
  ASSUME Hearing,
         \A w \in ToSet(waiters') : w \in ToSet(waiters) /\ (Heard(w) => Heard(w)'),
         \A a \in Agents : st'[a] = "plan" => st[a] = "plan" /\ (Heard(Current(a)) => Heard(Current(a))')
  PROVE  Hearing'
BY DEF Hearing, At

(* A step that leaves cells, plans and what is owed alone. *)
LEMMA IdleHearing ==
  ASSUME Hearing, waiters' = waiters, woken' = woken, plan' = plan, mem' = mem, owed' = owed, missed' = missed,
         \A a \in Agents : st'[a] = "plan" => st[a] = "plan" /\ cur'[a] = cur[a]
  PROVE  Hearing'
BY HearingStays DEF Heard, Current

(* notify without a count wakes everybody who sleeps on the cell. *)
LEMMA NotifyAll ==
  ASSUME WaitInv, NEW a \in Agents, NEW l \in Locs, Notify(a, l, MaxWaiters)
  PROVE  \A w \in ToSet(waiters) : plan[w].loc = l => w \in woken'
<1> DEFINE K == {w \in ToSet(waiters) \ woken : plan[w].loc = l}
           t == Kept(waiters, K)
           m == Least(MaxWaiters, Len(t))
           N == ToSet(SubSeq(t, 1, m))
<1>1. waiters \in Seq(Waiters) /\ Once(waiters)
  BY InvParts, TypeParts DEF Ordered
<1>2. t \in Seq(Waiters) /\ Once(t)
  BY <1>1, KeptList
<1>3. Len(t) \in Nat /\ Len(t) <= MaxWaiters /\ MaxWaiters \in Nat
  BY <1>2, ListIsShort
<1>4. m = Len(t)
  BY <1>3 DEF Least
<1>5. m \in 0 .. Len(t)
  BY <1>3, <1>4
<1> HIDE DEF K, m
<1>6. N = ToSet(waiters) \cap K
  BY <1>1, <1>4, <1>5, FirstOfKept
<1>7. woken' = woken \cup N
  BY DEF Notify, Sleeping, K, m
<1> QED
  BY <1>6, <1>7 DEF K

LEMMA StoreHearing ==
  ASSUME WaitInv, Hearing, NEW a \in Agents, NEW l \in Locs, Store(a, l)
  PROVE  Hearing'
<1>1. /\ mem' = [mem EXCEPT ![l] = 1 - @] /\ owed' = owed \cup {l} /\ waiters' = waiters /\ woken' = woken
      /\ plan' = plan /\ missed' = missed /\ st' = st /\ cur' = cur
  BY DEF Store, waitVars
<1>2. mem \in [Locs -> {0, 1}] /\ plan \in [Waiters -> Plans \cup {NoPlan}] /\ Types /\ Control
  BY InvParts, TypeParts DEF TypeOK
<1>3. ASSUME NEW w \in Waiters, Heard(w) PROVE Heard(w)'
  <2>1. plan[w] \in Plans \cup {NoPlan}
    BY <1>2
  <2>2. plan[w].loc \in Locs
    <3>1. CASE plan[w] \in Plans
      BY <3>1 DEF Plans
    <3>2. CASE plan[w] = NoPlan
      <4>1. (CHOOSE x \in Locs : TRUE) \in Locs
        OBVIOUS
      <4> QED
        BY <3>2, <4>1 DEF NoPlan
    <3> QED
      BY <2>1, <3>1, <3>2
  <2>3. plan[w].loc = l \/ mem'[plan[w].loc] = mem[plan[w].loc]
    BY <1>1, <1>2, <2>2
  <2> QED
    BY <1>1, <1>3, <2>3 DEF Heard
<1>4. \A w \in ToSet(waiters) : w \in Waiters
  BY <1>2, TypeParts
<1>5. \A b \in Agents : st[b] = "plan" => Current(b) \in Waiters /\ Current(b)' = Current(b)
  BY <1>1, <1>2, CurrentIs DEF Busy, Current
<1> QED
  BY <1>1, <1>3, <1>4, <1>5, HearingStays

LEMMA NotifyHearing ==
  ASSUME WaitInv, Hearing, NEW a \in Agents, NEW l \in Locs, NEW k \in Counts, Notify(a, l, k)
  PROVE  Hearing'
<1>1. /\ waiters' = waiters /\ plan' = plan /\ mem' = mem /\ woken \subseteq woken' /\ st' = st /\ cur' = cur
      /\ \/ owed' = owed /\ missed' = missed
         \/ k = MaxWaiters /\ owed' = owed \ {l} /\ missed' = missed \cup Planned(l)
  BY DEF Notify, Discharge
<1>2. k = MaxWaiters => \A w \in ToSet(waiters) : plan[w].loc = l => w \in woken'
  BY NotifyAll
<1>3. \A b \in Agents : st[b] = "plan" /\ plan[Current(b)].loc = l => Current(b) \in Planned(l)
  BY DEF Planned, At
<1>4. \A w \in ToSet(waiters) : Heard(w) => Heard(w)'
  BY <1>1, <1>2 DEF Heard
<1>5. ASSUME NEW b \in Agents, st[b] = "plan", Heard(Current(b)) PROVE Heard(Current(b))'
  <2>1. Current(b)' = Current(b)
    BY <1>1 DEF Current
  <2> QED
    BY <1>1, <1>3, <1>5, <2>1 DEF Heard
<1> QED
  BY <1>1, <1>4, <1>5, HearingStays

LEMMA WaitCheckHearing ==
  ASSUME WaitInv, Hearing, NEW a \in Agents, NEW p \in Plans, WaitCheck(a, p)
  PROVE  Hearing'
<1> DEFINE n == used[a] + 1
<1>0. PICK v : v = <<a, n>>
  OBVIOUS
<1>1. /\ mem[p.loc] = p.want /\ mem' = mem /\ waiters' = waiters /\ woken' = woken /\ missed' = missed
      /\ owed' = owed /\ cur' = [cur EXCEPT ![a] = n] /\ plan' = [plan EXCEPT ![v] = p]
      /\ st[a] = "run" /\ st' = [st EXCEPT ![a] = "plan"] /\ used[a] < MaxWaits
  BY <1>0 DEF WaitCheck, Does, At, Goto
<1>2. /\ Types /\ Control /\ Begun /\ plan \in [Waiters -> Plans \cup {NoPlan}] /\ st \in [Agents -> States]
      /\ cur \in [Agents -> 0 .. MaxWaits] /\ ToSet(waiters) \subseteq Waiters
      /\ used[a] \in 0 .. MaxWaits /\ MaxWaits \in Nat
  BY InvParts, TypeParts
<1>3. n \in 1 .. MaxWaits /\ ~ (n <= used[a])
  BY <1>1, <1>2
<1>4. v \in Waiters /\ v[1] = a /\ v[2] = n
  BY <1>0, <1>3, WaiterParts
<1>5. v \notin ToSet(waiters)
  BY <1>2, <1>3, <1>4 DEF Begun
<1> HIDE DEF n
<1>6. Current(a)' = v /\ plan'[v] = p /\ Heard(v)'
  <2>1. cur'[a] = n /\ plan'[v] = p
    BY <1>1, <1>2, <1>4
  <2> QED
    BY <1>0, <1>1, <2>1 DEF Current, Heard
<1>7. \A w \in Waiters : w # v /\ Heard(w) => Heard(w)'
  BY <1>1, <1>2 DEF Heard
<1>8. ASSUME NEW b \in Agents, b # a, st'[b] = "plan" PROVE Heard(Current(b))'
  <2>1. st[b] = "plan" /\ Current(b)' = Current(b) /\ Current(b) \in Waiters /\ Current(b)[1] = b
    BY <1>1, <1>2, <1>8, CurrentIs DEF Busy, Current
  <2>2. Current(b) # v
    BY <1>4, <1>8, <2>1
  <2>3. Heard(Current(b))
    BY <2>1 DEF Hearing, At
  <2> QED
    BY <1>7, <2>1, <2>2, <2>3
<1>9. \A w \in ToSet(waiters') : Heard(w)'
  BY <1>1, <1>2, <1>5, <1>7 DEF Hearing
<1>10. \A b \in Agents : st'[b] = "plan" => Heard(Current(b))'
  <2>1. Heard(Current(a))'
    BY <1>6 DEF Heard
  <2> QED
    BY <1>8, <2>1
<1> QED
  BY <1>9, <1>10 DEF Hearing, At

LEMMA JoinHearing ==
  ASSUME WaitInv, Hearing, NEW a \in Agents, Park(a) \/ ParkAsync(a)
  PROVE  Hearing'
<1> DEFINE v == Current(a)
<1>1. /\ st[a] = "plan" /\ waiters' = Append(waiters, v) /\ mem' = mem /\ woken' = woken /\ plan' = plan
      /\ owed' = owed /\ missed' = missed /\ \E x \in {"run", "parked"} : st' = [st EXCEPT ![a] = x]
      /\ cur' = cur \/ cur' = [cur EXCEPT ![a] = 0]
  BY DEF Park, ParkAsync, Does, At, Goto
<1>2. st \in [Agents -> States] /\ cur \in [Agents -> 0 .. MaxWaits]
  BY InvParts, TypeParts
<1>3. ToSet(waiters') = ToSet(waiters) \cup {v}
  BY <1>1, Joins
<1>4. \A w : Heard(w)' <=> Heard(w)
  BY <1>1 DEF Heard
<1>5. Heard(v)
  BY <1>1 DEF Hearing, At
<1>6. \A b \in Agents : st'[b] = "plan" => b # a /\ st[b] = "plan" /\ Current(b)' = Current(b)
  BY <1>1, <1>2 DEF Current
<1> HIDE DEF v
<1>7. \A w \in ToSet(waiters') : Heard(w)'
  BY <1>3, <1>4, <1>5 DEF Hearing
<1>8. \A b \in Agents : st'[b] = "plan" => Heard(Current(b))'
  <2> SUFFICES ASSUME NEW b \in Agents, st'[b] = "plan" PROVE Heard(Current(b))'
    OBVIOUS
  <2>1. Heard(Current(b)) /\ Current(b)' = Current(b)
    BY <1>6 DEF Hearing, At
  <2> QED
    BY <1>1, <2>1 DEF Heard
<1> QED
  BY <1>7, <1>8 DEF Hearing, At

(* Waits are answered: those of one agent, which is not comparing. *)
LEMMA AnswerHearing ==
  ASSUME WaitInv, Hearing, NEW a \in Agents, ParkReturn(a) \/ FinishAsyncWait(a) \/ SettleReady(a)
  PROVE  Hearing'
<1>1. /\ Types /\ Control /\ Promises /\ waiters \in Seq(Waiters) /\ ToSet(waiters) \subseteq Waiters
      /\ st \in [Agents -> States] /\ cur \in [Agents -> 0 .. MaxWaits] /\ plan \in [Waiters -> Plans \cup {NoPlan}]
  BY InvParts, TypeParts
<1>2. PICK R : /\ \A w \in R : w[1] = a
               /\ waiters' = Kept(waiters, ToSet(waiters) \ R)
               /\ \A w \in Waiters : w \notin R => plan'[w] = plan[w]
  <2>1. CASE ParkReturn(a) \/ FinishAsyncWait(a)
    <3> DEFINE R == {Current(a)}
    <3>1. waiters' = Kept(waiters, ToSet(waiters) \ R) /\ plan' = [plan EXCEPT ![Current(a)] = NoPlan]
      BY <2>1 DEF ParkReturn, FinishAsyncWait, Answer, Without
    <3>2. \A w \in R : w[1] = a
      BY DEF Current
    <3>3. \A w \in Waiters : w \notin R => plan'[w] = plan[w]
      BY <1>1, <3>1
    <3> HIDE DEF R
    <3> QED
      BY <3>1, <3>2, <3>3
  <2>2. CASE SettleReady(a)
    <3> DEFINE R == {w \in ToSet(asyncWaits[a]) : w \in woken \/ Expired(w)}
    <3>1. /\ waiters' = Kept(waiters, ToSet(waiters) \ R)
          /\ plan' = [w \in Waiters |-> IF w \in R THEN NoPlan ELSE plan[w]]
      BY <2>2 DEF SettleReady
    <3>2. \A w \in R : w[1] = a
      BY <1>1 DEF Promises
    <3>3. \A w \in Waiters : w \notin R => plan'[w] = plan[w]
      BY <3>1
    <3> HIDE DEF R
    <3> QED
      BY <3>1, <3>2, <3>3
  <2> QED
    BY <2>1, <2>2
<1>3. /\ mem' = mem /\ woken' = woken /\ owed' = owed /\ missed' = missed
      /\ \E x \in {"run", "pick"} : st' = [st EXCEPT ![a] = x]
      /\ cur' = cur \/ cur' = [cur EXCEPT ![a] = 0]
  BY DEF ParkReturn, FinishAsyncWait, SettleReady, Answer, Goto
<1>4. ToSet(waiters') = ToSet(waiters) \cap (ToSet(waiters) \ R)
  BY <1>1, <1>2, KeptList
<1>5. \A w \in Waiters : w \notin R => (Heard(w)' <=> Heard(w))
  BY <1>2, <1>3 DEF Heard
<1>6. \A w \in ToSet(waiters') : w \in ToSet(waiters) /\ (Heard(w) => Heard(w)')
  BY <1>1, <1>4, <1>5
<1>7. ASSUME NEW b \in Agents, st'[b] = "plan" PROVE st[b] = "plan" /\ (Heard(Current(b)) => Heard(Current(b))')
  <2>1. b # a /\ st[b] = "plan" /\ Current(b)' = Current(b)
    BY <1>1, <1>3, <1>7 DEF Current
  <2>2. Current(b) \in Waiters /\ Current(b)[1] = b
    BY <1>1, <2>1, CurrentIs DEF Busy
  <2>3. Current(b) \notin R
    BY <1>2, <2>1, <2>2
  <2> QED
    BY <1>5, <2>1, <2>2, <2>3
<1> QED
  BY <1>6, <1>7, HearingStays

LEMMA HearingStep == WaitInv /\ Hearing /\ [Next]_vars => Hearing'
<1> SUFFICES ASSUME WaitInv, Hearing, [Next]_vars PROVE Hearing'
  OBVIOUS
<1> USE DEF At, Does, Runs, Goto, KeepTurn, waitVars, loopVars
<1>1. st \in [Agents -> States] /\ ret \in [Agents -> {"loop", "pick"}] /\ cur \in [Agents -> 0 .. MaxWaits]
  BY InvParts, TypeParts DEF TypeOK
<1>2. CASE UNCHANGED vars
  BY <1>2, IdleHearing DEF vars
<1>3. CASE Tick \/ RunScript
  BY <1>1, <1>3, IdleHearing DEF Tick, RunScript
<1>4. ASSUME NEW a \in Agents, Script(a) PROVE Hearing'
  <2>1. CASE ScriptEnd(a) \/ Start(a) \/ Exit(a) \/ \E t \in {"none", "once", "interval"} : SetTimer(a, t)
    <3>1. /\ waiters' = waiters /\ woken' = woken /\ plan' = plan /\ mem' = mem /\ owed' = owed /\ missed' = missed
          /\ cur' = cur
          /\ st' = st \/ \E x \in {"loop", "pick", "born"} : st' = [st EXCEPT ![a] = x]
      BY <1>1, <2>1 DEF ScriptEnd, Start, Exit, SetTimer
    <3> QED
      BY <1>1, <3>1, IdleHearing
  <2> QED
    BY <1>4, <2>1, StoreHearing, NotifyHearing, WaitCheckHearing DEF Script
<1>5. ASSUME NEW a \in Agents, Engine(a) PROVE Hearing'
  <2>1. CASE Preempt(a)
    BY <2>1, IdleHearing DEF Preempt
  <2>2. CASE \/ Enter(a) \/ FireTimer(a) \/ LoopEnd(a) \/ LoopCapped(a) \/ LoopExits(a)
             \/ \E r \in {"ok", "timed-out"} : Unpark(a, r) \/ ServiceEnds(a, r)
    <3>1. /\ waiters' = waiters /\ woken' = woken /\ plan' = plan /\ mem' = mem /\ owed' = owed /\ missed' = missed
          /\ cur' = cur /\ \E x \in {"run", "unpark", "finish", "idle", "dead"} : st' = [st EXCEPT ![a] = x]
      BY <2>2 DEF Enter, FireTimer, LoopEnd, LoopCapped, LoopExits, Leave, Unpark, ServiceEnds, ParkEnds
    <3> QED
      BY <1>1, <3>1, IdleHearing
  <2>3. CASE \E n \in 1 .. MaxWaits : Service(a, n)
    <3>1. /\ waiters' = waiters /\ woken' = woken /\ plan' = plan /\ mem' = mem /\ owed' = owed /\ missed' = missed
          /\ (\E n \in 1 .. MaxWaits : cur' = [cur EXCEPT ![a] = n]) /\ st' = [st EXCEPT ![a] = "service"]
      BY <2>3 DEF Service
    <3> QED
      BY <1>1, <3>1, IdleHearing
  <2>4. CASE Park(a) \/ ParkAsync(a)
    BY <2>4, JoinHearing
  <2>5. CASE ParkReturn(a) \/ FinishAsyncWait(a) \/ SettleReady(a)
    BY <2>5, AnswerHearing
  <2> QED
    BY <1>5, <2>1, <2>2, <2>3, <2>4, <2>5 DEF Engine
<1> QED
  BY <1>2, <1>3, <1>4, <1>5 DEF Next

(* An agent that sleeps on a cell which no longer holds what it waited for   *)
(* is owed a notify, unless the notify came while the timeout of its wait    *)
(* was coerced.  If no coercion runs code, no store and notify fall into the *)
(* gap between atomicsWaitCheck and the append of atomicsPark and parkAsync. *)
THEOREM NoWakeupIsLost == Spec => []NoLostWakeup
<1>1. Init => WaitInv /\ Hearing /\ Undisturbed
  <2>1. ASSUME Init PROVE Hearing /\ Undisturbed
    <3>1. ToSet(waiters) = {} /\ missed = {}
      BY <2>1 DEF Init, ToSet
    <3>2. \A a \in Agents : st[a] # "plan"
      BY <2>1 DEF Init
    <3> QED
      BY <3>1, <3>2 DEF Hearing, Undisturbed, At
  <2> QED
    BY <2>1, WaitInit
<1>2. WaitInv /\ Hearing /\ Undisturbed /\ [Next]_vars => (WaitInv /\ Hearing /\ Undisturbed)'
  BY WaitStep, HearingStep, UndisturbedStep
<1>3. Hearing /\ Undisturbed => NoLostWakeup
  BY DEF Hearing, Undisturbed, NoLostWakeup
<1> QED
  BY <1>1, <1>2, <1>3, PTL DEF Spec
=============================================================================
