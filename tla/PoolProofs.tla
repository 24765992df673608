----------------------------- MODULE PoolProofs -----------------------------
(***************************************************************************)
(* Proofs about Pool, for any jobs, any Runtimes and any limits: leases are *)
(* exclusive, what is leased is open, what is parked is fit, what was       *)
(* abandoned never runs again, and live counts what there is.              *)
(***************************************************************************)
EXTENDS Pool, TLAPS, FiniteSetTheorems

(* No Runtime is in the list twice. *)
Distinct(s) == \A m, n \in DOMAIN s : s[m] = s[n] => m = n

(* Do has a Runtime that is neither parked nor closed yet. *)
Owns(j) == Leases(j) \/ At(j, "close")

(* Who owns a Runtime is its only user, and it is open and not parked. *)
OwnInv ==
  /\ \A i, j \in Jobs : Owns(i) /\ Owns(j) /\ rt[i] = rt[j] => i = j
  /\ \A j \in Jobs : Owns(j) => /\ rt[j] \in made
                                /\ rt[j] \notin gone /\ rt[j] \notin closing
                                /\ rt[j] \notin ToSet(free)

(* The Runtimes that were built and where they are; the others are fresh.    *)
MadeInv ==
  /\ closing \subseteq made /\ gone \subseteq made
  /\ \A r \in Runtimes \ made : ~dirty[r] /\ uses[r] = 0

(* What is parked is open, clean and not used up. *)
ParkInv ==
  /\ Distinct(free)
  /\ \A r \in ToSet(free) : /\ r \in made /\ r \notin gone /\ r \notin closing
                            /\ ~dirty[r] /\ (MaxUses > 0 => uses[r] < MaxUses)
  /\ MaxIdle > 0 => Len(free) <= MaxIdle
  /\ closed => free = <<>>

(* A leased Runtime was fit when it was leased, and if it no longer is, the  *)
(* job knows why.                                                            *)
LeaseInv ==
  \A j \in Jobs : Leases(j) => /\ dirty[rt[j]] => fate[j] = "pollutes"
                               /\ MaxUses > 0 => uses[rt[j]] < MaxUses

(* What Do's locals say at each point. *)
LocalInv ==
  \A j \in Jobs :
    /\ pc[j] \in {"new", "acquire", "build"} => rt[j] = NoRt
    /\ pc[j] \in {"new", "acquire", "build", "clear", "lease", "scope", "run"} => fate[j] = "none"
    /\ pc[j] \notin {"unwind", "finish", "close", "returned"} => err[j] = "none"
    /\ pc[j] \notin {"unwind", "finish", "close", "returned"} => ~reusable[j]
    /\ pc[j] \in {"after", "decide"} => fate[j] \notin {"none", "panic"}
    /\ reusable[j] => fate[j] \in {"ok", "error"} /\ err[j] # "ctx"

(* An abandoned Runtime has been closed. *)
AbandonInv == \A j \in Jobs : Abandons(j) => rt[j] \in gone

Rest == OwnInv /\ MadeInv /\ ParkInv /\ LeaseInv /\ LocalInv /\ AbandonInv
IInv == TypeOK /\ Rest

-----------------------------------------------------------------------------
(* The parked list as a set: what acquire takes and what release adds.       *)
LEMMA PopLast ==
  ASSUME NEW S, NEW s \in Seq(S), s # <<>>, Distinct(s)
  PROVE  /\ Last(s) \in S /\ Last(s) \in ToSet(s)
         /\ Front(s) \in Seq(S) /\ Distinct(Front(s))
         /\ Len(Front(s)) <= Len(s)
         /\ ToSet(Front(s)) = ToSet(s) \ {Last(s)}
<1> DEFINE n == Len(s)
<1>1. n \in Nat /\ n > 0 /\ DOMAIN s = 1..n /\ Last(s) = s[n]
  BY DEF Last
<1>2. /\ Front(s) \in Seq(S) /\ Len(Front(s)) = n - 1
      /\ \A i \in 1..(n - 1) : Front(s)[i] = s[i]
  BY <1>1 DEF Front
<1>3. DOMAIN Front(s) = 1..(n - 1)
  BY <1>1, <1>2
<1>4. Last(s) \in S /\ Last(s) \in ToSet(s)
  BY <1>1 DEF ToSet
<1>5. Distinct(Front(s))
  BY <1>1, <1>2, <1>3 DEF Distinct
<1>6. ToSet(Front(s)) = ToSet(s) \ {Last(s)}
  BY <1>1, <1>2, <1>3 DEF ToSet, Distinct
<1> QED
  BY <1>1, <1>2, <1>4, <1>5, <1>6

LEMMA ParkOne ==
  ASSUME NEW S, NEW s \in Seq(S), NEW x \in S, Distinct(s), x \notin ToSet(s)
  PROVE  /\ Append(s, x) \in Seq(S) /\ Distinct(Append(s, x))
         /\ Len(Append(s, x)) = Len(s) + 1
         /\ ToSet(Append(s, x)) = ToSet(s) \cup {x}
<1> DEFINE t == Append(s, x)
<1>1. /\ Len(s) \in Nat /\ DOMAIN s = 1..Len(s)
      /\ t \in Seq(S) /\ Len(t) = Len(s) + 1 /\ DOMAIN t = 1..(Len(s) + 1)
      /\ t[Len(s) + 1] = x /\ \A i \in 1..Len(s) : t[i] = s[i]
  OBVIOUS
<1>2. Distinct(t)
  BY <1>1 DEF Distinct, ToSet
<1>3. ToSet(t) = ToSet(s) \cup {x}
  BY <1>1 DEF ToSet
<1> QED
  BY <1>1, <1>2, <1>3

LEMMA NoneParked == ToSet(<<>>) = {} /\ Distinct(<<>>)
BY DEF ToSet, Distinct

-----------------------------------------------------------------------------
THEOREM InitInv == Init => IInv
<1> SUFFICES ASSUME Init PROVE IInv
  OBVIOUS
<1> USE PoolAssumption DEF Init
<1>1. TypeOK
  <2>1. free \in Seq(Runtimes) /\ live \in Int /\ closing \subseteq Runtimes /\ made \subseteq Runtimes
    OBVIOUS
  <2>2. uses \in [Runtimes -> Nat] /\ (MaxUses > 0 => \A r \in Runtimes : uses[r] <= MaxUses)
    OBVIOUS
  <2>3. /\ closed \in BOOLEAN /\ flag \in [Runtimes -> BOOLEAN] /\ dirty \in [Runtimes -> BOOLEAN]
        /\ reusable \in [Jobs -> BOOLEAN] /\ ctx \in [Jobs -> BOOLEAN] /\ gone \subseteq Runtimes
    BY Zenon
  <2>4. /\ pc \in [Jobs -> Points] /\ rt \in [Jobs -> Runtimes \cup {NoRt}]
        /\ fate \in [Jobs -> Ends]
        /\ err \in [Jobs -> {"none", "nil", "job", "ctx", "closed", "build"}]
        /\ watch \in [Jobs -> {"off", "on", "stopped", "firing"}]
    BY Zenon DEF Points, Ends
  <2> QED BY <2>1, <2>2, <2>3, <2>4 DEF TypeOK
<1>2. OwnInv /\ LeaseInv
  BY DEF OwnInv, LeaseInv, Owns, Leases, At
<1>3. MadeInv
  BY DEF MadeInv
<1>4. ParkInv
  BY NoneParked DEF ParkInv
<1>5. LocalInv /\ AbandonInv
  BY DEF LocalInv, AbandonInv, Abandons, At
<1> QED
  BY <1>1, <1>2, <1>3, <1>4, <1>5 DEF IInv, Rest


(* Every step keeps the types. *)
LEMMA TypeStep == ASSUME IInv, [Next]_vars PROVE TypeOK'
<1> USE PoolAssumption
<1>a. TypeOK /\ \A j \in Jobs : Owns(j) => rt[j] \in Runtimes
  <2>1. TypeOK /\ OwnInv
    BY DEF IInv, Rest
  <2>2. made \subseteq Runtimes
    BY <2>1 DEF TypeOK
  <2> QED
    BY <2>1, <2>2 DEF OwnInv
<1>b. \A j \in Jobs : Leases(j) => (MaxUses > 0 => uses[rt[j]] < MaxUses)
  BY DEF IInv, Rest, LeaseInv
<1>c. free # <<>> => Last(free) \in Runtimes /\ Front(free) \in Seq(Runtimes)
  BY PopLast DEF IInv, Rest, TypeOK, ParkInv
<1>1. CASE UNCHANGED vars
  BY <1>1, <1>a DEF TypeOK, vars, poolVars, rtVars, jobVars
<1>2. CASE PoolClose
  BY <1>2, <1>a DEF TypeOK, PoolClose, rtVars, jobVars, ToSet
<1>3. ASSUME NEW r \in Runtimes, CloseParked(r) PROVE TypeOK'
  BY <1>3, <1>a DEF TypeOK, CloseParked, jobVars
<1>4. ASSUME NEW j \in Jobs, Begin(j) PROVE TypeOK'
  BY <1>4, <1>a DEF TypeOK, Begin, At, Goto, Fails, Points, Ends, poolVars, rtVars, jobVars
<1>5. ASSUME NEW j \in Jobs, AcquireClosed(j) PROVE TypeOK'
  BY <1>5, <1>a DEF TypeOK, AcquireClosed, At, Goto, Fails, Points, Ends, poolVars, rtVars, jobVars
<1>6. ASSUME NEW j \in Jobs, AcquireParked(j) PROVE TypeOK'
  BY <1>6, <1>a, <1>c DEF TypeOK, AcquireParked, At, Goto, Fails, Points, Ends, poolVars, rtVars, jobVars
<1>7. ASSUME NEW j \in Jobs, AcquireClear(j) PROVE TypeOK'
  BY <1>7, <1>a DEF TypeOK, AcquireClear, At, Goto, Fails, Points, Ends, poolVars, rtVars, jobVars
<1>8. ASSUME NEW j \in Jobs, AcquireNew(j) PROVE TypeOK'
  BY <1>8, <1>a DEF TypeOK, AcquireNew, At, Goto, Fails, Points, Ends, poolVars, rtVars, jobVars
<1>9. ASSUME NEW j \in Jobs, NEW r \in Runtimes, Build(j, r) PROVE TypeOK'
  BY <1>9, <1>a DEF TypeOK, Build, At, Goto, Fails, Points, Ends, poolVars, rtVars, jobVars
<1>10. ASSUME NEW j \in Jobs, BuildFails(j) PROVE TypeOK'
  BY <1>10, <1>a DEF TypeOK, BuildFails, At, Goto, Fails, Points, Ends, poolVars, rtVars, jobVars
<1>11. ASSUME NEW j \in Jobs, Watch(j) PROVE TypeOK'
  BY <1>11, <1>a DEF TypeOK, Watch, At, Goto, Fails, Points, Ends, poolVars, rtVars, jobVars
<1>12. ASSUME NEW j \in Jobs, NewScope(j) PROVE TypeOK'
  BY <1>12, <1>a, ZenonT(40) DEF TypeOK, NewScope, At, Goto, Fails, Points, Ends, poolVars, rtVars, jobVars
<1>13. ASSUME NEW j \in Jobs, JobStops(j) PROVE TypeOK'
  BY <1>13, <1>a DEF TypeOK, JobStops, At, Goto, Fails, Points, Ends, poolVars, rtVars, jobVars
<1>14. ASSUME NEW j \in Jobs, AfterJob(j) PROVE TypeOK'
  BY <1>14, <1>a DEF TypeOK, AfterJob, At, Goto, Fails, Points, Ends, poolVars, rtVars, jobVars
<1>15. ASSUME NEW j \in Jobs, Decide(j) PROVE TypeOK'
  BY <1>15, <1>a DEF TypeOK, Decide, At, Goto, Fails, Points, Ends, poolVars, rtVars, jobVars
<1>16. ASSUME NEW j \in Jobs, Stop(j) PROVE TypeOK'
  BY <1>16, <1>a DEF TypeOK, Stop, At, Goto, Fails, Points, Ends, poolVars, rtVars, jobVars
<1>17. ASSUME NEW j \in Jobs, CloseRuntime(j) PROVE TypeOK'
  BY <1>17, <1>a DEF TypeOK, CloseRuntime, Owns, At, Goto, Fails, Points, Ends, poolVars, rtVars, jobVars
<1>18. ASSUME NEW j \in Jobs, NEW big \in BOOLEAN, Park(j, big) PROVE TypeOK'
  <2>1. At(j, "finish") /\ Owns(j) /\ Leases(j)
    BY <1>18 DEF Park, At, Owns, Leases
  <2>2. rt[j] \in Runtimes /\ (MaxUses > 0 => uses[rt[j]] < MaxUses)
    BY <1>a, <1>b, <2>1
  <2> QED
    BY <1>18, <1>a, <2>2 DEF TypeOK, Park, Goto, Points
<1>19. ASSUME NEW j \in Jobs, NEW big \in BOOLEAN, Retire(j, big) PROVE TypeOK'
  <2>1. At(j, "finish") /\ Owns(j) /\ Leases(j)
    BY <1>19 DEF Retire, At, Owns, Leases
  <2>2. rt[j] \in Runtimes /\ (MaxUses > 0 => uses[rt[j]] < MaxUses)
    BY <1>a, <1>b, <2>1
  <2> QED
    BY <1>19, <1>a, <2>2 DEF TypeOK, Retire, Goto, Points
<1>20. ASSUME NEW j \in Jobs, WatcherFires(j) PROVE TypeOK'
  BY <1>20, <1>a DEF TypeOK, WatcherFires, At, Goto, Fails, Points, Ends, poolVars, rtVars, jobVars
<1>21. ASSUME NEW j \in Jobs, WatcherEnds(j) PROVE TypeOK'
  BY <1>21, <1>a DEF TypeOK, WatcherEnds, At, Goto, Fails, Points, Ends, poolVars, rtVars, jobVars
<1>22. ASSUME NEW j \in Jobs, WatcherInterrupts(j) PROVE TypeOK'
  BY <1>22, <1>a DEF TypeOK, WatcherInterrupts, At, Goto, Fails, Points, Ends, poolVars, rtVars, jobVars
<1>23. ASSUME NEW j \in Jobs, Cancel(j) PROVE TypeOK'
  BY <1>23, <1>a DEF TypeOK, Cancel, At, Goto, Fails, Points, Ends, poolVars, rtVars, jobVars
<1>24. ASSUME NEW j \in Jobs, NEW f \in Fates, Job(j, f) PROVE TypeOK'
  BY <1>24, <1>a DEF TypeOK, Job, At, Goto, Fails, Points, Ends, poolVars, rtVars, jobVars
<1> QED
  BY <1>1, <1>2, <1>3, <1>4, <1>5, <1>6, <1>7, <1>8, <1>9, <1>10, <1>11, <1>12, <1>13, <1>14, <1>15, <1>16, <1>17, <1>18, <1>19, <1>20, <1>21, <1>22, <1>23, <1>24 DEF Next, Do, Watcher

(* Every step keeps the rest of the invariant. *)
LEMMA RestStep == ASSUME IInv, [Next]_vars PROVE Rest'
<1> USE PoolAssumption
<1>a. Rest /\ TypeOK
  BY DEF IInv, Rest
<1>b. /\ free \in Seq(Runtimes) /\ Distinct(free)
      /\ \A j \in Jobs : Owns(j) => rt[j] \in Runtimes
  BY <1>a DEF Rest, TypeOK, ParkInv, OwnInv
<1>1. CASE UNCHANGED vars
  BY <1>1, <1>a DEF Rest, vars, OwnInv, MadeInv, ParkInv, LeaseInv, LocalInv, AbandonInv, At, Goto, Fails, Owns, Leases, poolVars, rtVars, jobVars, Abandons
<1>2. CASE PoolClose
  <2>1. OwnInv'
    BY <1>2, <1>a, NoneParked DEF Rest, TypeOK, OwnInv, PoolClose, At, Goto, Fails, Owns, Leases, poolVars, rtVars, jobVars
  <2>2. MadeInv'
    BY <1>2, <1>a DEF Rest, TypeOK, MadeInv, ParkInv, PoolClose, At, Goto, Fails, Owns, Leases, poolVars, rtVars, jobVars
  <2>3. ParkInv'
    BY <1>2, <1>a, NoneParked DEF Rest, TypeOK, ParkInv, PoolClose, At, Goto, Fails, Owns, Leases, poolVars, rtVars, jobVars
  <2>4. LeaseInv'
    BY <1>2, <1>a DEF Rest, TypeOK, LeaseInv, PoolClose, At, Goto, Fails, Owns, Leases, poolVars, rtVars, jobVars
  <2>5. LocalInv'
    BY <1>2, <1>a DEF Rest, TypeOK, LocalInv, PoolClose, At, Goto, Fails, Owns, Leases, poolVars, rtVars, jobVars
  <2>6. AbandonInv'
    BY <1>2, <1>a DEF Rest, TypeOK, AbandonInv, LocalInv, Abandons, PoolClose, At, Goto, Fails, Owns, Leases, poolVars, rtVars, jobVars
  <2> QED
    BY <2>1, <2>2, <2>3, <2>4, <2>5, <2>6 DEF Rest
<1>3. ASSUME NEW r \in Runtimes, CloseParked(r) PROVE Rest'
  <2>1. OwnInv'
    BY <1>3, <1>a DEF Rest, TypeOK, OwnInv, CloseParked, At, Goto, Fails, Owns, Leases, poolVars, rtVars, jobVars
  <2>2. MadeInv'
    BY <1>3, <1>a DEF Rest, TypeOK, MadeInv, CloseParked, At, Goto, Fails, Owns, Leases, poolVars, rtVars, jobVars
  <2>3. ParkInv'
    BY <1>3, <1>a DEF Rest, TypeOK, ParkInv, CloseParked, At, Goto, Fails, Owns, Leases, poolVars, rtVars, jobVars
  <2>4. LeaseInv'
    BY <1>3, <1>a DEF Rest, TypeOK, LeaseInv, CloseParked, At, Goto, Fails, Owns, Leases, poolVars, rtVars, jobVars
  <2>5. LocalInv'
    BY <1>3, <1>a DEF Rest, TypeOK, LocalInv, CloseParked, At, Goto, Fails, Owns, Leases, poolVars, rtVars, jobVars
  <2>6. AbandonInv'
    BY <1>3, <1>a DEF Rest, TypeOK, AbandonInv, LocalInv, Abandons, CloseParked, At, Goto, Fails, Owns, Leases, poolVars, rtVars, jobVars
  <2> QED
    BY <2>1, <2>2, <2>3, <2>4, <2>5, <2>6 DEF Rest
<1>4. ASSUME NEW j \in Jobs, Begin(j) PROVE Rest'
  <2>o. \A i \in Jobs : (Owns(i)' => Owns(i)) /\ (Leases(i)' => Leases(i))
    BY <1>4, <1>a DEF TypeOK, Begin, At, Goto, Owns, Leases
  <2>1. OwnInv'
    BY <1>4, <1>a, <2>o DEF Rest, TypeOK, OwnInv, Begin, poolVars, rtVars
  <2>2. MadeInv'
    BY <1>4, <1>a DEF Rest, TypeOK, MadeInv, Begin, At, Goto, Fails, Owns, Leases, poolVars, rtVars, jobVars
  <2>3. ParkInv'
    BY <1>4, <1>a DEF Rest, TypeOK, ParkInv, Begin, At, Goto, Fails, Owns, Leases, poolVars, rtVars, jobVars
  <2>4. LeaseInv'
    BY <1>4, <1>a DEF Rest, TypeOK, LeaseInv, Begin, At, Goto, Fails, Owns, Leases, poolVars, rtVars, jobVars
  <2>5. LocalInv'
    BY <1>4, <1>a DEF Rest, TypeOK, LocalInv, Begin, At, Goto, Fails, Owns, Leases, poolVars, rtVars, jobVars
  <2>6. AbandonInv'
    BY <1>4, <1>a DEF Rest, TypeOK, AbandonInv, LocalInv, Abandons, Begin, At, Goto, Fails, Owns, Leases, poolVars, rtVars, jobVars
  <2> QED
    BY <2>1, <2>2, <2>3, <2>4, <2>5, <2>6 DEF Rest
<1>5. ASSUME NEW j \in Jobs, AcquireClosed(j) PROVE Rest'
  <2>1. OwnInv'
    BY <1>5, <1>a DEF Rest, TypeOK, OwnInv, AcquireClosed, At, Goto, Fails, Owns, Leases, poolVars, rtVars, jobVars
  <2>2. MadeInv'
    BY <1>5, <1>a DEF Rest, TypeOK, MadeInv, AcquireClosed, At, Goto, Fails, Owns, Leases, poolVars, rtVars, jobVars
  <2>3. ParkInv'
    BY <1>5, <1>a DEF Rest, TypeOK, ParkInv, AcquireClosed, At, Goto, Fails, Owns, Leases, poolVars, rtVars, jobVars
  <2>4. LeaseInv'
    BY <1>5, <1>a DEF Rest, TypeOK, LeaseInv, AcquireClosed, At, Goto, Fails, Owns, Leases, poolVars, rtVars, jobVars
  <2>5. LocalInv'
    BY <1>5, <1>a DEF Rest, TypeOK, LocalInv, AcquireClosed, At, Goto, Fails, Owns, Leases, poolVars, rtVars, jobVars
  <2>6. AbandonInv'
    BY <1>5, <1>a DEF Rest, TypeOK, AbandonInv, LocalInv, Abandons, AcquireClosed, At, Goto, Fails, Owns, Leases, poolVars, rtVars, jobVars
  <2> QED
    BY <2>1, <2>2, <2>3, <2>4, <2>5, <2>6 DEF Rest
<1>6. ASSUME NEW j \in Jobs, AcquireParked(j) PROVE Rest'
  <2>p. /\ Last(free) \in Runtimes /\ Last(free) \in ToSet(free)
        /\ free' = Front(free) /\ Distinct(free') /\ Len(free') <= Len(free)
        /\ ToSet(free') = ToSet(free) \ {Last(free)}
    BY <1>6, <1>b, PopLast DEF AcquireParked
  <2>1. OwnInv'
    BY <1>6, <1>a, <2>p DEF Rest, TypeOK, OwnInv, ParkInv, AcquireParked, At, Goto, Fails, Owns, Leases, poolVars, rtVars, jobVars
  <2>2. MadeInv'
    BY <1>6, <1>a DEF Rest, TypeOK, MadeInv, AcquireParked, At, Goto, Fails, Owns, Leases, poolVars, rtVars, jobVars
  <2>3. ParkInv'
    BY <1>6, <1>a, <2>p DEF Rest, TypeOK, ParkInv, AcquireParked, At, Goto, Fails, Owns, Leases, poolVars, rtVars, jobVars
  <2>4. LeaseInv'
    BY <1>6, <1>a, <2>p DEF Rest, TypeOK, LeaseInv, ParkInv, AcquireParked, At, Goto, Fails, Owns, Leases, poolVars, rtVars, jobVars
  <2>5. LocalInv'
    BY <1>6, <1>a DEF Rest, TypeOK, LocalInv, AcquireParked, At, Goto, Fails, Owns, Leases, poolVars, rtVars, jobVars
  <2>6. AbandonInv'
    BY <1>6, <1>a DEF Rest, TypeOK, AbandonInv, LocalInv, Abandons, AcquireParked, At, Goto, Fails, Owns, Leases, poolVars, rtVars, jobVars
  <2> QED
    BY <2>1, <2>2, <2>3, <2>4, <2>5, <2>6 DEF Rest
<1>7. ASSUME NEW j \in Jobs, AcquireClear(j) PROVE Rest'
  <2>1. OwnInv'
    BY <1>7, <1>a, <1>b DEF Rest, TypeOK, OwnInv, AcquireClear, At, Goto, Fails, Owns, Leases, poolVars, rtVars, jobVars
  <2>2. MadeInv'
    BY <1>7, <1>a, <1>b DEF Rest, TypeOK, MadeInv, AcquireClear, At, Goto, Fails, Owns, Leases, poolVars, rtVars, jobVars
  <2>3. ParkInv'
    BY <1>7, <1>a DEF Rest, TypeOK, ParkInv, AcquireClear, At, Goto, Fails, Owns, Leases, poolVars, rtVars, jobVars
  <2>4. LeaseInv'
    BY <1>7, <1>a, <1>b DEF Rest, TypeOK, LeaseInv, AcquireClear, At, Goto, Fails, Owns, Leases, poolVars, rtVars, jobVars
  <2>5. LocalInv'
    BY <1>7, <1>a DEF Rest, TypeOK, LocalInv, AcquireClear, At, Goto, Fails, Owns, Leases, poolVars, rtVars, jobVars
  <2>6. AbandonInv'
    BY <1>7, <1>a DEF Rest, TypeOK, AbandonInv, LocalInv, Abandons, AcquireClear, At, Goto, Fails, Owns, Leases, poolVars, rtVars, jobVars
  <2> QED
    BY <2>1, <2>2, <2>3, <2>4, <2>5, <2>6 DEF Rest
<1>8. ASSUME NEW j \in Jobs, AcquireNew(j) PROVE Rest'
  <2>1. OwnInv'
    BY <1>8, <1>a DEF Rest, TypeOK, OwnInv, AcquireNew, At, Goto, Fails, Owns, Leases, poolVars, rtVars, jobVars
  <2>2. MadeInv'
    BY <1>8, <1>a DEF Rest, TypeOK, MadeInv, AcquireNew, At, Goto, Fails, Owns, Leases, poolVars, rtVars, jobVars
  <2>3. ParkInv'
    BY <1>8, <1>a DEF Rest, TypeOK, ParkInv, AcquireNew, At, Goto, Fails, Owns, Leases, poolVars, rtVars, jobVars
  <2>4. LeaseInv'
    BY <1>8, <1>a DEF Rest, TypeOK, LeaseInv, AcquireNew, At, Goto, Fails, Owns, Leases, poolVars, rtVars, jobVars
  <2>5. LocalInv'
    BY <1>8, <1>a DEF Rest, TypeOK, LocalInv, AcquireNew, At, Goto, Fails, Owns, Leases, poolVars, rtVars, jobVars
  <2>6. AbandonInv'
    BY <1>8, <1>a DEF Rest, TypeOK, AbandonInv, LocalInv, Abandons, AcquireNew, At, Goto, Fails, Owns, Leases, poolVars, rtVars, jobVars
  <2> QED
    BY <2>1, <2>2, <2>3, <2>4, <2>5, <2>6 DEF Rest
<1>9. ASSUME NEW j \in Jobs, NEW r \in Runtimes, Build(j, r) PROVE Rest'
  <2>1. OwnInv'
    BY <1>9, <1>a DEF Rest, TypeOK, OwnInv, MadeInv, ParkInv, Build, At, Goto, Fails, Owns, Leases, poolVars, rtVars, jobVars
  <2>2. MadeInv'
    BY <1>9, <1>a DEF Rest, TypeOK, MadeInv, Build, At, Goto, Fails, Owns, Leases, poolVars, rtVars, jobVars
  <2>3. ParkInv'
    BY <1>9, <1>a DEF Rest, TypeOK, ParkInv, Build, At, Goto, Fails, Owns, Leases, poolVars, rtVars, jobVars
  <2>4. LeaseInv'
    BY <1>9, <1>a DEF Rest, TypeOK, LeaseInv, MadeInv, OwnInv, Build, At, Goto, Fails, Owns, Leases, poolVars, rtVars, jobVars
  <2>5. LocalInv'
    BY <1>9, <1>a DEF Rest, TypeOK, LocalInv, Build, At, Goto, Fails, Owns, Leases, poolVars, rtVars, jobVars
  <2>6. AbandonInv'
    BY <1>9, <1>a DEF Rest, TypeOK, AbandonInv, LocalInv, Abandons, Build, At, Goto, Fails, Owns, Leases, poolVars, rtVars, jobVars
  <2> QED
    BY <2>1, <2>2, <2>3, <2>4, <2>5, <2>6 DEF Rest
<1>10. ASSUME NEW j \in Jobs, BuildFails(j) PROVE Rest'
  <2>1. OwnInv'
    BY <1>10, <1>a DEF Rest, TypeOK, OwnInv, BuildFails, At, Goto, Fails, Owns, Leases, poolVars, rtVars, jobVars
  <2>2. MadeInv'
    BY <1>10, <1>a DEF Rest, TypeOK, MadeInv, BuildFails, At, Goto, Fails, Owns, Leases, poolVars, rtVars, jobVars
  <2>3. ParkInv'
    BY <1>10, <1>a DEF Rest, TypeOK, ParkInv, BuildFails, At, Goto, Fails, Owns, Leases, poolVars, rtVars, jobVars
  <2>4. LeaseInv'
    BY <1>10, <1>a DEF Rest, TypeOK, LeaseInv, BuildFails, At, Goto, Fails, Owns, Leases, poolVars, rtVars, jobVars
  <2>5. LocalInv'
    BY <1>10, <1>a DEF Rest, TypeOK, LocalInv, BuildFails, At, Goto, Fails, Owns, Leases, poolVars, rtVars, jobVars
  <2>6. AbandonInv'
    BY <1>10, <1>a DEF Rest, TypeOK, AbandonInv, LocalInv, Abandons, BuildFails, At, Goto, Fails, Owns, Leases, poolVars, rtVars, jobVars
  <2> QED
    BY <2>1, <2>2, <2>3, <2>4, <2>5, <2>6 DEF Rest
<1>11. ASSUME NEW j \in Jobs, Watch(j) PROVE Rest'
  <2>1. OwnInv'
    BY <1>11, <1>a DEF Rest, TypeOK, OwnInv, Watch, At, Goto, Fails, Owns, Leases, poolVars, rtVars, jobVars
  <2>2. MadeInv'
    BY <1>11, <1>a DEF Rest, TypeOK, MadeInv, Watch, At, Goto, Fails, Owns, Leases, poolVars, rtVars, jobVars
  <2>3. ParkInv'
    BY <1>11, <1>a DEF Rest, TypeOK, ParkInv, Watch, At, Goto, Fails, Owns, Leases, poolVars, rtVars, jobVars
  <2>4. LeaseInv'
    BY <1>11, <1>a DEF Rest, TypeOK, LeaseInv, Watch, At, Goto, Fails, Owns, Leases, poolVars, rtVars, jobVars
  <2>5. LocalInv'
    BY <1>11, <1>a DEF Rest, TypeOK, LocalInv, Watch, At, Goto, Fails, Owns, Leases, poolVars, rtVars, jobVars
  <2>6. AbandonInv'
    BY <1>11, <1>a DEF Rest, TypeOK, AbandonInv, LocalInv, Abandons, Watch, At, Goto, Fails, Owns, Leases, poolVars, rtVars, jobVars
  <2> QED
    BY <2>1, <2>2, <2>3, <2>4, <2>5, <2>6 DEF Rest
<1>12. ASSUME NEW j \in Jobs, NewScope(j) PROVE Rest'
  <2>o. \A i \in Jobs : (Owns(i)' => Owns(i)) /\ (Leases(i)' => Leases(i))
    BY <1>12, <1>a DEF TypeOK, NewScope, At, Goto, Owns, Leases
  <2>1. OwnInv'
    BY <1>12, <1>a, <2>o DEF Rest, TypeOK, OwnInv, NewScope, poolVars, rtVars
  <2>2. MadeInv'
    BY <1>12, <1>a DEF Rest, TypeOK, MadeInv, NewScope, At, Goto, Fails, Owns, Leases, poolVars, rtVars, jobVars
  <2>3. ParkInv'
    BY <1>12, <1>a DEF Rest, TypeOK, ParkInv, NewScope, At, Goto, Fails, Owns, Leases, poolVars, rtVars, jobVars
  <2>4. LeaseInv'
    BY <1>12, <1>a DEF Rest, TypeOK, LeaseInv, NewScope, At, Goto, Fails, Owns, Leases, poolVars, rtVars, jobVars
  <2>5. LocalInv'
    BY <1>12, <1>a DEF Rest, TypeOK, LocalInv, NewScope, At, Goto, Fails, Owns, Leases, poolVars, rtVars, jobVars
  <2>6. AbandonInv'
    BY <1>12, <1>a, ZenonT(40) DEF Rest, TypeOK, AbandonInv, LocalInv, Abandons, NewScope, At, Goto, Fails, Owns, Leases, poolVars, rtVars, jobVars
  <2> QED
    BY <2>1, <2>2, <2>3, <2>4, <2>5, <2>6 DEF Rest
<1>13. ASSUME NEW j \in Jobs, JobStops(j) PROVE Rest'
  <2>o. \A i \in Jobs : (Owns(i)' => Owns(i)) /\ (Leases(i)' => Leases(i))
    BY <1>13, <1>a DEF TypeOK, JobStops, At, Goto, Owns, Leases
  <2>1. OwnInv'
    BY <1>13, <1>a, <2>o DEF Rest, TypeOK, OwnInv, JobStops, poolVars, rtVars
  <2>2. MadeInv'
    BY <1>13, <1>a DEF Rest, TypeOK, MadeInv, JobStops, At, Goto, Fails, Owns, Leases, poolVars, rtVars, jobVars
  <2>3. ParkInv'
    BY <1>13, <1>a DEF Rest, TypeOK, ParkInv, JobStops, At, Goto, Fails, Owns, Leases, poolVars, rtVars, jobVars
  <2>4. LeaseInv'
    BY <1>13, <1>a DEF Rest, TypeOK, LeaseInv, OwnInv, LocalInv, JobStops, At, Goto, Fails, Owns, Leases, poolVars, rtVars, jobVars
  <2>5. LocalInv'
    BY <1>13, <1>a DEF Rest, TypeOK, LocalInv, JobStops, At, Goto, Fails, Owns, Leases, poolVars, rtVars, jobVars
  <2>6. AbandonInv'
    BY <1>13, <1>a DEF Rest, TypeOK, AbandonInv, LocalInv, Abandons, JobStops, At, Goto, Fails, Owns, Leases, poolVars, rtVars, jobVars
  <2> QED
    BY <2>1, <2>2, <2>3, <2>4, <2>5, <2>6 DEF Rest
<1>14. ASSUME NEW j \in Jobs, AfterJob(j) PROVE Rest'
  <2>o. \A i \in Jobs : (Owns(i)' => Owns(i)) /\ (Leases(i)' => Leases(i))
    BY <1>14, <1>a DEF TypeOK, AfterJob, At, Goto, Owns, Leases
  <2>1. OwnInv'
    BY <1>14, <1>a, <2>o DEF Rest, TypeOK, OwnInv, AfterJob, poolVars, rtVars
  <2>2. MadeInv'
    BY <1>14, <1>a DEF Rest, TypeOK, MadeInv, AfterJob, At, Goto, Fails, Owns, Leases, poolVars, rtVars, jobVars
  <2>3. ParkInv'
    BY <1>14, <1>a DEF Rest, TypeOK, ParkInv, AfterJob, At, Goto, Fails, Owns, Leases, poolVars, rtVars, jobVars
  <2>4. LeaseInv'
    BY <1>14, <1>a DEF Rest, TypeOK, LeaseInv, AfterJob, At, Goto, Fails, Owns, Leases, poolVars, rtVars, jobVars
  <2>5. LocalInv'
    BY <1>14, <1>a DEF Rest, TypeOK, LocalInv, AfterJob, At, Goto, Fails, Owns, Leases, poolVars, rtVars, jobVars
  <2>6. AbandonInv'
    BY <1>14, <1>a, SMTT(30) DEF Rest, TypeOK, AbandonInv, LocalInv, Abandons, AfterJob, At, Goto, Fails, Owns, Leases, poolVars, rtVars, jobVars
  <2> QED
    BY <2>1, <2>2, <2>3, <2>4, <2>5, <2>6 DEF Rest
<1>15. ASSUME NEW j \in Jobs, Decide(j) PROVE Rest'
  <2>1. OwnInv'
    BY <1>15, <1>a DEF Rest, TypeOK, OwnInv, Decide, At, Goto, Fails, Owns, Leases, poolVars, rtVars, jobVars
  <2>2. MadeInv'
    BY <1>15, <1>a DEF Rest, TypeOK, MadeInv, Decide, At, Goto, Fails, Owns, Leases, poolVars, rtVars, jobVars
  <2>3. ParkInv'
    BY <1>15, <1>a DEF Rest, TypeOK, ParkInv, Decide, At, Goto, Fails, Owns, Leases, poolVars, rtVars, jobVars
  <2>4. LeaseInv'
    BY <1>15, <1>a DEF Rest, TypeOK, LeaseInv, Decide, At, Goto, Fails, Owns, Leases, poolVars, rtVars, jobVars
  <2>5. LocalInv'
    BY <1>15, <1>a, ZenonT(40) DEF Rest, TypeOK, LocalInv, Ends, Decide, At, Goto, Fails, Owns, Leases, poolVars, rtVars, jobVars
  <2>6. AbandonInv'
    BY <1>15, <1>a DEF Rest, TypeOK, AbandonInv, LocalInv, Abandons, Decide, At, Goto, Fails, Owns, Leases, poolVars, rtVars, jobVars
  <2> QED
    BY <2>1, <2>2, <2>3, <2>4, <2>5, <2>6 DEF Rest
<1>16. ASSUME NEW j \in Jobs, Stop(j) PROVE Rest'
  <2>1. OwnInv'
    BY <1>16, <1>a DEF Rest, TypeOK, OwnInv, Stop, At, Goto, Fails, Owns, Leases, poolVars, rtVars, jobVars
  <2>2. MadeInv'
    BY <1>16, <1>a DEF Rest, TypeOK, MadeInv, Stop, At, Goto, Fails, Owns, Leases, poolVars, rtVars, jobVars
  <2>3. ParkInv'
    BY <1>16, <1>a DEF Rest, TypeOK, ParkInv, Stop, At, Goto, Fails, Owns, Leases, poolVars, rtVars, jobVars
  <2>4. LeaseInv'
    BY <1>16, <1>a DEF Rest, TypeOK, LeaseInv, Stop, At, Goto, Fails, Owns, Leases, poolVars, rtVars, jobVars
  <2>5. LocalInv'
    BY <1>16, <1>a DEF Rest, TypeOK, LocalInv, Stop, At, Goto, Fails, Owns, Leases, poolVars, rtVars, jobVars
  <2>6. AbandonInv'
    BY <1>16, <1>a DEF Rest, TypeOK, AbandonInv, LocalInv, Abandons, Stop, At, Goto, Fails, Owns, Leases, poolVars, rtVars, jobVars
  <2> QED
    BY <2>1, <2>2, <2>3, <2>4, <2>5, <2>6 DEF Rest
<1>17. ASSUME NEW j \in Jobs, CloseRuntime(j) PROVE Rest'
  <2>1. OwnInv'
    BY <1>17, <1>a, <1>b DEF Rest, TypeOK, OwnInv, CloseRuntime, At, Goto, Fails, Owns, Leases, poolVars, rtVars, jobVars
  <2>2. MadeInv'
    BY <1>17, <1>a, <1>b DEF Rest, TypeOK, MadeInv, OwnInv, CloseRuntime, At, Goto, Fails, Owns, Leases, poolVars, rtVars, jobVars
  <2>3. ParkInv'
    BY <1>17, <1>a, <1>b DEF Rest, TypeOK, ParkInv, OwnInv, CloseRuntime, At, Goto, Fails, Owns, Leases, poolVars, rtVars, jobVars
  <2>4. LeaseInv'
    BY <1>17, <1>a, <1>b DEF Rest, TypeOK, LeaseInv, CloseRuntime, At, Goto, Fails, Owns, Leases, poolVars, rtVars, jobVars
  <2>5. LocalInv'
    BY <1>17, <1>a DEF Rest, TypeOK, LocalInv, CloseRuntime, At, Goto, Fails, Owns, Leases, poolVars, rtVars, jobVars
  <2>6. AbandonInv'
    BY <1>17, <1>a DEF Rest, TypeOK, AbandonInv, LocalInv, Abandons, CloseRuntime, At, Goto, Fails, Owns, Leases, poolVars, rtVars, jobVars
  <2> QED
    BY <2>1, <2>2, <2>3, <2>4, <2>5, <2>6 DEF Rest
<1>18. ASSUME NEW j \in Jobs, NEW big \in BOOLEAN, Park(j, big) PROVE Rest'
  <2>p. /\ rt[j] \in Runtimes /\ free' = Append(free, rt[j]) /\ Distinct(free')
        /\ Len(free') = Len(free) + 1 /\ ToSet(free') = ToSet(free) \cup {rt[j]}
    <3>1. Owns(j) /\ rt[j] \in Runtimes /\ rt[j] \notin ToSet(free)
      BY <1>18, <1>a, <1>b DEF Park, Rest, OwnInv, Owns, Leases, At
    <3> QED
      BY <1>18, <1>b, <3>1, ParkOne DEF Park
  <2>q. /\ rt[j] \in made /\ rt[j] \notin gone /\ rt[j] \notin closing /\ ~dirty[rt[j]]
    BY <1>18, <1>a DEF Park, Rest, OwnInv, LeaseInv, LocalInv, Owns, Leases, At
  <2>1. OwnInv'
    BY <1>18, <1>a, <2>p, <1>b DEF Rest, TypeOK, OwnInv, Park, At, Goto, Fails, Owns, Leases, poolVars, rtVars, jobVars
  <2>2. MadeInv'
    BY <1>18, <1>a, <1>b DEF Rest, TypeOK, MadeInv, OwnInv, Park, At, Goto, Fails, Owns, Leases, poolVars, rtVars, jobVars
  <2>3. ParkInv'
    BY <1>18, <1>a, <2>p, <2>q, <1>b DEF Rest, TypeOK, ParkInv, OwnInv, Worn, Full, Park, At, Goto, Fails, Owns, Leases, poolVars, rtVars, jobVars
  <2>4. LeaseInv'
    BY <1>18, <1>a, <1>b DEF Rest, TypeOK, LeaseInv, OwnInv, Park, At, Goto, Fails, Owns, Leases, poolVars, rtVars, jobVars
  <2>5. LocalInv'
    BY <1>18, <1>a DEF Rest, TypeOK, LocalInv, Park, At, Goto, Fails, Owns, Leases, poolVars, rtVars, jobVars
  <2>6. AbandonInv'
    BY <1>18, <1>a DEF Rest, TypeOK, AbandonInv, LocalInv, Abandons, Park, At, Goto, Fails, Owns, Leases, poolVars, rtVars, jobVars
  <2> QED
    BY <2>1, <2>2, <2>3, <2>4, <2>5, <2>6 DEF Rest
<1>19. ASSUME NEW j \in Jobs, NEW big \in BOOLEAN, Retire(j, big) PROVE Rest'
  <2>1. OwnInv'
    BY <1>19, <1>a, <1>b DEF Rest, TypeOK, OwnInv, Retire, At, Goto, Fails, Owns, Leases, poolVars, rtVars, jobVars
  <2>2. MadeInv'
    BY <1>19, <1>a, <1>b DEF Rest, TypeOK, MadeInv, OwnInv, Retire, At, Goto, Fails, Owns, Leases, poolVars, rtVars, jobVars
  <2>3. ParkInv'
    BY <1>19, <1>a, <1>b DEF Rest, TypeOK, ParkInv, OwnInv, Retire, At, Goto, Fails, Owns, Leases, poolVars, rtVars, jobVars
  <2>4. LeaseInv'
    BY <1>19, <1>a, <1>b DEF Rest, TypeOK, LeaseInv, OwnInv, Retire, At, Goto, Fails, Owns, Leases, poolVars, rtVars, jobVars
  <2>5. LocalInv'
    BY <1>19, <1>a DEF Rest, TypeOK, LocalInv, Retire, At, Goto, Fails, Owns, Leases, poolVars, rtVars, jobVars
  <2>6. AbandonInv'
    BY <1>19, <1>a DEF Rest, TypeOK, AbandonInv, LocalInv, Abandons, Retire, At, Goto, Fails, Owns, Leases, poolVars, rtVars, jobVars
  <2> QED
    BY <2>1, <2>2, <2>3, <2>4, <2>5, <2>6 DEF Rest
<1>20. ASSUME NEW j \in Jobs, WatcherFires(j) PROVE Rest'
  <2>1. OwnInv'
    BY <1>20, <1>a DEF Rest, TypeOK, OwnInv, WatcherFires, At, Goto, Fails, Owns, Leases, poolVars, rtVars, jobVars
  <2>2. MadeInv'
    BY <1>20, <1>a DEF Rest, TypeOK, MadeInv, WatcherFires, At, Goto, Fails, Owns, Leases, poolVars, rtVars, jobVars
  <2>3. ParkInv'
    BY <1>20, <1>a DEF Rest, TypeOK, ParkInv, WatcherFires, At, Goto, Fails, Owns, Leases, poolVars, rtVars, jobVars
  <2>4. LeaseInv'
    BY <1>20, <1>a DEF Rest, TypeOK, LeaseInv, WatcherFires, At, Goto, Fails, Owns, Leases, poolVars, rtVars, jobVars
  <2>5. LocalInv'
    BY <1>20, <1>a DEF Rest, TypeOK, LocalInv, WatcherFires, At, Goto, Fails, Owns, Leases, poolVars, rtVars, jobVars
  <2>6. AbandonInv'
    BY <1>20, <1>a DEF Rest, TypeOK, AbandonInv, LocalInv, Abandons, WatcherFires, At, Goto, Fails, Owns, Leases, poolVars, rtVars, jobVars
  <2> QED
    BY <2>1, <2>2, <2>3, <2>4, <2>5, <2>6 DEF Rest
<1>21. ASSUME NEW j \in Jobs, WatcherEnds(j) PROVE Rest'
  <2>1. OwnInv'
    BY <1>21, <1>a DEF Rest, TypeOK, OwnInv, WatcherEnds, At, Goto, Fails, Owns, Leases, poolVars, rtVars, jobVars
  <2>2. MadeInv'
    BY <1>21, <1>a DEF Rest, TypeOK, MadeInv, WatcherEnds, At, Goto, Fails, Owns, Leases, poolVars, rtVars, jobVars
  <2>3. ParkInv'
    BY <1>21, <1>a DEF Rest, TypeOK, ParkInv, WatcherEnds, At, Goto, Fails, Owns, Leases, poolVars, rtVars, jobVars
  <2>4. LeaseInv'
    BY <1>21, <1>a DEF Rest, TypeOK, LeaseInv, WatcherEnds, At, Goto, Fails, Owns, Leases, poolVars, rtVars, jobVars
  <2>5. LocalInv'
    BY <1>21, <1>a DEF Rest, TypeOK, LocalInv, WatcherEnds, At, Goto, Fails, Owns, Leases, poolVars, rtVars, jobVars
  <2>6. AbandonInv'
    BY <1>21, <1>a DEF Rest, TypeOK, AbandonInv, LocalInv, Abandons, WatcherEnds, At, Goto, Fails, Owns, Leases, poolVars, rtVars, jobVars
  <2> QED
    BY <2>1, <2>2, <2>3, <2>4, <2>5, <2>6 DEF Rest
<1>22. ASSUME NEW j \in Jobs, WatcherInterrupts(j) PROVE Rest'
  <2>1. OwnInv'
    BY <1>22, <1>a DEF Rest, TypeOK, OwnInv, WatcherInterrupts, At, Goto, Fails, Owns, Leases, poolVars, rtVars, jobVars
  <2>2. MadeInv'
    BY <1>22, <1>a DEF Rest, TypeOK, MadeInv, WatcherInterrupts, At, Goto, Fails, Owns, Leases, poolVars, rtVars, jobVars
  <2>3. ParkInv'
    BY <1>22, <1>a DEF Rest, TypeOK, ParkInv, WatcherInterrupts, At, Goto, Fails, Owns, Leases, poolVars, rtVars, jobVars
  <2>4. LeaseInv'
    BY <1>22, <1>a DEF Rest, TypeOK, LeaseInv, WatcherInterrupts, At, Goto, Fails, Owns, Leases, poolVars, rtVars, jobVars
  <2>5. LocalInv'
    BY <1>22, <1>a DEF Rest, TypeOK, LocalInv, WatcherInterrupts, At, Goto, Fails, Owns, Leases, poolVars, rtVars, jobVars
  <2>6. AbandonInv'
    BY <1>22, <1>a DEF Rest, TypeOK, AbandonInv, LocalInv, Abandons, WatcherInterrupts, At, Goto, Fails, Owns, Leases, poolVars, rtVars, jobVars
  <2> QED
    BY <2>1, <2>2, <2>3, <2>4, <2>5, <2>6 DEF Rest
<1>23. ASSUME NEW j \in Jobs, Cancel(j) PROVE Rest'
  <2>1. OwnInv'
    BY <1>23, <1>a DEF Rest, TypeOK, OwnInv, Cancel, At, Goto, Fails, Owns, Leases, poolVars, rtVars, jobVars
  <2>2. MadeInv'
    BY <1>23, <1>a DEF Rest, TypeOK, MadeInv, Cancel, At, Goto, Fails, Owns, Leases, poolVars, rtVars, jobVars
  <2>3. ParkInv'
    BY <1>23, <1>a DEF Rest, TypeOK, ParkInv, Cancel, At, Goto, Fails, Owns, Leases, poolVars, rtVars, jobVars
  <2>4. LeaseInv'
    BY <1>23, <1>a DEF Rest, TypeOK, LeaseInv, Cancel, At, Goto, Fails, Owns, Leases, poolVars, rtVars, jobVars
  <2>5. LocalInv'
    BY <1>23, <1>a DEF Rest, TypeOK, LocalInv, Cancel, At, Goto, Fails, Owns, Leases, poolVars, rtVars, jobVars
  <2>6. AbandonInv'
    BY <1>23, <1>a DEF Rest, TypeOK, AbandonInv, LocalInv, Abandons, Cancel, At, Goto, Fails, Owns, Leases, poolVars, rtVars, jobVars
  <2> QED
    BY <2>1, <2>2, <2>3, <2>4, <2>5, <2>6 DEF Rest
<1>24. ASSUME NEW j \in Jobs, NEW f \in Fates, Job(j, f) PROVE Rest'
  <2>o. \A i \in Jobs : (Owns(i)' => Owns(i)) /\ (Leases(i)' => Leases(i))
    BY <1>24, <1>a DEF TypeOK, Job, At, Goto, Owns, Leases
  <2>1. OwnInv'
    BY <1>24, <1>a, <2>o, <1>b DEF Rest, TypeOK, OwnInv, Job, poolVars, rtVars
  <2>2. MadeInv'
    BY <1>24, <1>a, <1>b DEF Rest, TypeOK, MadeInv, OwnInv, Job, At, Goto, Fails, Owns, Leases, poolVars, rtVars, jobVars
  <2>3. ParkInv'
    BY <1>24, <1>a, <1>b DEF Rest, TypeOK, ParkInv, OwnInv, Job, At, Goto, Fails, Owns, Leases, poolVars, rtVars, jobVars
  <2>4. LeaseInv'
    BY <1>24, <1>a, <1>b DEF Rest, TypeOK, LeaseInv, OwnInv, LocalInv, Job, At, Goto, Fails, Owns, Leases, poolVars, rtVars, jobVars
  <2>5. LocalInv'
    BY <1>24, <1>a DEF Rest, TypeOK, LocalInv, Job, At, Goto, Fails, Owns, Leases, poolVars, rtVars, jobVars
  <2>6. AbandonInv'
    BY <1>24, <1>a DEF Rest, TypeOK, AbandonInv, LocalInv, Abandons, Job, At, Goto, Fails, Owns, Leases, poolVars, rtVars, jobVars
  <2> QED
    BY <2>1, <2>2, <2>3, <2>4, <2>5, <2>6 DEF Rest
<1> QED
  BY <1>1, <1>2, <1>3, <1>4, <1>5, <1>6, <1>7, <1>8, <1>9, <1>10, <1>11, <1>12, <1>13, <1>14, <1>15, <1>16, <1>17, <1>18, <1>19, <1>20, <1>21, <1>22, <1>23, <1>24 DEF Next, Do, Watcher

-----------------------------------------------------------------------------
(* The invariant holds in every reachable state. *)
THEOREM Inductive == Spec => []IInv
<1>1. IInv /\ [Next]_vars => IInv'
  BY TypeStep, RestStep DEF IInv
<1> QED
  BY InitInv, <1>1, PTL DEF Spec

(* The types hold, and no Runtime is used more than MaxUses times. *)
THEOREM TypeCorrect == Spec => []TypeOK
<1>1. IInv => TypeOK
  BY DEF IInv
<1> QED
  BY Inductive, <1>1, PTL

(* Jobs never share a Runtime, whatever acquire, release and Close           *)
(* interleave.                                                               *)
THEOREM Exclusion == Spec => []LeasesAreExclusive
<1>1. IInv => LeasesAreExclusive
  BY DEF IInv, Rest, OwnInv, ParkInv, Distinct, Owns, LeasesAreExclusive
<1> QED
  BY Inductive, <1>1, PTL

(* Close and discard never close a Runtime that a job has.                   *)
THEOREM OpenWhileLeased == Spec => []LeasedIsOpen
<1>1. IInv => LeasedIsOpen
  BY DEF IInv, Rest, OwnInv, Owns, LeasedIsOpen
<1> QED
  BY Inductive, <1>1, PTL

(* What release parks is fit for the next job. *)
THEOREM Fitness == Spec => []ParkedIsFit
<1>1. IInv => ParkedIsFit
  BY DEF IInv, Rest, ParkInv, ParkedIsFit
<1> QED
  BY Inductive, <1>1, PTL

(* A Runtime Do abandoned is closed, so no later job runs on it. *)
THEOREM Abandonment == Spec => []AbandonedNeverReused
<1>1. IInv => AbandonedNeverReused
  <2> SUFFICES ASSUME IInv, NEW j \in Jobs, Abandons(j)
               PROVE  /\ rt[j] \notin ToSet(free)
                      /\ \A i \in Jobs : Leases(i) => rt[i] # rt[j]
    BY DEF AbandonedNeverReused
  <2>1. rt[j] \in gone
    BY DEF IInv, Rest, AbandonInv
  <2> QED
    BY <2>1 DEF IInv, Rest, OwnInv, ParkInv, Owns
<1> QED
  BY Inductive, <1>1, PTL
(* A job has its Runtime for itself, and open, until it gives it back.       *)
THEOREM SoundLeases == Spec => []LeasesAreSound
<1>1. LeasesAreExclusive /\ LeasedIsOpen => LeasesAreSound
  BY DEF LeasesAreSound
<1> QED
  BY Exclusion, OpenWhileLeased, <1>1, PTL

(* What went bad is not reused, and what is parked is fit. *)
THEOREM SoundReuse == Spec => []ReuseIsSound
<1>1. ParkedIsFit /\ AbandonedNeverReused => ReuseIsSound
  BY DEF ReuseIsSound
<1> QED
  BY Fitness, Abandonment, <1>1, PTL

-----------------------------------------------------------------------------
(* The count of Runtimes. *)

(* The points of Do at which it counts in live. *)
Counted == {"build", "clear", "lease", "scope", "run", "after", "decide", "unwind", "finish"}
Counting == {j \in Jobs : pc[j] \in Counted}

LEMMA CountingIs == Counting = {j \in Jobs : Counts(j)}
BY DEF Counting, Counted, Counts, Leases, At

(* One Do goes to another point. *)
LEMMA Moves ==
  ASSUME pc \in [Jobs -> Points], NEW j \in Jobs, NEW p \in Points, pc' = [pc EXCEPT ![j] = p]
  PROVE  /\ Cardinality(Counting) \in Nat
         /\ (pc[j] \in Counted <=> p \in Counted) => Cardinality(Counting') = Cardinality(Counting)
         /\ (pc[j] \notin Counted /\ p \in Counted) => Cardinality(Counting') = Cardinality(Counting) + 1
         /\ (pc[j] \in Counted /\ p \notin Counted) => Cardinality(Counting') = Cardinality(Counting) - 1
<1>1. IsFiniteSet(Counting) /\ IsFiniteSet(Counting') /\ Cardinality(Counting) \in Nat
  <2>1. Counting \subseteq Jobs /\ Counting' \subseteq Jobs /\ IsFiniteSet(Jobs)
    BY PoolAssumption DEF Counting
  <2> QED
    BY <2>1, FS_Subset, FS_CardinalityType
<1>2. /\ pc'[j] = p /\ \A i \in Jobs : i # j => pc'[i] = pc[i]
  OBVIOUS
<1>3. (pc[j] \in Counted <=> p \in Counted) => Counting' = Counting
  BY <1>2 DEF Counting
<1>4. (pc[j] \notin Counted /\ p \in Counted) => j \notin Counting /\ Counting' = Counting \cup {j}
  BY <1>2 DEF Counting
<1>5. (pc[j] \in Counted /\ p \notin Counted) => j \in Counting /\ Counting' = Counting \ {j}
  BY <1>2 DEF Counting
<1> HIDE DEF Counting
<1> QED
  BY <1>1, <1>3, <1>4, <1>5, FS_AddElement, FS_RemoveElement

LEMMA FrontIsShorter ==
  ASSUME NEW S, NEW s \in Seq(S), s # <<>>
  PROVE  Len(Front(s)) = Len(s) - 1
<1>1. Len(s) \in Nat /\ Len(s) > 0 /\ DOMAIN s = 1 .. Len(s)
  OBVIOUS
<1> QED
  BY <1>1 DEF Front

LEMMA LiveStep ==
  ASSUME TypeOK, LiveIsExact, [Next]_vars
  PROVE  LiveIsExact'
<1> DEFINE c == Cardinality(Counting)
<1>0. Counting' = {j \in Jobs : Counts(j)}'
  BY DEF Counting, Counted, Counts, Leases, At
<1> SUFFICES ASSUME ~ closed' PROVE live' = Len(free') + Cardinality(Counting')
  BY <1>0 DEF LiveIsExact
<1>1. ASSUME ~ closed PROVE live = Len(free) + c
  BY <1>1, CountingIs DEF LiveIsExact
<1>2. pc \in [Jobs -> Points] /\ free \in Seq(Runtimes) /\ Len(free) \in Nat /\ live \in Int
  BY DEF TypeOK
<1>3. c \in Nat
  <2>1. Counting \subseteq Jobs
    BY DEF Counting
  <2> QED
    BY <2>1, PoolAssumption, FS_Subset, FS_CardinalityType
<1>4. CASE pc' = pc /\ live' = live /\ free' = free /\ closed' = closed
  <2>1. Counting' = Counting
    BY <1>4 DEF Counting
  <2> QED
    BY <1>1, <1>4, <2>1
<1>5. ASSUME NEW j \in Jobs, NEW p \in Points, pc' = [pc EXCEPT ![j] = p], closed' = closed,
             \/ live' = live /\ free' = free /\ (pc[j] \in Counted <=> p \in Counted)
             \/ live' = live /\ Len(free') = Len(free) - 1 /\ pc[j] \notin Counted /\ p \in Counted
             \/ live' = live /\ Len(free') = Len(free) + 1 /\ pc[j] \in Counted /\ p \notin Counted
             \/ live' = live + 1 /\ free' = free /\ pc[j] \notin Counted /\ p \in Counted
             \/ live' = live - 1 /\ free' = free /\ pc[j] \in Counted /\ p \notin Counted
      PROVE  live' = Len(free') + Cardinality(Counting')
  <2>1. /\ (pc[j] \in Counted <=> p \in Counted) => Cardinality(Counting') = c
        /\ (pc[j] \notin Counted /\ p \in Counted) => Cardinality(Counting') = c + 1
        /\ (pc[j] \in Counted /\ p \notin Counted) => Cardinality(Counting') = c - 1
    BY <1>2, <1>5, Moves
  <2>2. live = Len(free) + c
    BY <1>1, <1>5
  <2> HIDE DEF c
  <2> QED
    BY <1>2, <1>3, <1>5, <2>1, <2>2
<1> DEFINE Goal == live' = Len(free') + Cardinality(Counting')
<1> USE DEF poolVars, rtVars, jobVars, At, Goto, Points, Counted
<1>6. ASSUME NEW j \in Jobs, Begin(j) PROVE Goal
  <2>1. PICK p \in {"returned", "acquire"} : pc' = [pc EXCEPT ![j] = p]
    BY <1>6 DEF Begin
  <2> HIDE DEF Goal
  <2>2. p \in Points /\ closed' = closed /\ live' = live /\ free' = free /\ (pc[j] \in Counted <=> p \in Counted)
    BY <1>6, <2>1 DEF Begin
  <2> USE DEF Goal
  <2> QED
    BY <2>1, <2>2, <1>5
<1>7. ASSUME NEW j \in Jobs, AcquireClosed(j) PROVE Goal
  BY <1>1, <1>7 DEF AcquireClosed
<1>8. ASSUME NEW j \in Jobs, AcquireParked(j) PROVE Goal
  <2>1. Len(free') = Len(free) - 1
    BY <1>2, <1>8, FrontIsShorter DEF AcquireParked
  <2>2. /\ pc' = [pc EXCEPT ![j] = "clear"] /\ closed' = closed /\ live' = live
        /\ pc[j] \notin Counted /\ "clear" \in Counted /\ "clear" \in Points
    BY <1>8 DEF AcquireParked
  <2> QED
    BY <2>1, <2>2, <1>5
<1>9. ASSUME NEW j \in Jobs, AcquireNew(j) PROVE Goal
  <2>1. /\ pc' = [pc EXCEPT ![j] = "build"] /\ closed' = closed /\ live' = live + 1 /\ free' = free
        /\ pc[j] \notin Counted /\ "build" \in Counted /\ "build" \in Points
    BY <1>9 DEF AcquireNew
  <2> QED
    BY <2>1, <1>5
<1>10. ASSUME NEW j \in Jobs, BuildFails(j) PROVE Goal
  <2>1. /\ pc' = [pc EXCEPT ![j] = "returned"] /\ closed' = closed /\ live' = live - 1 /\ free' = free
        /\ pc[j] \in Counted /\ "returned" \notin Counted /\ "returned" \in Points
    BY <1>10 DEF BuildFails
  <2> QED
    BY <2>1, <1>5
<1>11. ASSUME NEW j \in Jobs, NEW big, Park(j, big) PROVE Goal
  <2>1. Len(free') = Len(free) + 1
    BY <1>2, <1>11 DEF Park
  <2>2. /\ pc' = [pc EXCEPT ![j] = "returned"] /\ closed' = closed /\ live' = live
        /\ pc[j] \in Counted /\ "returned" \notin Counted /\ "returned" \in Points
    BY <1>11 DEF Park
  <2> QED
    BY <2>1, <2>2, <1>5
<1>12. ASSUME NEW j \in Jobs, NEW big, Retire(j, big) PROVE Goal
  <2>1. /\ pc' = [pc EXCEPT ![j] = "close"] /\ closed' = closed /\ live' = live - 1 /\ free' = free
        /\ pc[j] \in Counted /\ "close" \notin Counted /\ "close" \in Points
    BY <1>12 DEF Retire
  <2> QED
    BY <2>1, <1>5
(* The other steps of Do keep the lease, and CloseRuntime comes after it. *)
<1>13. ASSUME NEW j \in Jobs,
              \/ AcquireClear(j) \/ (\E r \in Runtimes : Build(j, r)) \/ Watch(j) \/ NewScope(j) \/ JobStops(j)
              \/ (\E f \in Fates : Job(j, f)) \/ AfterJob(j) \/ Decide(j) \/ Stop(j) \/ CloseRuntime(j)
       PROVE  Goal
  <2> DEFINE P == {"lease", "scope", "unwind", "run", "after", "decide", "finish"}
  <2>1. closed' = closed /\ live' = live /\ free' = free
    BY <1>13 DEF AcquireClear, Build, Watch, NewScope, JobStops, Job, AfterJob, Decide, Stop, CloseRuntime
  <2>2. \/ \E p \in P : pc[j] \in Counted /\ pc' = [pc EXCEPT ![j] = p]
        \/ pc[j] = "close" /\ pc' = [pc EXCEPT ![j] = "returned"]
    BY <1>13 DEF AcquireClear, Build, Watch, NewScope, JobStops, Job, AfterJob, Decide, Stop, CloseRuntime
  <2>3. PICK p \in Points : (pc[j] \in Counted <=> p \in Counted) /\ pc' = [pc EXCEPT ![j] = p]
    BY <2>2
  <2> QED
    BY <2>1, <2>3, <1>5
<1>14. ASSUME NEW j \in Jobs, Watcher(j) \/ Cancel(j) PROVE Goal
  BY <1>14, <1>4 DEF Watcher, WatcherFires, WatcherEnds, WatcherInterrupts, Cancel
<1>15. ASSUME NEW r \in Runtimes, CloseParked(r) PROVE Goal
  BY <1>15, <1>4 DEF CloseParked
<1>16. CASE PoolClose
  BY <1>16 DEF PoolClose
<1>17. CASE UNCHANGED vars
  BY <1>17, <1>4 DEF vars
<1> HIDE DEF Goal
<1>18. ASSUME NEW j \in Jobs, Do(j) PROVE Goal
  BY <1>18, <1>6, <1>7, <1>8, <1>9, <1>10, <1>11, <1>12, <1>13 DEF Do
<1>19. CASE Next
  BY <1>19, <1>13, <1>14, <1>15, <1>16, <1>18 DEF Next, Goal
<1> QED
  BY <1>17, <1>19 DEF Goal

(* For any number of jobs, Runtimes and failures of either: while the pool   *)
(* is open, live counts exactly the Runtimes that are parked, leased or      *)
(* being built, so PoolStats never drifts (scope.go acquire, release,        *)
(* discard; Pool.live).                                                      *)
THEOREM LiveCorrect == Spec => []LiveIsExact
<1>1. Init => LiveIsExact
  <2> SUFFICES ASSUME Init PROVE live = Len(free) + Cardinality(Counting)
    BY CountingIs DEF LiveIsExact
  <2>1. Counting = {} /\ live = 0 /\ Len(free) = 0
    BY DEF Init, Counting, Counted
  <2> QED
    BY <2>1, FS_EmptySet
<1>2. TypeOK /\ LiveIsExact /\ [Next]_vars => LiveIsExact'
  BY LiveStep
<1> QED
  BY <1>1, <1>2, TypeCorrect, PTL DEF Spec
=============================================================================
