--------------------------- MODULE CoroutineProofs ---------------------------
(***************************************************************************)
(* Proofs about Coroutines: however coroutines drive each other, the       *)
(* engine points at the context of whoever runs, and the collector finds   *)
(* the contexts of everyone who waits for a coroutine it drove.            *)
(*                                                                         *)
(* The inductive invariant ties the Go locals of the genDrive calls under  *)
(* way to each other: each call restores to the coroutine the call below   *)
(* it drives.  Every step is, for the engine, one of three: a genDrive     *)
(* begins, the innermost one ends, or nothing happens.                     *)
(*                                                                         *)
(* The second half is about the requests of async generators: they are     *)
(* answered in order, one step at a time, and whatever will be resumed is  *)
(* where the collector looks.  Its invariant adds to the first that a      *)
(* generator with requests is in exactly one hand.                         *)
(***************************************************************************)
EXTENDS Coroutines, TLAPS, FiniteSetTheorems

Frame == [g : Co, prevGen : Co \cup {None}, main : Co \cup {Main}]

EngineType ==
  /\ calls \in Seq(Frame)
  /\ running \in [Co -> BOOLEAN]
  /\ saved \in [Co -> Co \cup {Main}]
  /\ parked \in Seq(Co \cup {Main})

(* What the call at depth i found, and will restore. *)
Linked ==
  \A i \in 1 .. Len(calls) :
    /\ calls[i].main = IF i = 1 THEN Main ELSE calls[i - 1].g
    /\ calls[i].prevGen = IF i = 1 THEN None ELSE calls[i - 1].g

ChainRuns ==
  /\ \A i \in 1 .. Len(calls) : running[calls[i].g]
  /\ \A i, j \in 1 .. Len(calls) : calls[i].g = calls[j].g => i = j

Parked ==
  /\ Len(parked) = Len(calls)
  /\ \A i \in 1 .. Len(calls) : parked[i] = calls[i].main

AtTop ==
  /\ rtCtx = IF calls = <<>> THEN Main ELSE calls[Len(calls)].g
  /\ curGen = IF calls = <<>> THEN None ELSE calls[Len(calls)].g

Saved == \A g \in Co : saved[g] = g

(* Reactions resume coroutines. *)
QueueType ==
  /\ \A w \in waiting : w.g \in Co
  /\ \E S : jobs \in Seq(S) /\ \A j \in S : j.w.g \in Co

(* The inductive invariant. *)
EngineInv == EngineType /\ Linked /\ ChainRuns /\ Parked /\ AtTop /\ Saved /\ QueueType

LEMMA EngineInit == Init => EngineInv
<1> SUFFICES ASSUME Init PROVE EngineInv
  OBVIOUS
<1>1. calls = <<>> /\ parked = <<>> /\ rtCtx = Main /\ curGen = None /\ waiting = {} /\ jobs = <<>>
  BY DEF Init
<1>2. EngineType
  <2>1. running \in [Co -> BOOLEAN] /\ saved \in [Co -> Co \cup {Main}]
    BY DEF Init
  <2> QED
    BY <1>1, <2>1 DEF EngineType
<1>3. Linked /\ ChainRuns /\ Parked /\ AtTop
  BY <1>1 DEF Linked, ChainRuns, Parked, AtTop
<1>4. Saved
  BY DEF Init, Saved
<1>5. QueueType
  <2>1. jobs \in Seq({}) /\ \A j \in {} : j.w.g \in Co
    BY <1>1
  <2> QED
    BY <1>1, <2>1, SMTT(30) DEF QueueType
<1> QED
  BY <1>2, <1>3, <1>4, <1>5 DEF EngineInv

(* For the engine, a step begins a genDrive, ends the innermost, or does nothing. *)
LEMMA EngineSteps ==
  ASSUME QueueType, [Next]_vars
  PROVE  \/ \E g \in Co : Drive(g)
         \/ calls # <<>> /\ Back
         \/ UNCHANGED engine
<1> USE DEF engine
<1>1. CASE UNCHANGED vars
  BY <1>1 DEF vars
<1>2. ASSUME NEW g \in Gens, GenNext(g) PROVE \E h \in Co : Drive(h)
  BY <1>2 DEF GenNext, Co
<1>3. ASSUME NEW f \in Asyncs, runAsync(f) PROVE \E h \in Co : Drive(h)
  BY <1>3 DEF runAsync, Co
<1>4. ASSUME NEW g \in AsyncGens, NEW r, Serve(g, r) PROVE (\E h \in Co : Drive(h)) \/ UNCHANGED engine
  BY <1>4 DEF Serve, Stay, Co
<1>5. ASSUME NEW g \in AsyncGens, NEW k, Request(g, k) PROVE (\E h \in Co : Drive(h)) \/ UNCHANGED engine
  BY <1>5, <1>4 DEF Request, Drain, Stay
<1>6. ASSUME NEW g \in AsyncGens, asyncGenFinishReq(g) PROVE (\E h \in Co : Drive(h)) \/ UNCHANGED engine
  BY <1>6, <1>4 DEF asyncGenFinishReq, Drain, Stay
<1>7. ASSUME Runner \in Co PROVE calls # <<>>
  BY <1>7, CoroutineAssumption DEF Runner
<1>8. CASE Yield \/ Finish \/ Await \/ AsyncYield \/ AsyncYieldStar \/ AsyncFinish
  BY <1>7, <1>8 DEF Yield, Finish, Await, AsyncYield, AsyncYieldStar, AsyncFinish, Co
<1>9. ASSUME NEW w \in waiting, NEW ok \in BOOLEAN, Settle(w, ok) PROVE UNCHANGED engine
  BY <1>9 DEF Settle
<1>10. CASE JobDeliver
  BY <1>10 DEF JobDeliver
<1>11. CASE JobResume
  <2>1. Head(jobs).w.g \in Co
    <3>1. PICK S : jobs \in Seq(S) /\ \A j \in S : j.w.g \in Co
      BY DEF QueueType
    <3>2. jobs # <<>>
      BY <1>11 DEF JobResume, Turn
    <3>3. Head(jobs) \in S
      BY <3>1, <3>2
    <3> QED
      BY <3>1, <3>3
  <2> QED
    BY <1>11, <2>1 DEF JobResume
<1>12. ASSUME NEW g \in Co, Drop(g) PROVE UNCHANGED engine
  BY <1>12 DEF Drop
<1>13. CASE Next
  BY <1>13, <1>2, <1>3, <1>5, <1>6, <1>8, <1>9, <1>10, <1>11, <1>12 DEF Next
<1> QED
  BY <1>1, <1>13

(* genDrive begins. *)
LEMMA DriveKeeps ==
  ASSUME EngineType, Linked, ChainRuns, Parked, AtTop, Saved, NEW g \in Co, Drive(g)
  PROVE  EngineType' /\ Linked' /\ ChainRuns' /\ Parked' /\ AtTop' /\ Saved'
<1> DEFINE f == [g |-> g, prevGen |-> curGen, main |-> rtCtx]
           n == Len(calls)
<1>1. /\ calls' = Append(calls, f) /\ parked' = Append(parked, rtCtx)
      /\ rtCtx' = saved[g] /\ curGen' = g /\ saved' = saved
      /\ running' = [running EXCEPT ![g] = TRUE]
      /\ ~ running[g]
  BY DEF Drive
<1>2. calls \in Seq(Frame) /\ n \in Nat
  BY DEF EngineType
<1>3. \A i \in 1 .. n : calls[i] \in Frame
  BY <1>2
<1>4. rtCtx \in Co \cup {Main} /\ curGen \in Co \cup {None}
  BY <1>2, <1>3 DEF AtTop, Frame
<1>5. f \in Frame
  BY <1>4 DEF Frame
<1>6. /\ calls' \in Seq(Frame) /\ Len(calls') = n + 1 /\ calls'[n + 1] = f
      /\ \A i \in 1 .. n : calls'[i] = calls[i]
  BY <1>1, <1>2, <1>5
<1>7. EngineType'
  <2>1. running' \in [Co -> BOOLEAN]
    BY <1>1 DEF EngineType
  <2>2. parked' \in Seq(Co \cup {Main})
    BY <1>1, <1>4 DEF EngineType
  <2>3. saved' \in [Co -> Co \cup {Main}]
    BY <1>1 DEF EngineType
  <2> QED
    BY <1>6, <2>1, <2>2, <2>3 DEF EngineType
<1>8. Linked'
  <2>1. n = 0 <=> calls = <<>>
    BY <1>2
  <2>2. /\ f.main = IF n + 1 = 1 THEN Main ELSE calls[n].g
        /\ f.prevGen = IF n + 1 = 1 THEN None ELSE calls[n].g
    BY <2>1, <1>2 DEF AtTop
  <2>3. ASSUME NEW i \in 1 .. n + 1
        PROVE  /\ calls'[i].main = IF i = 1 THEN Main ELSE calls'[i - 1].g
               /\ calls'[i].prevGen = IF i = 1 THEN None ELSE calls'[i - 1].g
    <3>1. CASE i = n + 1
      BY <3>1, <2>2, <1>6, <1>2
    <3>2. CASE i \in 1 .. n
      <4>1. calls'[i] = calls[i] /\ (i # 1 => calls'[i - 1] = calls[i - 1])
        BY <3>2, <1>6, <1>2
      <4> QED
        BY <4>1, <3>2 DEF Linked
    <3> QED
      BY <3>1, <3>2, <1>2
  <2> QED
    BY <2>3, <1>6 DEF Linked
<1>9. ChainRuns'
  <2>1. \A i \in 1 .. n : calls[i].g \in Co /\ calls[i].g # g
    BY <1>1, <1>3 DEF ChainRuns, Frame
  <2>2. \A i \in 1 .. n + 1 : running'[calls'[i].g]
    <3>1. \A i \in 1 .. n : running'[calls'[i].g]
      BY <2>1, <1>1, <1>6 DEF ChainRuns, EngineType
    <3>2. running'[calls'[n + 1].g]
      BY <1>1, <1>6 DEF EngineType
    <3> QED
      BY <3>1, <3>2, <1>2
  <2>3. ASSUME NEW i \in 1 .. n + 1, NEW j \in 1 .. n + 1, calls'[i].g = calls'[j].g
        PROVE  i = j
    <3>1. CASE i \in 1 .. n /\ j \in 1 .. n
      BY <3>1, <2>3, <1>6 DEF ChainRuns
    <3>2. CASE i = n + 1 /\ j \in 1 .. n
      BY <3>2, <2>3, <2>1, <1>6
    <3>3. CASE j = n + 1 /\ i \in 1 .. n
      BY <3>3, <2>3, <2>1, <1>6
    <3> QED
      BY <3>1, <3>2, <3>3, <1>2
  <2> QED
    BY <2>2, <2>3, <1>6 DEF ChainRuns
<1>10. Parked'
  <2>1. parked \in Seq(Co \cup {Main}) /\ Len(parked) = n
    BY DEF EngineType, Parked
  <2>2. Len(parked') = n + 1 /\ parked'[n + 1] = rtCtx /\ \A i \in 1 .. n : parked'[i] = parked[i]
    BY <1>1, <1>4, <2>1
  <2>3. \A i \in 1 .. n + 1 : parked'[i] = calls'[i].main
    BY <2>2, <1>6, <1>2 DEF Parked
  <2> QED
    BY <2>2, <2>3, <1>6 DEF Parked
<1>11. AtTop'
  BY <1>1, <1>6, <1>2 DEF AtTop, Saved
<1>12. Saved'
  BY <1>1 DEF Saved
<1> QED
  BY <1>7, <1>8, <1>9, <1>10, <1>11, <1>12

(* The innermost genDrive ends. *)
LEMMA BackKeeps ==
  ASSUME EngineType, Linked, ChainRuns, Parked, AtTop, Saved, calls # <<>>, Back
  PROVE  EngineType' /\ Linked' /\ ChainRuns' /\ Parked' /\ AtTop' /\ Saved'
<1> DEFINE n == Len(calls)
           t == calls[n]
<1>1. Top = t
  BY DEF Top, Last
<1>2. /\ calls' = SubSeq(calls, 1, n - 1)
      /\ parked' = SubSeq(parked, 1, Len(parked) - 1)
      /\ running' = [running EXCEPT ![t.g] = FALSE]
      /\ saved' = [saved EXCEPT ![t.g] = rtCtx]
      /\ rtCtx' = t.main /\ curGen' = t.prevGen
  BY <1>1 DEF Back, Front
<1>3. calls \in Seq(Frame) /\ n \in Nat /\ n >= 1
  BY DEF EngineType
<1>4. \A i \in 1 .. n : calls[i] \in Frame
  BY <1>3
<1>5. t \in Frame /\ t.g \in Co
  BY <1>3, <1>4 DEF Frame
<1>6. rtCtx = t.g
  BY DEF AtTop
<1>7. /\ calls' \in Seq(Frame) /\ Len(calls') = n - 1
      /\ \A i \in 1 .. n - 1 : calls'[i] = calls[i]
  <2>1. 1 \in 1 .. n + 1 /\ n - 1 \in 1 - 1 .. n /\ (n - 1) - 1 + 1 = n - 1
    BY <1>3
  <2>2. \A i \in 1 .. n - 1 : 1 + i - 1 = i /\ i \in 1 .. n
    BY <1>3
  <2>3. calls' \in Seq(Frame)
    BY <1>2, <1>3, <1>4, <2>1
  <2>4. Len(calls') = n - 1
    BY <1>2, <1>3, <2>1
  <2>5. \A i \in 1 .. n - 1 : calls'[i] = calls[i]
    BY <1>2, <1>3, <2>1, <2>2
  <2> QED
    BY <2>3, <2>4, <2>5
<1>8. EngineType'
  <2>1. running' \in [Co -> BOOLEAN]
    BY <1>2 DEF EngineType
  <2>2. parked' \in Seq(Co \cup {Main})
    BY <1>2, <1>3 DEF EngineType, Parked
  <2>3. saved' \in [Co -> Co \cup {Main}]
    BY <1>2, <1>5, <1>6 DEF EngineType
  <2> QED
    BY <1>7, <2>1, <2>2, <2>3 DEF EngineType
<1>9. Linked'
  <2>1. ASSUME NEW i \in 1 .. n - 1
        PROVE  /\ calls'[i].main = IF i = 1 THEN Main ELSE calls'[i - 1].g
               /\ calls'[i].prevGen = IF i = 1 THEN None ELSE calls'[i - 1].g
    <3>1. calls'[i] = calls[i] /\ (i # 1 => calls'[i - 1] = calls[i - 1]) /\ i \in 1 .. n
      BY <1>7, <1>3
    <3> QED
      BY <3>1 DEF Linked
  <2> QED
    BY <2>1, <1>7 DEF Linked
<1>10. ChainRuns'
  <2>1. \A i \in 1 .. n - 1 : i \in 1 .. n /\ calls[i].g \in Co /\ calls[i].g # t.g
    BY <1>3, <1>4 DEF ChainRuns, Frame
  <2>2. \A i \in 1 .. n - 1 : running'[calls'[i].g]
    BY <2>1, <1>2, <1>7 DEF ChainRuns, EngineType
  <2>3. \A i, j \in 1 .. n - 1 : calls'[i].g = calls'[j].g => i = j
    BY <2>1, <1>7 DEF ChainRuns
  <2> QED
    BY <2>2, <2>3, <1>7 DEF ChainRuns
<1>11. Parked'
  <2>1. parked \in Seq(Co \cup {Main}) /\ Len(parked) = n
    BY DEF EngineType, Parked
  <2>2. Len(parked') = n - 1 /\ \A i \in 1 .. n - 1 : parked'[i] = parked[i]
    BY <1>2, <1>3, <2>1
  <2>3. \A i \in 1 .. n - 1 : i \in 1 .. n
    BY <1>3
  <2> QED
    BY <2>2, <2>3, <1>7 DEF Parked
<1>12. AtTop'
  <2>1. CASE n = 1
    <3>1. t.main = Main /\ t.prevGen = None
      BY <2>1, <1>3 DEF Linked
    <3>2. calls' = <<>>
      BY <2>1, <1>7
    <3> QED
      BY <3>1, <3>2, <1>2 DEF AtTop
  <2>2. CASE n # 1
    <3>0. n \in 1 .. Len(calls)
      BY <1>3
    <3>1. t.main = calls[n - 1].g /\ t.prevGen = calls[n - 1].g
      BY <2>2, <3>0 DEF Linked
    <3>2. calls' # <<>> /\ calls'[Len(calls')] = calls[n - 1]
      BY <2>2, <1>7, <1>3
    <3> QED
      BY <3>1, <3>2, <1>2 DEF AtTop
  <2> QED
    BY <2>1, <2>2
<1>13. Saved'
  BY <1>2, <1>6 DEF Saved, EngineType
<1> QED
  BY <1>8, <1>9, <1>10, <1>11, <1>12, <1>13

(* The queues keep naming coroutines. *)
LEMMA QueueKeeps ==
  ASSUME QueueType, [Next]_vars
  PROVE  QueueType'
<1>1. PICK S : jobs \in Seq(S) /\ \A j \in S : j.w.g \in Co
  BY DEF QueueType
<1>2. waiting' \subseteq waiting => \A w \in waiting' : w.g \in Co
  BY DEF QueueType
<1>3. \A w \in waiting' : w.g \in Co
  <2>1. CASE UNCHANGED waiting
    BY <2>1, <1>2
  <2>2. ASSUME NEW g \in AsyncGens, NEW r, Serve(g, r) PROVE \A w \in waiting' : w.g \in Co
    BY <2>2 DEF Serve, QueueType, Co
  <2>3. ASSUME NEW g \in AsyncGens, NEW k, Request(g, k) PROVE \A w \in waiting' : w.g \in Co
    BY <2>3, <2>2, <1>2 DEF Request, Drain
  <2>4. ASSUME NEW g \in AsyncGens, asyncGenFinishReq(g) PROVE \A w \in waiting' : w.g \in Co
    BY <2>4, <2>2, <1>2 DEF asyncGenFinishReq, Drain
  <2>5. CASE Await
    BY <2>5 DEF Await, QueueType, Co
  <2>6. CASE AsyncYield
    BY <2>6 DEF AsyncYield, QueueType, Co
  <2>7. ASSUME NEW w \in waiting, NEW ok \in BOOLEAN, Settle(w, ok) PROVE waiting' \subseteq waiting
    BY <2>7 DEF Settle
  <2>8. CASE Next
    <3>1. ASSUME NEW g \in Gens, GenNext(g) PROVE UNCHANGED waiting
      BY <3>1 DEF GenNext
    <3>2. ASSUME NEW f \in Asyncs, runAsync(f) PROVE UNCHANGED waiting
      BY <3>2 DEF runAsync
    <3>3. ASSUME Yield \/ Finish \/ AsyncYieldStar \/ AsyncFinish \/ JobResume \/ JobDeliver
          PROVE  UNCHANGED waiting
      BY <3>3 DEF Yield, Finish, AsyncYieldStar, AsyncFinish, JobResume, JobDeliver
    <3>4. ASSUME NEW g \in Co, Drop(g) PROVE UNCHANGED waiting
      BY <3>4 DEF Drop
    <3> QED
      BY <2>1, <2>3, <2>4, <2>5, <2>6, <2>7, <1>2, <2>8, <3>1, <3>2, <3>3, <3>4 DEF Next
  <2>9. CASE UNCHANGED vars
    BY <2>9, <1>2 DEF vars
  <2> QED
    BY <2>8, <2>9
<1>4. \E T : jobs' \in Seq(T) /\ \A j \in T : j.w.g \in Co
  <2>1. CASE UNCHANGED jobs
    BY <2>1, <1>1
  <2>2. CASE jobs # <<>> /\ jobs' = Tail(jobs)
    <3>1. jobs' \in Seq(S)
      BY <2>2, <1>1
    <3> QED
      BY <3>1, <1>1
  <2>3. ASSUME NEW w \in waiting, NEW ok \in BOOLEAN, Settle(w, ok)
        PROVE  \E T : jobs' \in Seq(T) /\ \A j \in T : j.w.g \in Co
    <3> DEFINE e == [w |-> w, ok |-> ok]
               T == S \cup {e}
    <3>1. jobs' = Append(jobs, e)
      BY <2>3 DEF Settle
    <3>2. jobs' \in Seq(T)
      BY <3>1, <1>1
    <3>3. \A j \in T : j.w.g \in Co
      BY <1>1 DEF QueueType
    <3> QED
      BY <3>2, <3>3
  <2>4. CASE Next
    <3>1. ASSUME NEW g \in Gens, GenNext(g) PROVE UNCHANGED jobs
      BY <3>1 DEF GenNext
    <3>2. ASSUME NEW f \in Asyncs, runAsync(f) PROVE UNCHANGED jobs
      BY <3>2 DEF runAsync
    <3>3. ASSUME Yield \/ Finish \/ Await \/ AsyncYield \/ AsyncYieldStar \/ AsyncFinish
          PROVE  UNCHANGED jobs
      BY <3>3 DEF Yield, Finish, Await, AsyncYield, AsyncYieldStar, AsyncFinish
    <3>4. ASSUME NEW g \in Co, Drop(g) PROVE UNCHANGED jobs
      BY <3>4 DEF Drop
    <3>5. ASSUME NEW g \in AsyncGens, NEW k, Request(g, k) PROVE UNCHANGED jobs
      BY <3>5 DEF Request
    <3>6. ASSUME NEW g \in AsyncGens, asyncGenFinishReq(g) PROVE UNCHANGED jobs
      BY <3>6 DEF asyncGenFinishReq
    <3>7. CASE JobResume \/ JobDeliver
      BY <3>7, <2>2 DEF JobResume, JobDeliver, Turn
    <3> QED
      BY <2>1, <2>3, <2>4, <3>1, <3>2, <3>3, <3>4, <3>5, <3>6, <3>7 DEF Next
  <2>5. CASE UNCHANGED vars
    BY <2>5, <2>1 DEF vars
  <2> QED
    BY <2>4, <2>5
<1> QED
  BY <1>3, <1>4 DEF QueueType

LEMMA EngineStep ==
  ASSUME EngineInv, [Next]_vars
  PROVE  EngineInv'
<1>1. EngineType /\ Linked /\ ChainRuns /\ Parked /\ AtTop /\ Saved /\ QueueType
  BY DEF EngineInv
<1>2. QueueType'
  BY <1>1, QueueKeeps
<1>3. CASE \E g \in Co : Drive(g)
  BY <1>1, <1>2, <1>3, DriveKeeps DEF EngineInv
<1>4. CASE calls # <<>> /\ Back
  BY <1>1, <1>2, <1>4, BackKeeps DEF EngineInv
<1>5. CASE UNCHANGED engine
  <2>1. /\ calls' = calls /\ running' = running /\ saved' = saved
        /\ parked' = parked /\ rtCtx' = rtCtx /\ curGen' = curGen
    BY <1>5 DEF engine
  <2> QED
    BY <1>1, <1>2, <2>1 DEF EngineInv, EngineType, Linked, ChainRuns, Parked, AtTop, Saved
<1> QED
  BY <1>1, <1>3, <1>4, <1>5, EngineSteps

(* The invariant holds in every behaviour. *)
THEOREM EngineInvariant == Spec => []EngineInv
<1>1. EngineInv /\ [Next]_vars => EngineInv'
  BY EngineStep
<1> QED
  BY <1>1, EngineInit, PTL DEF Spec

(* For any number of generators, async functions and async generators, and  *)
(* any nesting of the calls they make: whoever runs finds its own context   *)
(* in the Runtime and itself in curGen, and whoever does not run finds its  *)
(* context where genDrive left it (generator.go genDrive).                  *)
THEOREM ContextCorrect == Spec => []ContextIsOwn
<1>1. EngineInv => ContextIsOwn
  <2> SUFFICES ASSUME EngineInv PROVE ContextIsOwn
    OBVIOUS
  <2>1. calls # <<>> => calls[Len(calls)].g \in Co
    <3>1. ASSUME calls # <<>> PROVE calls[Len(calls)].g \in Co
      <4>1. calls \in Seq(Frame) /\ Len(calls) \in 1 .. Len(calls)
        BY <3>1 DEF EngineInv, EngineType
      <4>2. calls[Len(calls)] \in Frame
        BY <4>1
      <4> QED
        BY <4>2 DEF Frame
    <3> QED
      BY <3>1
  <2>2. Runner = IF calls = <<>> THEN Main ELSE calls[Len(calls)].g
    BY DEF Runner, Top, Last
  <2> QED
    BY <2>1, <2>2, CoroutineAssumption DEF EngineInv, AtTop, Saved, ContextIsOwn
<1> QED
  BY <1>1, EngineInvariant, PTL

(* The collector finds, in rt.frames or in rt.parked, the frames of every   *)
(* driver that waits for a coroutine, however deep the drivers are nested   *)
(* (generator.go genDrive, collect.go markRoots).                           *)
THEOREM ChainIsFound == Spec => []ChainFound
<1>1. EngineInv => ChainFound
  <2> SUFFICES ASSUME EngineInv PROVE ChainFound
    OBVIOUS
  <2> DEFINE n == Len(calls)
  <2>1. calls \in Seq(Frame) /\ n \in Nat /\ (n = 0 <=> calls = <<>>)
    BY DEF EngineInv, EngineType
  <2>2. DOMAIN calls = 1 .. n /\ DOMAIN parked = 1 .. n
    BY <2>1 DEF EngineInv, EngineType, Parked
  <2>3. \A i \in 1 .. n : calls[i].main \in Range(parked)
    BY <2>2 DEF EngineInv, Parked, Range
  <2>4. Main \in {rtCtx} \cup Range(parked)
    <3>1. CASE n = 0
      BY <3>1, <2>1 DEF EngineInv, AtTop
    <3>2. CASE n # 0
      <4>1. 1 \in 1 .. n /\ calls[1].main = Main
        BY <3>2, <2>1 DEF EngineInv, Linked
      <4> QED
        BY <4>1, <2>3
    <3> QED
      BY <3>1, <3>2
  <2>5. ASSUME NEW i \in 1 .. n PROVE calls[i].g \in {rtCtx} \cup Range(parked)
    <3>1. CASE i = n
      BY <3>1, <2>1 DEF EngineInv, AtTop
    <3>2. CASE i # n
      <4>1. i + 1 \in 1 .. n /\ i + 1 # 1 /\ (i + 1) - 1 = i
        BY <3>2, <2>1
      <4>2. calls[i + 1].main = calls[i].g
        BY <4>1 DEF EngineInv, Linked
      <4> QED
        BY <4>1, <4>2, <2>3
    <3> QED
      BY <3>1, <3>2
  <2> QED
    BY <2>2, <2>4, <2>5 DEF ChainFound, InChain
<1> QED
  BY <1>1, EngineInvariant, PTL

-----------------------------------------------------------------------------
(* The requests of async generators.  What the code relies on: a generator   *)
(* with requests is in exactly one hand - a reaction that waits, a reaction  *)
(* that is queued, its own body, or the settling of its front request - and  *)
(* that hand holds the number of the front request.                          *)

Reaction == [g : Asyncs \cup AsyncGens, then : {"step"}, id : Nat]
            \cup [g : AsyncGens, then : {"deliver", "return"}, id : Nat]
Queued == [w : Reaction, ok : BOOLEAN]
Req == [id : 1 .. MaxRequests, kind : {"next", "return"}]

RequestType ==
  /\ state \in [Co -> {"fresh", "suspended", "completed"}] /\ resumes \in [Co -> Nat]
  /\ reqs \in [AsyncGens -> Seq(Req)] /\ answers \in [AsyncGens -> Seq(1 .. MaxRequests)]
  /\ asked \in [AsyncGens -> 0 .. MaxRequests] /\ active \in [AsyncGens -> BOOLEAN]
  /\ finishing \in AsyncGens \cup {None}
  /\ asyncFrames \subseteq Asyncs \cup AsyncGens /\ held \subseteq Co
  /\ waiting \subseteq Reaction /\ jobs \in Seq(Queued)

Waits(g)  == \E w \in waiting : w.g = g
Queues(g) == \E i \in 1 .. Len(jobs) : jobs[i].w.g = g

OneWaits(g)  == \A v, w \in waiting : v.g = g /\ w.g = g => v = w
OneQueues(g) == \A i, j \in 1 .. Len(jobs) : jobs[i].w.g = g /\ jobs[j].w.g = g => i = j

(* Exactly one hand has a generator with requests, and none one without. *)
OneHand(g) ==
  /\ OneWaits(g) /\ OneQueues(g)
  /\ Waits(g) => ~ Queues(g) /\ ~ running[g] /\ finishing # g
  /\ Queues(g) => ~ running[g] /\ finishing # g
  /\ running[g] => finishing # g
  /\ reqs[g] # <<>> <=> Waits(g) \/ Queues(g) \/ running[g] \/ finishing = g

(* The requests that have been answered and removed from the queue. *)
Gone(g) == IF finishing = g THEN Len(answers[g]) - 1 ELSE Len(answers[g])

(* Answers and requests are numbered in order. *)
Numbered(g) ==
  /\ \A i \in 1 .. Len(answers[g]) : answers[g][i] = i
  /\ Gone(g) \in Nat /\ Len(reqs[g]) = asked[g] - Gone(g)
  /\ \A i \in 1 .. Len(reqs[g]) : reqs[g][i].id = Gone(g) + i

(* A reaction answers the front request. *)
NextId(g) == Len(answers[g]) + 1
WaitForFront(g)  == \A w \in waiting : w.g = g => w.id = NextId(g)
QueueForFront(g) == \A i \in 1 .. Len(jobs) : jobs[i].w.g = g => jobs[i].w.id = NextId(g)

(* Generators with requests, and async functions under way, are registered. *)
Registered ==
  /\ \A g \in AsyncGens : active[g] <=> reqs[g] # <<>>
  /\ \A g \in AsyncGens : reqs[g] # <<>> => g \in asyncFrames
  /\ \A f \in Asyncs : state[f] = "suspended" => f \in asyncFrames

Served(g) == OneHand(g) /\ Numbered(g) /\ WaitForFront(g) /\ QueueForFront(g)

RequestInv == EngineInv /\ RequestType /\ Registered /\ \A g \in AsyncGens : Served(g)

LEMMA RequestInit == Init => RequestInv
<1> SUFFICES ASSUME Init PROVE RequestInv
  OBVIOUS
<1>1. EngineInv
  BY EngineInit
<1>2. RequestType
  <2>1. state \in [Co -> {"fresh", "suspended", "completed"}] /\ resumes \in [Co -> Nat]
    BY DEF Init
  <2>2. reqs \in [AsyncGens -> Seq(Req)] /\ answers \in [AsyncGens -> Seq(1 .. MaxRequests)]
    BY DEF Init
  <2>3. asked \in [AsyncGens -> 0 .. MaxRequests] /\ active \in [AsyncGens -> BOOLEAN]
    BY CoroutineAssumption DEF Init
  <2>4. asyncFrames \subseteq Asyncs \cup AsyncGens /\ held \subseteq Co /\ finishing \in AsyncGens \cup {None}
    BY DEF Init, Co
  <2>5. waiting \subseteq Reaction /\ jobs \in Seq(Queued)
    BY DEF Init
  <2> QED
    BY <2>1, <2>2, <2>3, <2>4, <2>5 DEF RequestType
<1>3. Registered
  <2>1. \A f \in Asyncs : state[f] = "fresh"
    BY DEF Init, Co
  <2>2. \A g \in AsyncGens : reqs[g] = <<>> /\ active[g] = FALSE
    BY DEF Init
  <2> QED
    BY <2>1, <2>2 DEF Registered
<1>4. ASSUME NEW g \in AsyncGens PROVE Served(g)
  <2>1. /\ reqs[g] = <<>> /\ answers[g] = <<>> /\ asked[g] = 0 /\ ~ running[g] /\ finishing # g
        /\ waiting = {} /\ Len(jobs) = 0
    BY CoroutineAssumption DEF Init, Co
  <2>2. Gone(g) = 0 /\ Len(answers[g]) = 0 /\ Len(reqs[g]) = 0
    BY <2>1 DEF Gone
  <2>3. OneHand(g)
    BY <2>1 DEF OneHand, OneWaits, OneQueues, Waits, Queues
  <2>4. Numbered(g)
    BY <2>1, <2>2 DEF Numbered
  <2>5. WaitForFront(g) /\ QueueForFront(g)
    BY <2>1 DEF WaitForFront, QueueForFront
  <2> QED
    BY <2>3, <2>4, <2>5 DEF Served
<1> QED
  BY <1>1, <1>2, <1>3, <1>4 DEF RequestInv

-----------------------------------------------------------------------------
(* A step that leaves a generator alone. *)

(* What happens to the queue of jobs is not about g. *)
JobsOfOthers(g) ==
  \/ jobs' = jobs
  \/ \E e \in Queued : e.w.g # g /\ jobs' = Append(jobs, e)
  \/ jobs # <<>> /\ Head(jobs).w.g # g /\ jobs' = Tail(jobs)

WaitsOfOthers(g) ==
  /\ \A w \in waiting' : w.g = g => w \in waiting
  /\ \A w \in waiting : w.g = g => w \in waiting'

Untouched(g) ==
  /\ reqs'[g] = reqs[g] /\ answers'[g] = answers[g] /\ asked'[g] = asked[g]
  /\ running'[g] = running[g] /\ (finishing' = g <=> finishing = g)
  /\ WaitsOfOthers(g) /\ JobsOfOthers(g)

(* The jobs of g are those it had, in the same order. *)
LEMMA SameJobs ==
  ASSUME NEW g, jobs \in Seq(Queued), JobsOfOthers(g)
  PROVE  /\ Queues(g)' <=> Queues(g)
         /\ OneQueues(g) => OneQueues(g)'
         /\ QueueForFront(g) /\ answers'[g] = answers[g] => QueueForFront(g)'
<1> DEFINE n == Len(jobs)
<1>0. n \in Nat
  OBVIOUS
<1>1. CASE jobs' = jobs
  BY <1>1 DEF Queues, OneQueues, QueueForFront, NextId
<1>2. ASSUME NEW e \in Queued, e.w.g # g, jobs' = Append(jobs, e)
      PROVE  /\ Queues(g)' <=> Queues(g)
             /\ OneQueues(g) => OneQueues(g)'
             /\ QueueForFront(g) /\ answers'[g] = answers[g] => QueueForFront(g)'
  <2>1. Len(jobs') = n + 1 /\ jobs'[n + 1] = e /\ \A i \in 1 .. n : jobs'[i] = jobs[i]
    BY <1>2
  <2>2. \A i \in 1 .. Len(jobs') : jobs'[i].w.g = g => i \in 1 .. n /\ jobs'[i] = jobs[i]
    BY <1>0, <1>2, <2>1
  <2>3. \A i \in 1 .. n : i \in 1 .. Len(jobs') /\ jobs'[i] = jobs[i]
    BY <1>0, <2>1
  <2>4. Queues(g)' <=> Queues(g)
    BY <2>2, <2>3 DEF Queues
  <2>5. OneQueues(g) => OneQueues(g)'
    BY <2>2 DEF OneQueues
  <2>6. QueueForFront(g) /\ answers'[g] = answers[g] => QueueForFront(g)'
    BY <2>2 DEF QueueForFront, NextId
  <2> QED
    BY <2>4, <2>5, <2>6
<1>3. CASE jobs # <<>> /\ Head(jobs).w.g # g /\ jobs' = Tail(jobs)
  <2>1. Len(jobs') = n - 1 /\ n >= 1 /\ Head(jobs) = jobs[1] /\ \A i \in 1 .. n - 1 : jobs'[i] = jobs[i + 1]
    BY <1>3
  <2>2. \A i \in 1 .. Len(jobs') : i + 1 \in 1 .. n /\ jobs'[i] = jobs[i + 1]
    BY <1>0, <2>1
  <2>3. \A i \in 1 .. n : jobs[i].w.g = g => i - 1 \in 1 .. Len(jobs') /\ jobs'[i - 1] = jobs[i]
    <3>1. \A i \in 1 .. n : i = 1 \/ (i - 1 \in 1 .. n - 1 /\ (i - 1) + 1 = i)
      BY <1>0
    <3> QED
      BY <3>1, <2>1, <1>3
  <2>4. Queues(g)' <=> Queues(g)
    BY <2>2, <2>3 DEF Queues
  <2>5. OneQueues(g) => OneQueues(g)'
    <3> SUFFICES ASSUME OneQueues(g), NEW i \in 1 .. Len(jobs'), NEW j \in 1 .. Len(jobs'),
                        jobs'[i].w.g = g, jobs'[j].w.g = g
                 PROVE  i = j
      BY DEF OneQueues
    <3>1. i + 1 = j + 1
      BY <2>2 DEF OneQueues
    <3> QED
      BY <3>1, <2>1, <1>0
  <2>6. QueueForFront(g) /\ answers'[g] = answers[g] => QueueForFront(g)'
    BY <2>2 DEF QueueForFront, NextId
  <2> QED
    BY <2>4, <2>5, <2>6
<1> QED
  BY <1>1, <1>2, <1>3 DEF JobsOfOthers

LEMMA SameWaits ==
  ASSUME NEW g, WaitsOfOthers(g)
  PROVE  /\ Waits(g)' <=> Waits(g)
         /\ OneWaits(g) => OneWaits(g)'
         /\ WaitForFront(g) /\ answers'[g] = answers[g] => WaitForFront(g)'
BY DEF WaitsOfOthers, Waits, OneWaits, WaitForFront, NextId

LEMMA LeftAlone ==
  ASSUME NEW g, jobs \in Seq(Queued), Served(g), Untouched(g)
  PROVE  Served(g)'
<1>1. /\ reqs'[g] = reqs[g] /\ answers'[g] = answers[g] /\ asked'[g] = asked[g]
      /\ running'[g] = running[g] /\ (finishing' = g <=> finishing = g)
      /\ WaitsOfOthers(g) /\ JobsOfOthers(g)
  BY DEF Untouched
<1>2. OneHand(g) /\ Numbered(g) /\ WaitForFront(g) /\ QueueForFront(g)
  BY DEF Served
<1>3. Gone(g)' = Gone(g)
  BY <1>1 DEF Gone
<1>4. Numbered(g)'
  BY <1>1, <1>2, <1>3 DEF Numbered
<1>5. OneHand(g)'
  BY <1>1, <1>2, SameJobs, SameWaits DEF OneHand
<1>6. WaitForFront(g)' /\ QueueForFront(g)'
  BY <1>1, <1>2, SameJobs, SameWaits
<1> QED
  BY <1>4, <1>5, <1>6 DEF Served

-----------------------------------------------------------------------------
(* A generator passes from hand to hand. *)

(* The front request is the one to answer next. *)
LEMMA FrontIsNext ==
  ASSUME RequestType, NEW g \in AsyncGens, Served(g), reqs[g] # <<>>, finishing # g
  PROVE  Head(reqs[g]).id = NextId(g) /\ NextId(g) \in 1 .. MaxRequests
<1>1. reqs[g] \in Seq(Req) /\ answers[g] \in Seq(1 .. MaxRequests)
  BY DEF RequestType
<1>2. Head(reqs[g]) = reqs[g][1] /\ 1 \in 1 .. Len(reqs[g]) /\ reqs[g][1] \in Req
  BY <1>1
<1>3. reqs[g][1].id = Gone(g) + 1 /\ Gone(g) = Len(answers[g])
  BY <1>2 DEF Served, Numbered, Gone
<1> QED
  BY <1>2, <1>3 DEF NextId, Req

(* The body waits for a promise. *)
LEMMA BodyWaits ==
  ASSUME RequestType, NEW g \in AsyncGens, Served(g), running[g], ~ running'[g],
         NEW w, w.g = g, w.id = Head(reqs[g]).id, waiting' = waiting \cup {w},
         reqs'[g] = reqs[g], answers'[g] = answers[g], asked'[g] = asked[g],
         finishing' = finishing, jobs' = jobs
  PROVE  Served(g)'
<1>1. OneHand(g) /\ Numbered(g) /\ WaitForFront(g) /\ QueueForFront(g)
  BY DEF Served
<1>2. reqs[g] # <<>> /\ ~ Waits(g) /\ ~ Queues(g) /\ finishing # g
  BY <1>1 DEF OneHand
<1>3. w.id = NextId(g)
  BY <1>2, FrontIsNext
<1>4. \A v \in waiting' : v.g = g => v = w
  BY <1>2 DEF Waits
<1>5. Waits(g)' /\ OneWaits(g)'
  BY <1>4 DEF Waits, OneWaits
<1>6. ~ Queues(g)' /\ OneQueues(g)' /\ QueueForFront(g)'
  BY <1>2 DEF Queues, OneQueues, QueueForFront
<1>7. WaitForFront(g)'
  BY <1>3, <1>4 DEF WaitForFront, NextId
<1>8. OneHand(g)'
  BY <1>2, <1>5, <1>6 DEF OneHand
<1>9. Numbered(g)'
  BY <1>1 DEF Numbered, Gone
<1> QED
  BY <1>6, <1>7, <1>8, <1>9 DEF Served

(* The front request is answered; it is removed from the queue later. *)
LEMMA AnswerNumbered ==
  ASSUME RequestType, NEW g \in AsyncGens, Served(g), reqs[g] # <<>>, finishing # g,
         answers'[g] = Append(answers[g], NextId(g)), finishing' = g,
         reqs'[g] = reqs[g], asked'[g] = asked[g]
  PROVE  Numbered(g)'
<1> DEFINE n == Len(answers[g])
<1>1. answers[g] \in Seq(1 .. MaxRequests) /\ n \in Nat
  BY DEF RequestType
<1>2. Len(answers'[g]) = n + 1 /\ answers'[g][n + 1] = n + 1 /\ \A i \in 1 .. n : answers'[g][i] = answers[g][i]
  BY <1>1, FrontIsNext DEF NextId
<1>3. Gone(g) = n /\ Gone(g)' = n
  BY <1>1, <1>2 DEF Gone
<1>4. \A i \in 1 .. n + 1 : answers'[g][i] = i
  BY <1>1, <1>2 DEF Served, Numbered
<1> QED
  BY <1>1, <1>2, <1>3, <1>4 DEF Served, Numbered

LEMMA BodyAnswers ==
  ASSUME RequestType, NEW g \in AsyncGens, Served(g), running[g], ~ running'[g],
         answers'[g] = Append(answers[g], Head(reqs[g]).id), finishing' = g,
         reqs'[g] = reqs[g], asked'[g] = asked[g], waiting' = waiting, jobs' = jobs
  PROVE  Served(g)'
<1>1. OneHand(g)
  BY DEF Served
<1>2. reqs[g] # <<>> /\ ~ Waits(g) /\ ~ Queues(g) /\ finishing # g
  BY <1>1 DEF OneHand
<1>3. Numbered(g)'
  BY <1>2, FrontIsNext, AnswerNumbered
<1>4. ~ Waits(g)' /\ ~ Queues(g)'
  BY <1>2 DEF Waits, Queues
<1>5. OneWaits(g)' /\ OneQueues(g)' /\ WaitForFront(g)' /\ QueueForFront(g)'
  BY <1>4 DEF Waits, Queues, OneWaits, OneQueues, WaitForFront, QueueForFront
<1>6. OneHand(g)'
  BY <1>2, <1>4, <1>5 DEF OneHand
<1> QED
  BY <1>3, <1>5, <1>6 DEF Served

(* The promise a generator waits for settles: its reaction is queued. *)
LEMMA WaitQueued ==
  ASSUME RequestType, NEW g \in AsyncGens, Served(g), NEW w \in waiting, w.g = g, NEW ok,
         waiting' = waiting \ {w}, jobs' = Append(jobs, [w |-> w, ok |-> ok]),
         reqs'[g] = reqs[g], answers'[g] = answers[g], asked'[g] = asked[g],
         running'[g] = running[g], finishing' = finishing
  PROVE  Served(g)'
<1> DEFINE n == Len(jobs)
<1>1. OneHand(g) /\ Numbered(g) /\ WaitForFront(g) /\ QueueForFront(g) /\ jobs \in Seq(Queued) /\ n \in Nat
  BY DEF Served, RequestType
<1>2. Waits(g)
  BY DEF Waits
<1>3. reqs[g] # <<>> /\ ~ Queues(g) /\ ~ running[g] /\ finishing # g /\ OneWaits(g)
  BY <1>1, <1>2 DEF OneHand
<1>4. ~ Waits(g)'
  BY <1>3 DEF Waits, OneWaits
<1>5. Len(jobs') = n + 1 /\ jobs'[n + 1] = [w |-> w, ok |-> ok] /\ \A i \in 1 .. n : jobs'[i] = jobs[i]
  BY <1>1
<1>6. \A i \in 1 .. Len(jobs') : jobs'[i].w.g = g => i = n + 1
  BY <1>1, <1>3, <1>5 DEF Queues
<1>7. n + 1 \in 1 .. Len(jobs') /\ jobs'[n + 1].w = w
  BY <1>1, <1>5
<1>8. Queues(g)' /\ OneQueues(g)'
  BY <1>6, <1>7 DEF Queues, OneQueues
<1>9. QueueForFront(g)'
  BY <1>1, <1>6, <1>7 DEF QueueForFront, WaitForFront, NextId
<1>10. OneWaits(g)' /\ WaitForFront(g)'
  BY <1>4 DEF Waits, OneWaits, WaitForFront
<1>11. OneHand(g)'
  BY <1>3, <1>4, <1>8, <1>10 DEF OneHand
<1>12. Numbered(g)'
  BY <1>1 DEF Numbered, Gone
<1> QED
  BY <1>9, <1>10, <1>11, <1>12 DEF Served

(* The job of a generator begins: nothing of it is left in the queue. *)
LEMMA JobTaken ==
  ASSUME RequestType, NEW g \in AsyncGens, Served(g), jobs # <<>>, Head(jobs).w.g = g, jobs' = Tail(jobs)
  PROVE  /\ reqs[g] # <<>> /\ ~ Waits(g) /\ ~ running[g] /\ finishing # g
         /\ ~ Queues(g)' /\ Head(jobs).w.id = NextId(g)
<1> DEFINE n == Len(jobs)
<1>1. OneHand(g) /\ QueueForFront(g) /\ jobs \in Seq(Queued) /\ n \in Nat /\ n >= 1
  BY DEF Served, RequestType
<1>2. Head(jobs) = jobs[1] /\ 1 \in 1 .. n
  BY <1>1
<1>3. Queues(g)
  BY <1>2 DEF Queues
<1>4. reqs[g] # <<>> /\ ~ Waits(g) /\ ~ running[g] /\ finishing # g /\ OneQueues(g)
  BY <1>1, <1>3 DEF OneHand
<1>5. Len(jobs') = n - 1 /\ \A i \in 1 .. n - 1 : jobs'[i] = jobs[i + 1]
  BY <1>1
<1>6. ~ Queues(g)'
  <2> SUFFICES ASSUME NEW i \in 1 .. n - 1, jobs'[i].w.g = g PROVE FALSE
    BY <1>5 DEF Queues
  <2>1. i + 1 \in 1 .. n /\ jobs[i + 1].w.g = g /\ i + 1 # 1
    BY <1>1, <1>5
  <2> QED
    BY <2>1, <1>2, <1>4 DEF OneQueues
<1>7. jobs[1].w.id = NextId(g)
  BY <1>1, <1>2 DEF QueueForFront
<1> QED
  BY <1>2, <1>4, <1>6, <1>7

LEMMA JobResumes ==
  ASSUME RequestType, NEW g \in AsyncGens, Served(g), jobs # <<>>, Head(jobs).w.g = g, jobs' = Tail(jobs),
         running'[g], reqs'[g] = reqs[g], answers'[g] = answers[g], asked'[g] = asked[g],
         waiting' = waiting, finishing' = finishing
  PROVE  Served(g)'
<1>1. reqs[g] # <<>> /\ ~ Waits(g) /\ finishing # g /\ ~ Queues(g)'
  BY JobTaken
<1>2. ~ Waits(g)'
  BY <1>1 DEF Waits
<1>3. OneWaits(g)' /\ WaitForFront(g)' /\ OneQueues(g)' /\ QueueForFront(g)'
  BY <1>1, <1>2 DEF Waits, Queues, OneWaits, WaitForFront, OneQueues, QueueForFront
<1>4. OneHand(g)'
  BY <1>1, <1>2, <1>3 DEF OneHand
<1>5. Numbered(g)'
  BY DEF Served, Numbered, Gone
<1> QED
  BY <1>3, <1>4, <1>5 DEF Served

LEMMA JobAnswers ==
  ASSUME RequestType, NEW g \in AsyncGens, Served(g), jobs # <<>>, Head(jobs).w.g = g, jobs' = Tail(jobs),
         answers'[g] = Append(answers[g], Head(jobs).w.id), finishing' = g,
         running'[g] = running[g], reqs'[g] = reqs[g], asked'[g] = asked[g], waiting' = waiting
  PROVE  Served(g)'
<1>1. /\ reqs[g] # <<>> /\ ~ Waits(g) /\ ~ running[g] /\ finishing # g
      /\ ~ Queues(g)' /\ Head(jobs).w.id = NextId(g)
  BY JobTaken
<1>2. ~ Waits(g)'
  BY <1>1 DEF Waits
<1>3. OneWaits(g)' /\ WaitForFront(g)' /\ OneQueues(g)' /\ QueueForFront(g)'
  BY <1>1, <1>2 DEF Waits, Queues, OneWaits, WaitForFront, OneQueues, QueueForFront
<1>4. OneHand(g)'
  BY <1>1, <1>2, <1>3 DEF OneHand
<1>5. Numbered(g)'
  BY <1>1, AnswerNumbered
<1> QED
  BY <1>3, <1>4, <1>5 DEF Served

(* A request comes while the generator is at work. *)
LEMMA RequestWaits ==
  ASSUME RequestType, NEW g \in AsyncGens, Served(g), reqs[g] # <<>>, NEW k \in {"next", "return"},
         reqs'[g] = Append(reqs[g], [id |-> asked[g] + 1, kind |-> k]), asked'[g] = asked[g] + 1,
         answers'[g] = answers[g], running'[g] = running[g], finishing' = finishing,
         waiting' = waiting, jobs' = jobs
  PROVE  Served(g)'
<1> DEFINE n == Len(reqs[g])
<1>1. OneHand(g) /\ Numbered(g) /\ reqs[g] \in Seq(Req) /\ n \in Nat /\ asked[g] \in Nat
  BY DEF Served, RequestType
<1>2. /\ Len(reqs'[g]) = n + 1 /\ reqs'[g][n + 1].id = asked[g] + 1 /\ reqs'[g] # <<>>
      /\ \A i \in 1 .. n : reqs'[g][i] = reqs[g][i]
  BY <1>1
<1>3. Gone(g)' = Gone(g) /\ Gone(g) \in Nat /\ n = asked[g] - Gone(g)
  BY <1>1 DEF Gone, Numbered
<1>4. \A i \in 1 .. n + 1 : reqs'[g][i].id = Gone(g) + i
  <2>1. \A i \in 1 .. n + 1 : i \in 1 .. n \/ i = n + 1
    BY <1>1
  <2>2. reqs'[g][n + 1].id = Gone(g) + (n + 1)
    BY <1>1, <1>2, <1>3
  <2>3. \A i \in 1 .. n : reqs'[g][i].id = Gone(g) + i
    BY <1>1, <1>2 DEF Numbered
  <2> QED
    BY <2>1, <2>2, <2>3
<1>5. Numbered(g)'
  BY <1>1, <1>2, <1>3, <1>4 DEF Numbered
<1>6. OneHand(g)'
  BY <1>1, <1>2 DEF OneHand, OneWaits, OneQueues, Waits, Queues
<1>7. WaitForFront(g)' /\ QueueForFront(g)'
  BY DEF Served, WaitForFront, QueueForFront, NextId
<1> QED
  BY <1>5, <1>6, <1>7 DEF Served

(* Nobody has the generator, and the requests left in q are taken up. *)
Free(g, q) ==
  /\ q \in Seq(Req) /\ q # <<>> /\ Len(q) = asked'[g] - Len(answers[g])
  /\ \A i \in 1 .. Len(q) : q[i].id = Len(answers[g]) + i
  /\ ~ Waits(g) /\ ~ Queues(g) /\ ~ running[g] /\ finishing \in {None, g}
  /\ \A i \in 1 .. Len(answers[g]) : answers[g][i] = i

LEMMA TakenUp ==
  ASSUME EngineType, RequestType, NEW g \in AsyncGens, NEW q, Free(g, q), reqs'[g] = q, jobs' = jobs,
         Serve(g, Head(q))
  PROVE  Served(g)'
<1> DEFINE n == Len(answers[g])
<1>1. answers[g] \in Seq(1 .. MaxRequests) /\ n \in Nat /\ answers \in [AsyncGens -> Seq(1 .. MaxRequests)]
  BY DEF RequestType
<1>2. Head(q).id = n + 1 /\ Len(q) \in Nat
  BY DEF Free
<1>3. ~ Queues(g)' /\ OneQueues(g)' /\ QueueForFront(g)'
  BY DEF Free, Queues, OneQueues, QueueForFront
<1>4. g # None /\ g \in Co
  BY CoroutineAssumption DEF Co
<1>5. CASE finishing' = None /\ answers' = answers
  <2>1. Gone(g)' = n
    BY <1>4, <1>5 DEF Gone
  <2>2. Numbered(g)'
    BY <1>1, <1>5, <2>1 DEF Free, Numbered
  <2>3. CASE waiting' = waiting \cup {[g |-> g, then |-> "return", id |-> Head(q).id]} /\ Stay
    <3>1. running'[g] = running[g]
      BY <2>3 DEF Stay, engine
    <3>2. \A v \in waiting' : v.g = g => v = [g |-> g, then |-> "return", id |-> Head(q).id]
      BY <2>3 DEF Free, Waits
    <3>3. Waits(g)' /\ OneWaits(g)'
      <4>1. [g |-> g, then |-> "return", id |-> Head(q).id] \in waiting'
        BY <2>3
      <4> QED
        BY <3>2, <4>1 DEF Waits, OneWaits
    <3>4. WaitForFront(g)'
      BY <1>2, <1>5, <3>2 DEF WaitForFront, NextId
    <3>5. OneHand(g)'
      BY <1>3, <1>4, <1>5, <3>1, <3>3 DEF OneHand, Free
    <3> QED
      BY <1>3, <2>2, <3>4, <3>5 DEF Served
  <2>4. CASE Drive(g) /\ waiting' = waiting
    <3>1. running'[g]
      BY <2>4, <1>4 DEF Drive, EngineType
    <3>2. ~ Waits(g)' /\ OneWaits(g)' /\ WaitForFront(g)'
      BY <2>4 DEF Free, Waits, OneWaits, WaitForFront
    <3>3. OneHand(g)'
      BY <1>3, <1>4, <1>5, <3>1, <3>2 DEF OneHand, Free
    <3> QED
      BY <1>3, <2>2, <3>2, <3>3 DEF Served
  <2> QED
    BY <1>4, <1>5, <2>3, <2>4 DEF Serve, Answer
<1>6. CASE Answer(g, Head(q).id) /\ Stay /\ waiting' = waiting
  <2>1. answers'[g] = Append(answers[g], n + 1) /\ finishing' = g
    BY <1>1, <1>2, <1>6 DEF Answer
  <2>2. running'[g] = running[g]
    BY <1>6 DEF Stay, engine
  <2>3. Len(answers'[g]) = n + 1 /\ answers'[g][n + 1] = n + 1 /\ \A i \in 1 .. n : answers'[g][i] = answers[g][i]
    <3>1. Head(q) \in Req
      BY DEF Free
    <3>2. n + 1 \in 1 .. MaxRequests
      BY <1>2, <3>1 DEF Req
    <3> QED
      BY <1>1, <2>1, <3>2
  <2>4. Gone(g)' = n
    BY <1>1, <2>1, <2>3 DEF Gone
  <2>5. \A i \in 1 .. n + 1 : answers'[g][i] = i
    <3>1. \A i \in 1 .. n + 1 : i \in 1 .. n \/ i = n + 1
      BY <1>1
    <3> QED
      BY <2>3, <3>1 DEF Free
  <2>6. Numbered(g)'
    BY <1>1, <2>3, <2>4, <2>5 DEF Free, Numbered
  <2>7. ~ Waits(g)' /\ OneWaits(g)' /\ WaitForFront(g)'
    BY <1>6 DEF Free, Waits, OneWaits, WaitForFront
  <2>8. OneHand(g)'
    BY <1>3, <2>1, <2>2, <2>7 DEF OneHand, Free
  <2> QED
    BY <1>3, <2>6, <2>7, <2>8 DEF Served
<1> QED
  BY <1>5, <1>6 DEF Serve

-----------------------------------------------------------------------------
(* The steps, one by one. *)

(* The three parts a step must keep, besides EngineInv. *)
Rest == RequestType /\ Registered /\ \A g \in AsyncGens : Served(g)

LEMMA Disjoint ==
  /\ \A g \in AsyncGens : g \in Co /\ g \notin Gens /\ g \notin Asyncs /\ g # None
  /\ \A f \in Asyncs : f \in Co /\ f \notin AsyncGens
  /\ \A f \in Gens : f \in Co /\ f \notin AsyncGens
BY CoroutineAssumption DEF Co

(* The body that gives the engine back was running, and alone stops running. *)
LEMMA RunnerStops ==
  ASSUME EngineInv, Runner \in Co, Back
  PROVE  /\ running[Runner] /\ ~ running'[Runner]
         /\ \A h \in Co : h # Runner => running'[h] = running[h]
         /\ resumes' = resumes
<1>1. calls # <<>>
  BY CoroutineAssumption DEF Runner
<1>2. Runner = calls[Len(calls)].g /\ Top.g = Runner
  BY <1>1 DEF Runner, Top, Last
<1>3. Len(calls) \in 1 .. Len(calls)
  BY <1>1 DEF EngineInv, EngineType
<1>4. running[Runner]
  BY <1>2, <1>3 DEF EngineInv, ChainRuns
<1>5. running' = [running EXCEPT ![Runner] = FALSE] /\ resumes' = resumes
  BY <1>2 DEF Back
<1> QED
  BY <1>4, <1>5 DEF EngineInv, EngineType

LEMMA DriveRuns ==
  ASSUME EngineInv, RequestType, NEW g \in Co, Drive(g)
  PROVE  /\ ~ running[g] /\ running'[g] /\ \A h \in Co : h # g => running'[h] = running[h]
         /\ resumes' \in [Co -> Nat]
<1>1. running \in [Co -> BOOLEAN] /\ resumes \in [Co -> Nat]
  BY DEF EngineInv, EngineType, RequestType
<1>2. /\ ~ running[g] /\ running' = [running EXCEPT ![g] = TRUE]
      /\ resumes' = [resumes EXCEPT ![g] = @ + 1]
  BY DEF Drive
<1>3. resumes' \in [Co -> Nat]
  BY <1>1, <1>2
<1> QED
  BY <1>1, <1>2, <1>3

(* Steps that no async generator takes part in. *)
LEMMA AsideKeeps ==
  ASSUME Rest, running' \in [Co -> BOOLEAN], \A g \in AsyncGens : running'[g] = running[g],
         reqs' = reqs, answers' = answers, asked' = asked, active' = active, finishing' = finishing,
         jobs' = jobs, waiting' = waiting \/ \E w \in Reaction : w.g \in Asyncs /\ waiting' = waiting \cup {w},
         state' \in [Co -> {"fresh", "suspended", "completed"}], resumes' \in [Co -> Nat],
         asyncFrames' \subseteq Asyncs \cup AsyncGens, held' \subseteq Co,
         asyncFrames \cap AsyncGens \subseteq asyncFrames',
         \A f \in Asyncs : state'[f] = "suspended" => f \in asyncFrames'
  PROVE  Rest'
<1>1. RequestType /\ Registered
  BY DEF Rest
<1>2. waiting' \subseteq Reaction
  BY <1>1 DEF RequestType
<1>3. RequestType'
  BY <1>1, <1>2 DEF RequestType
<1>4. Registered'
  BY <1>1 DEF Registered
<1>5. ASSUME NEW g \in AsyncGens PROVE Served(g)'
  <2>1. WaitsOfOthers(g)
    BY Disjoint DEF WaitsOfOthers
  <2>2. JobsOfOthers(g)
    BY DEF JobsOfOthers
  <2>3. Untouched(g)
    BY <2>1, <2>2 DEF Untouched
  <2> QED
    BY <1>1, <2>3, LeftAlone DEF Rest, RequestType
<1> QED
  BY <1>3, <1>4, <1>5 DEF Rest

LEMMA GenNextKeeps == ASSUME EngineInv, Rest, NEW g \in Gens, GenNext(g), EngineInv' PROVE Rest'
<1>1. g \in Co /\ Drive(g) /\ RequestType /\ Registered
  BY Disjoint DEF GenNext, Rest
<1>2. /\ reqs' = reqs /\ answers' = answers /\ asked' = asked /\ active' = active /\ finishing' = finishing
      /\ jobs' = jobs /\ waiting' = waiting /\ state' = state /\ asyncFrames' = asyncFrames /\ held' = held
  BY DEF GenNext
<1>3. running' \in [Co -> BOOLEAN]
  BY DEF EngineInv, EngineType
<1>4. resumes' \in [Co -> Nat] /\ \A h \in AsyncGens : running'[h] = running[h]
  BY <1>1, Disjoint, DriveRuns
<1>5. /\ state' \in [Co -> {"fresh", "suspended", "completed"}]
      /\ asyncFrames' \subseteq Asyncs \cup AsyncGens /\ held' \subseteq Co
      /\ asyncFrames \cap AsyncGens \subseteq asyncFrames'
      /\ \A f \in Asyncs : state'[f] = "suspended" => f \in asyncFrames'
  BY <1>1, <1>2 DEF RequestType, Registered
<1> QED
  BY <1>2, <1>3, <1>4, <1>5, AsideKeeps

LEMMA YieldKeeps == ASSUME EngineInv, Rest, Yield, EngineInv' PROVE Rest'
<1>1. Runner \in Gens /\ Back /\ RequestType /\ Registered
  BY DEF Yield, Rest
<1>2. /\ reqs' = reqs /\ answers' = answers /\ asked' = asked /\ active' = active /\ finishing' = finishing
      /\ jobs' = jobs /\ waiting' = waiting /\ state' = state /\ asyncFrames' = asyncFrames /\ held' = held
  BY DEF Yield
<1>3. running' \in [Co -> BOOLEAN]
  BY DEF EngineInv, EngineType
<1>4. resumes' = resumes /\ \A h \in AsyncGens : running'[h] = running[h]
  BY <1>1, Disjoint, RunnerStops
<1>5. /\ state' \in [Co -> {"fresh", "suspended", "completed"}] /\ resumes' \in [Co -> Nat]
      /\ asyncFrames' \subseteq Asyncs \cup AsyncGens /\ held' \subseteq Co
      /\ asyncFrames \cap AsyncGens \subseteq asyncFrames'
      /\ \A f \in Asyncs : state'[f] = "suspended" => f \in asyncFrames'
  BY <1>1, <1>2, <1>4 DEF RequestType, Registered
<1> QED
  BY <1>2, <1>3, <1>4, <1>5, AsideKeeps

LEMMA runAsyncKeeps == ASSUME EngineInv, Rest, NEW f \in Asyncs, runAsync(f), EngineInv' PROVE Rest'
<1>1. f \in Co /\ Drive(f) /\ RequestType /\ Registered
  BY Disjoint DEF runAsync, Rest
<1>2. /\ reqs' = reqs /\ answers' = answers /\ asked' = asked /\ active' = active /\ finishing' = finishing
      /\ jobs' = jobs /\ waiting' = waiting /\ held' = held
      /\ state' = [state EXCEPT ![f] = "suspended"] /\ asyncFrames' = asyncFrames \cup {f}
  BY DEF runAsync
<1>3. running' \in [Co -> BOOLEAN]
  BY DEF EngineInv, EngineType
<1>4. resumes' \in [Co -> Nat] /\ \A h \in AsyncGens : running'[h] = running[h]
  BY <1>1, Disjoint, DriveRuns
<1>5. /\ state' \in [Co -> {"fresh", "suspended", "completed"}]
      /\ asyncFrames' \subseteq Asyncs \cup AsyncGens /\ held' \subseteq Co
      /\ asyncFrames \cap AsyncGens \subseteq asyncFrames'
  BY <1>1, <1>2 DEF RequestType
<1>6. \A h \in Asyncs : state'[h] = "suspended" => h \in asyncFrames'
  BY <1>1, <1>2, Disjoint DEF RequestType, Registered
<1> QED
  BY <1>2, <1>3, <1>4, <1>5, <1>6, AsideKeeps

LEMMA FinishKeeps == ASSUME EngineInv, Rest, Finish, EngineInv' PROVE Rest'
<1>1. Runner \in Gens \cup Asyncs /\ Back /\ RequestType /\ Registered
  BY DEF Finish, Rest
<1>2. /\ reqs' = reqs /\ answers' = answers /\ asked' = asked /\ active' = active /\ finishing' = finishing
      /\ jobs' = jobs /\ waiting' = waiting /\ held' = held
      /\ state' = [state EXCEPT ![Runner] = "completed"] /\ asyncFrames' = asyncFrames \ {Runner}
  BY DEF Finish
<1>3. running' \in [Co -> BOOLEAN]
  BY DEF EngineInv, EngineType
<1>4. resumes' = resumes /\ \A h \in AsyncGens : running'[h] = running[h]
  BY <1>1, Disjoint, RunnerStops
<1>5. /\ state' \in [Co -> {"fresh", "suspended", "completed"}] /\ resumes' \in [Co -> Nat]
      /\ asyncFrames' \subseteq Asyncs \cup AsyncGens /\ held' \subseteq Co
      /\ asyncFrames \cap AsyncGens \subseteq asyncFrames'
  BY <1>1, <1>2, <1>4, Disjoint DEF RequestType
<1>6. \A f \in Asyncs : state'[f] = "suspended" => f \in asyncFrames'
  BY <1>1, <1>2, Disjoint DEF RequestType, Registered
<1> QED
  BY <1>2, <1>3, <1>4, <1>5, <1>6, AsideKeeps

LEMMA DropKeeps ==
  ASSUME EngineInv, Rest, (\E g \in Co : Drop(g)) \/ UNCHANGED vars, EngineInv'
  PROVE  Rest'
<1>1. RequestType /\ Registered
  BY DEF Rest
<1>2. /\ reqs' = reqs /\ answers' = answers /\ asked' = asked /\ active' = active /\ finishing' = finishing
      /\ jobs' = jobs /\ waiting' = waiting /\ state' = state /\ asyncFrames' = asyncFrames
      /\ held' \subseteq held /\ running' = running /\ resumes' = resumes
  BY DEF Drop, vars, engine
<1>3. running' \in [Co -> BOOLEAN]
  BY DEF EngineInv, EngineType
<1>4. /\ state' \in [Co -> {"fresh", "suspended", "completed"}] /\ resumes' \in [Co -> Nat]
      /\ asyncFrames' \subseteq Asyncs \cup AsyncGens /\ held' \subseteq Co
      /\ asyncFrames \cap AsyncGens \subseteq asyncFrames'
      /\ \A f \in Asyncs : state'[f] = "suspended" => f \in asyncFrames'
  BY <1>1, <1>2 DEF RequestType, Registered
<1> QED
  BY <1>2, <1>3, <1>4, AsideKeeps

(* The body of an async generator awaits, or yields. *)
LEMMA WaitKeeps ==
  ASSUME EngineInv, Rest, EngineInv', Runner \in AsyncGens, Back, NEW t \in {"step", "deliver"},
         waiting' = waiting \cup {[g |-> Runner, then |-> t, id |-> Head(reqs[Runner]).id]},
         UNCHANGED <<state, asyncFrames, held, reqs, active, finishing, jobs, asked, answers>>
  PROVE  Rest'
<1> DEFINE r == Runner
           w == [g |-> r, then |-> t, id |-> Head(reqs[r]).id]
<1>1. RequestType /\ Registered /\ \A g \in AsyncGens : Served(g)
  BY DEF Rest
<1>2. r \in Co /\ running[r] /\ ~ running'[r] /\ resumes' = resumes /\ \A h \in Co : h # r => running'[h] = running[h]
  BY Disjoint, RunnerStops
<1>3. reqs[r] # <<>> /\ finishing # r
  BY <1>1, <1>2 DEF Served, OneHand
<1>4. Head(reqs[r]).id \in Nat
  <2>1. Head(reqs[r]).id = NextId(r) /\ NextId(r) \in 1 .. MaxRequests
    BY <1>1, <1>3, FrontIsNext
  <2> QED
    BY <2>1, CoroutineAssumption
<1>5. w \in Reaction /\ w.g = r /\ w.id = Head(reqs[r]).id
  BY <1>4 DEF Reaction
<1>6. waiting' \subseteq Reaction
  BY <1>1, <1>5 DEF RequestType
<1>7. RequestType'
  BY <1>1, <1>2, <1>6 DEF RequestType
<1>8. Registered'
  BY <1>1 DEF Registered
<1>9. ASSUME NEW h \in AsyncGens PROVE Served(h)'
  <2>1. CASE h = r
    <3>1. running[h] /\ ~ running'[h] /\ w.g = h /\ w.id = Head(reqs[h]).id
      BY <1>2, <1>5, <2>1
    <3> QED
      BY <1>1, <3>1, BodyWaits
  <2>2. CASE h # r
    <3>1. WaitsOfOthers(h)
      BY <1>5, <2>2 DEF WaitsOfOthers
    <3>2. Untouched(h)
      BY <1>2, <2>2, <3>1, Disjoint DEF Untouched, JobsOfOthers
    <3> QED
      BY <1>1, <3>2, LeftAlone DEF RequestType
  <2> QED
    BY <2>1, <2>2
<1> QED
  BY <1>7, <1>8, <1>9 DEF Rest

LEMMA AwaitKeeps == ASSUME EngineInv, Rest, Await, EngineInv' PROVE Rest'
<1>1. /\ Runner \in Asyncs \cup AsyncGens /\ Back
      /\ UNCHANGED <<state, asyncFrames, held, reqs, active, finishing, jobs, asked, answers>>
  BY DEF Await
<1>2. CASE Runner \in AsyncGens
  <2>1. waiting' = waiting \cup {[g |-> Runner, then |-> "step", id |-> Head(reqs[Runner]).id]}
    BY <1>2, Disjoint DEF Await
  <2> QED
    BY <1>1, <1>2, <2>1, WaitKeeps
<1>3. CASE Runner \in Asyncs
  <2> DEFINE w == [g |-> Runner, then |-> "step", id |-> 0]
  <2>1. waiting' = waiting \cup {w} /\ w \in Reaction /\ w.g \in Asyncs
    BY <1>3 DEF Await, Reaction
  <2>2. RequestType /\ Registered
    BY DEF Rest
  <2>3. running' \in [Co -> BOOLEAN]
    BY DEF EngineInv, EngineType
  <2>4. resumes' = resumes /\ \A h \in AsyncGens : running'[h] = running[h]
    BY <1>1, <1>3, Disjoint, RunnerStops
  <2>5. /\ state' \in [Co -> {"fresh", "suspended", "completed"}] /\ resumes' \in [Co -> Nat]
        /\ asyncFrames' \subseteq Asyncs \cup AsyncGens /\ held' \subseteq Co
        /\ asyncFrames \cap AsyncGens \subseteq asyncFrames'
        /\ \A f \in Asyncs : state'[f] = "suspended" => f \in asyncFrames'
    BY <1>1, <2>2, <2>4 DEF RequestType, Registered
  <2>6. \E v \in Reaction : v.g \in Asyncs /\ waiting' = waiting \cup {v}
    BY <2>1
  <2> QED
    BY <1>1, <2>3, <2>4, <2>5, <2>6, AsideKeeps
<1> QED
  BY <1>1, <1>2, <1>3

LEMMA AsyncYieldKeeps == ASSUME EngineInv, Rest, AsyncYield, EngineInv' PROVE Rest'
<1>1. /\ Runner \in AsyncGens /\ Back
      /\ waiting' = waiting \cup {[g |-> Runner, then |-> "deliver", id |-> Head(reqs[Runner]).id]}
      /\ UNCHANGED <<state, asyncFrames, held, reqs, active, finishing, jobs, asked, answers>>
  BY DEF AsyncYield
<1> QED
  BY <1>1, WaitKeeps

(* The body of an async generator answers by yield*, or ends. *)
LEMMA BodyAnswersKeeps ==
  ASSUME EngineInv, Rest, EngineInv', AsyncYieldStar \/ AsyncFinish
  PROVE  Rest'
<1> DEFINE r == Runner
           i == Head(reqs[r]).id
<1>1. RequestType /\ Registered /\ \A g \in AsyncGens : Served(g)
  BY DEF Rest
<1>2. /\ r \in AsyncGens /\ Back /\ finishing = None
      /\ answers' = [answers EXCEPT ![r] = Append(@, i)] /\ finishing' = r
      /\ state' = state \/ state' = [state EXCEPT ![r] = "completed"]
      /\ asyncFrames' = asyncFrames /\ held' = held /\ reqs' = reqs /\ active' = active
      /\ waiting' = waiting /\ jobs' = jobs /\ asked' = asked
  BY DEF AsyncYieldStar, AsyncFinish, Answer, Script
<1>3. r \in Co /\ running[r] /\ ~ running'[r] /\ resumes' = resumes /\ \A h \in Co : h # r => running'[h] = running[h]
  BY <1>2, Disjoint, RunnerStops
<1>4. reqs[r] # <<>> /\ finishing # r
  BY <1>1, <1>2, <1>3 DEF Served, OneHand
<1>5. i \in 1 .. MaxRequests
  BY <1>1, <1>2, <1>4, FrontIsNext
<1>6. answers' \in [AsyncGens -> Seq(1 .. MaxRequests)]
  BY <1>1, <1>2, <1>5 DEF RequestType
<1>7. state' \in [Co -> {"fresh", "suspended", "completed"}]
  BY <1>1, <1>2, <1>3 DEF RequestType
<1>8. RequestType'
  BY <1>1, <1>2, <1>3, <1>6, <1>7 DEF RequestType
<1>9. Registered'
  BY <1>1, <1>2, Disjoint DEF Registered, RequestType
<1>10. ASSUME NEW h \in AsyncGens PROVE Served(h)'
  <2>1. CASE h = r
    <3>1. answers'[h] = Append(answers[h], Head(reqs[h]).id) /\ finishing' = h
      BY <1>1, <1>2, <2>1 DEF RequestType
    <3>2. running[h] /\ ~ running'[h]
      BY <1>3, <2>1
    <3> QED
      BY <1>1, <1>2, <3>1, <3>2, BodyAnswers
  <2>2. CASE h # r
    <3>1. answers'[h] = answers[h] /\ (finishing' = h <=> finishing = h)
      BY <1>1, <1>2, <2>2, Disjoint DEF RequestType
    <3>2. Untouched(h)
      BY <1>2, <1>3, <2>2, <3>1, Disjoint DEF Untouched, JobsOfOthers, WaitsOfOthers
    <3> QED
      BY <1>1, <3>2, LeftAlone DEF RequestType
  <2> QED
    BY <2>1, <2>2
<1> QED
  BY <1>8, <1>9, <1>10 DEF Rest

(* A promise settles. *)
LEMMA SettleKeeps ==
  ASSUME EngineInv, Rest, EngineInv', NEW w \in waiting, NEW ok \in BOOLEAN, Settle(w, ok)
  PROVE  Rest'
<1> DEFINE e == [w |-> w, ok |-> ok]
<1>1. RequestType /\ Registered /\ \A g \in AsyncGens : Served(g)
  BY DEF Rest
<1>2. /\ waiting' = waiting \ {w} /\ jobs' = Append(jobs, e) /\ running' = running /\ state' = state
      /\ asyncFrames' = asyncFrames /\ held' = held /\ reqs' = reqs /\ active' = active
      /\ finishing' = finishing /\ asked' = asked /\ answers' = answers /\ resumes' = resumes
  BY DEF Settle, engine
<1>3. e \in Queued
  BY <1>1 DEF Queued, RequestType
<1>4. jobs' \in Seq(Queued) /\ waiting' \subseteq Reaction
  BY <1>1, <1>2, <1>3 DEF RequestType
<1>5. RequestType'
  BY <1>1, <1>2, <1>4 DEF RequestType
<1>6. Registered'
  BY <1>1, <1>2 DEF Registered
<1>7. ASSUME NEW h \in AsyncGens PROVE Served(h)'
  <2>1. CASE w.g = h
    BY <1>1, <1>2, <2>1, WaitQueued
  <2>2. CASE w.g # h
    <3>1. e.w.g # h
      BY <2>2
    <3>2. WaitsOfOthers(h)
      BY <1>2, <2>2 DEF WaitsOfOthers
    <3>3. JobsOfOthers(h)
      BY <1>2, <1>3, <3>1 DEF JobsOfOthers
    <3>4. Untouched(h)
      BY <1>2, <3>2, <3>3 DEF Untouched
    <3> QED
      BY <1>1, <3>4, LeftAlone DEF RequestType
  <2> QED
    BY <2>1, <2>2
<1> QED
  BY <1>5, <1>6, <1>7 DEF Rest

(* A job is run. *)
LEMMA HeadIsReaction ==
  ASSUME RequestType, Turn
  PROVE  /\ jobs # <<>> /\ jobs' = Tail(jobs) /\ jobs' \in Seq(Queued) /\ finishing = None
         /\ Head(jobs).w \in Reaction /\ Head(jobs).w.g \in Co
         /\ Head(jobs).w.then # "step" => Head(jobs).w.g \in AsyncGens
<1>1. jobs # <<>> /\ jobs' = Tail(jobs) /\ jobs \in Seq(Queued) /\ finishing = None
  BY DEF Turn, Script, RequestType
<1>2. Head(jobs) \in Queued /\ jobs' \in Seq(Queued)
  BY <1>1
<1>3. Head(jobs).w \in Reaction
  BY <1>2 DEF Queued
<1> QED
  BY <1>1, <1>2, <1>3 DEF Reaction, Co

LEMMA JobResumeKeeps == ASSUME EngineInv, Rest, JobResume, EngineInv' PROVE Rest'
<1> DEFINE g == Head(jobs).w.g
<1>1. RequestType /\ Registered /\ \A h \in AsyncGens : Served(h)
  BY DEF Rest
<1>2. /\ Turn /\ Drive(g) /\ state' = state /\ asyncFrames' = asyncFrames /\ held' = held /\ reqs' = reqs
      /\ active' = active /\ finishing' = finishing /\ waiting' = waiting /\ asked' = asked /\ answers' = answers
  BY DEF JobResume
<1>3. jobs # <<>> /\ jobs' = Tail(jobs) /\ jobs' \in Seq(Queued) /\ g \in Co
  BY <1>1, <1>2, HeadIsReaction
<1>4. running'[g] /\ resumes' \in [Co -> Nat] /\ \A h \in Co : h # g => running'[h] = running[h]
  BY <1>1, <1>2, <1>3, DriveRuns
<1>5. RequestType'
  BY <1>1, <1>2, <1>3, <1>4 DEF RequestType
<1>6. Registered'
  BY <1>1, <1>2 DEF Registered
<1>7. ASSUME NEW h \in AsyncGens PROVE Served(h)'
  <2>1. CASE g = h
    <3>1. Head(jobs).w.g = h /\ running'[h]
      BY <2>1, <1>4
    <3> QED
      BY <1>1, <1>2, <1>3, <3>1, JobResumes
  <2>2. CASE g # h
    <3>1. Untouched(h)
      BY <1>2, <1>3, <1>4, <2>2, Disjoint DEF Untouched, JobsOfOthers, WaitsOfOthers
    <3> QED
      BY <1>1, <3>1, LeftAlone DEF RequestType
  <2> QED
    BY <2>1, <2>2
<1> QED
  BY <1>5, <1>6, <1>7 DEF Rest

LEMMA JobDeliverKeeps == ASSUME EngineInv, Rest, JobDeliver, EngineInv' PROVE Rest'
<1> DEFINE g == Head(jobs).w.g
           i == Head(jobs).w.id
<1>1. RequestType /\ Registered /\ \A h \in AsyncGens : Served(h)
  BY DEF Rest
<1>2. /\ Turn /\ Head(jobs).w.then # "step" /\ running' = running /\ resumes' = resumes
      /\ answers' = [answers EXCEPT ![g] = Append(@, i)] /\ finishing' = g
      /\ state' = state /\ asyncFrames' = asyncFrames /\ held' = held /\ reqs' = reqs
      /\ active' = active /\ waiting' = waiting /\ asked' = asked
  BY DEF JobDeliver, Answer, engine
<1>3. /\ jobs # <<>> /\ jobs' = Tail(jobs) /\ jobs' \in Seq(Queued) /\ g \in AsyncGens /\ finishing = None
  BY <1>1, <1>2, HeadIsReaction
<1>4. reqs[g] # <<>> /\ finishing # g /\ i = NextId(g)
  BY <1>1, <1>3, JobTaken
<1>5. i \in 1 .. MaxRequests
  BY <1>1, <1>3, <1>4, FrontIsNext
<1>6. answers' \in [AsyncGens -> Seq(1 .. MaxRequests)]
  BY <1>1, <1>2, <1>3, <1>5 DEF RequestType
<1>7. RequestType'
  BY <1>1, <1>2, <1>3, <1>6 DEF RequestType
<1>8. Registered'
  BY <1>1, <1>2 DEF Registered
<1>9. ASSUME NEW h \in AsyncGens PROVE Served(h)'
  <2>1. CASE g = h
    <3>1. /\ answers'[h] = Append(answers[h], Head(jobs).w.id) /\ finishing' = h
          /\ Head(jobs).w.g = h
      BY <1>1, <1>2, <1>3, <2>1 DEF RequestType
    <3> QED
      BY <1>1, <1>2, <1>3, <3>1, JobAnswers
  <2>2. CASE g # h
    <3>1. answers'[h] = answers[h] /\ (finishing' = h <=> finishing = h)
      BY <1>1, <1>2, <1>3, <2>2, Disjoint DEF RequestType
    <3>2. Untouched(h)
      BY <1>2, <1>3, <2>2, <3>1 DEF Untouched, JobsOfOthers, WaitsOfOthers
    <3> QED
      BY <1>1, <3>2, LeftAlone DEF RequestType
  <2> QED
    BY <2>1, <2>2
<1> QED
  BY <1>7, <1>8, <1>9 DEF Rest

(* Requests are taken up. *)
LEMMA DrainKeeps ==
  ASSUME EngineInv, Rest, EngineInv', NEW g \in AsyncGens, NEW q, Free(g, q), Drain(g, q),
         asked' \in [AsyncGens -> 0 .. MaxRequests], \A h \in AsyncGens : h # g => asked'[h] = asked[h],
         state' = state, held' = held, jobs' = jobs
  PROVE  Rest'
<1>1. RequestType /\ Registered /\ (\A h \in AsyncGens : Served(h)) /\ g \in Co /\ EngineType
  BY Disjoint DEF Rest, EngineInv
<1>2. /\ reqs' = [reqs EXCEPT ![g] = q] /\ active' = [active EXCEPT ![g] = TRUE]
      /\ asyncFrames' = asyncFrames \cup {g} /\ Serve(g, Head(q))
  BY DEF Drain
<1>3. q \in Seq(Req) /\ q # <<>> /\ ~ running[g] /\ finishing \in {None, g}
  BY DEF Free
<1>4. Head(q) \in Req
  BY <1>3
<1>5. Head(q).id \in 1 .. MaxRequests /\ Head(q).id \in Nat
  BY <1>4, CoroutineAssumption DEF Req
<1>6. /\ waiting' = waiting \/ waiting' = waiting \cup {[g |-> g, then |-> "return", id |-> Head(q).id]}
      /\ answers' = answers \/ answers' = [answers EXCEPT ![g] = Append(@, Head(q).id)]
      /\ finishing' \in {None, g}
      /\ Stay \/ Drive(g)
  BY <1>2 DEF Serve, Answer
<1>7. resumes' \in [Co -> Nat] /\ \A h \in AsyncGens : h # g => running'[h] = running[h]
  <2>1. CASE Stay
    BY <1>1, <2>1 DEF Stay, engine, RequestType
  <2>2. CASE Drive(g)
    BY <1>1, <2>2, DriveRuns, Disjoint
  <2> QED
    BY <1>6, <2>1, <2>2
<1>8. waiting' \subseteq Reaction
  <2>1. [g |-> g, then |-> "return", id |-> Head(q).id] \in Reaction
    BY <1>5 DEF Reaction
  <2> QED
    BY <1>1, <1>6, <2>1 DEF RequestType
<1>9. answers' \in [AsyncGens -> Seq(1 .. MaxRequests)] /\ \A h \in AsyncGens : h # g => answers'[h] = answers[h]
  <2>1. answers \in [AsyncGens -> Seq(1 .. MaxRequests)]
    BY <1>1 DEF RequestType
  <2>2. CASE answers' = answers
    BY <2>1, <2>2
  <2>3. CASE answers' = [answers EXCEPT ![g] = Append(@, Head(q).id)]
    <3>1. Append(answers[g], Head(q).id) \in Seq(1 .. MaxRequests)
      BY <1>5, <2>1
    <3> QED
      BY <2>1, <2>3, <3>1
  <2> QED
    BY <1>6, <2>2, <2>3
<1>10. /\ reqs' \in [AsyncGens -> Seq(Req)] /\ reqs'[g] = q
       /\ \A h \in AsyncGens : h # g => reqs'[h] = reqs[h]
  BY <1>1, <1>2, <1>3 DEF RequestType
<1>11. /\ active' \in [AsyncGens -> BOOLEAN] /\ active'[g] = TRUE
       /\ \A h \in AsyncGens : h # g => active'[h] = active[h]
  BY <1>1, <1>2 DEF RequestType
<1>12. RequestType'
  <2>1. asyncFrames' \subseteq Asyncs \cup AsyncGens /\ finishing' \in AsyncGens \cup {None}
    BY <1>1, <1>2, <1>6 DEF RequestType
  <2> QED
    BY <1>1, <1>7, <1>8, <1>9, <1>10, <1>11, <2>1 DEF RequestType
<1>13. Registered'
  <2>1. ASSUME NEW h \in AsyncGens PROVE (active'[h] <=> reqs'[h] # <<>>) /\ (reqs'[h] # <<>> => h \in asyncFrames')
    <3>1. CASE h = g
      BY <1>2, <1>3, <1>10, <1>11, <3>1
    <3>2. CASE h # g
      BY <1>1, <1>2, <1>10, <1>11, <3>2 DEF Registered
    <3> QED
      BY <3>1, <3>2
  <2>2. \A f \in Asyncs : state'[f] = "suspended" => f \in asyncFrames'
    BY <1>1, <1>2 DEF Registered
  <2> QED
    BY <2>1, <2>2 DEF Registered
<1>14. ASSUME NEW h \in AsyncGens PROVE Served(h)'
  <2>1. CASE h = g
    <3>1. Served(g)'
      BY <1>1, <1>2, <1>10, TakenUp
    <3> QED
      BY <2>1, <3>1
  <2>2. CASE h # g
    <3>1. finishing' = h <=> finishing = h
      BY <1>3, <1>6, <2>2, Disjoint
    <3>2. WaitsOfOthers(h)
      BY <1>6, <2>2 DEF WaitsOfOthers
    <3>3. Untouched(h)
      BY <1>7, <1>9, <1>10, <2>2, <3>1, <3>2 DEF Untouched, JobsOfOthers
    <3> QED
      BY <1>1, <3>3, LeftAlone DEF RequestType
  <2> QED
    BY <2>1, <2>2
<1> QED
  BY <1>12, <1>13, <1>14 DEF Rest

LEMMA RequestKeeps ==
  ASSUME EngineInv, Rest, EngineInv', NEW g \in AsyncGens, NEW k \in {"next", "return"}, Request(g, k)
  PROVE  Rest'
<1> DEFINE r == [id |-> asked[g] + 1, kind |-> k]
           q == Append(reqs[g], r)
<1>1. RequestType /\ Registered /\ (\A h \in AsyncGens : Served(h)) /\ g \in Co
  BY Disjoint DEF Rest
<1>2. /\ asked[g] < MaxRequests /\ asked' = [asked EXCEPT ![g] = @ + 1]
      /\ state' = state /\ held' = held /\ jobs' = jobs
  BY DEF Request
<1>3. /\ asked[g] \in Nat /\ asked' \in [AsyncGens -> 0 .. MaxRequests] /\ asked'[g] = asked[g] + 1
      /\ \A h \in AsyncGens : h # g => asked'[h] = asked[h]
  BY <1>1, <1>2, CoroutineAssumption DEF RequestType
<1>4. r \in Req /\ reqs[g] \in Seq(Req)
  <2>1. asked[g] + 1 \in 1 .. MaxRequests
    BY <1>2, <1>3, CoroutineAssumption
  <2> QED
    BY <1>1, <2>1 DEF Req, RequestType
<1>5. q \in Seq(Req) /\ q # <<>>
  BY <1>4, SMTT(30)
<1>6. CASE active[g]
  <2>1. /\ reqs' = [reqs EXCEPT ![g] = q] /\ active' = active /\ asyncFrames' = asyncFrames
        /\ finishing' = finishing /\ waiting' = waiting /\ answers' = answers /\ Stay
    BY <1>6 DEF Request
  <2>2. running' = running /\ resumes' = resumes
    BY <2>1 DEF Stay, engine
  <2>3. reqs[g] # <<>> /\ g \in asyncFrames
    BY <1>1, <1>6 DEF Registered
  <2>4. /\ reqs' \in [AsyncGens -> Seq(Req)] /\ reqs'[g] = q
        /\ \A h \in AsyncGens : h # g => reqs'[h] = reqs[h]
    BY <1>1, <1>5, <2>1 DEF RequestType
  <2>5. RequestType'
    BY <1>1, <1>2, <1>3, <2>1, <2>2, <2>4 DEF RequestType
  <2>6. Registered'
    <3>1. ASSUME NEW h \in AsyncGens PROVE (active'[h] <=> reqs'[h] # <<>>) /\ (reqs'[h] # <<>> => h \in asyncFrames')
      <4>1. CASE h = g
        BY <1>5, <1>6, <2>1, <2>3, <2>4, <4>1
      <4>2. CASE h # g
        BY <1>1, <2>1, <2>4, <4>2 DEF Registered
      <4> QED
        BY <4>1, <4>2
    <3>2. \A f \in Asyncs : state'[f] = "suspended" => f \in asyncFrames'
      BY <1>1, <1>2, <2>1 DEF Registered
    <3> QED
      BY <3>1, <3>2 DEF Registered
  <2>7. ASSUME NEW h \in AsyncGens PROVE Served(h)'
    <3>1. CASE h = g
      <4>1. reqs'[g] = Append(reqs[g], [id |-> asked[g] + 1, kind |-> k])
        BY <2>4
      <4>2. Served(g)'
        BY <1>1, <1>2, <1>3, <2>1, <2>2, <2>3, <4>1, RequestWaits
      <4> QED
        BY <3>1, <4>2
    <3>2. CASE h # g
      <4>1. Untouched(h)
        BY <1>2, <1>3, <2>1, <2>2, <2>4, <3>2 DEF Untouched, JobsOfOthers, WaitsOfOthers
      <4> QED
        BY <1>1, <4>1, LeftAlone DEF RequestType
    <3> QED
      BY <3>1, <3>2
  <2> QED
    BY <2>5, <2>6, <2>7 DEF Rest
<1>7. CASE ~ active[g]
  <2>1. Script /\ Drain(g, q)
    BY <1>7 DEF Request
  <2>2. reqs[g] = <<>> /\ finishing = None
    BY <1>1, <1>7, <2>1 DEF Registered, Script
  <2>3. /\ OneHand(g) /\ Numbered(g)
        /\ ~ Waits(g) /\ ~ Queues(g) /\ ~ running[g]
    BY <1>1, <2>2 DEF Served, OneHand
  <2>4. Len(answers[g]) = asked[g] /\ \A i \in 1 .. Len(answers[g]) : answers[g][i] = i
    <3>1. Gone(g) = Len(answers[g]) /\ Len(reqs[g]) = 0 /\ Len(answers[g]) \in Nat
      BY <1>1, <2>2, Disjoint DEF Gone, RequestType
    <3> QED
      BY <1>3, <2>3, <3>1 DEF Numbered
  <2>5. q = <<r>> /\ Len(q) = 1 /\ q[1].id = asked[g] + 1
    BY <2>2, <1>4
  <2>6. Free(g, q)
    <3>1. Len(q) = asked'[g] - Len(answers[g])
      BY <1>3, <2>4, <2>5
    <3>2. \A i \in 1 .. Len(q) : q[i].id = Len(answers[g]) + i
      BY <1>3, <2>4, <2>5
    <3> QED
      BY <1>5, <2>2, <2>3, <2>4, <3>1, <3>2 DEF Free
  <2> HIDE DEF q
  <2> QED
    BY <1>2, <1>3, <2>1, <2>6, DrainKeeps
<1> QED
  BY <1>6, <1>7

(* The front request has been answered; the next one is taken up, if any. *)
LEMMA FinishReqKeeps ==
  ASSUME EngineInv, Rest, EngineInv', NEW g \in AsyncGens, asyncGenFinishReq(g)
  PROVE  Rest'
<1> DEFINE q == Tail(reqs[g])
           n == Len(reqs[g])
           a == Len(answers[g])
<1>1. RequestType /\ Registered /\ (\A h \in AsyncGens : Served(h)) /\ g \in Co
  BY Disjoint DEF Rest
<1>2. finishing = g /\ state' = state /\ held' = held /\ jobs' = jobs /\ asked' = asked
  BY DEF asyncGenFinishReq
<1>3. OneHand(g) /\ Numbered(g)
  BY <1>1 DEF Served
<1>4. reqs[g] # <<>> /\ ~ Waits(g) /\ ~ Queues(g) /\ ~ running[g]
  BY <1>2, <1>3 DEF OneHand
<1>5. reqs[g] \in Seq(Req) /\ n \in Nat /\ n >= 1 /\ a \in Nat /\ asked[g] \in Nat
  BY <1>1, <1>4, CoroutineAssumption DEF RequestType
<1>6. q \in Seq(Req) /\ Len(q) = n - 1 /\ \A i \in 1 .. n - 1 : q[i] = reqs[g][i + 1]
  BY <1>4, <1>5
<1>7. Gone(g) = a - 1 /\ n = asked[g] - (a - 1) /\ \A i \in 1 .. n : reqs[g][i].id = (a - 1) + i
  BY <1>2, <1>3 DEF Gone, Numbered
<1>8. Len(q) = asked'[g] - a /\ \A i \in 1 .. Len(q) : q[i].id = a + i
  <2> HIDE DEF n, a, q
  <2>1. \A i \in 1 .. n - 1 : i + 1 \in 1 .. n /\ (a - 1) + (i + 1) = a + i
    BY <1>5
  <2>2. Len(q) = asked'[g] - a
    <3>1. asked'[g] = asked[g]
      BY <1>2
    <3> QED
      BY <1>5, <1>6, <1>7, <3>1
  <2> QED
    BY <1>6, <1>7, <2>1, <2>2
<1>9. \A i \in 1 .. a : answers[g][i] = i
  BY <1>3 DEF Numbered
<1>10. CASE q # <<>>
  <2>1. Drain(g, q)
    BY <1>10 DEF asyncGenFinishReq
  <2>2. Free(g, q)
    BY <1>2, <1>4, <1>6, <1>8, <1>9, <1>10 DEF Free
  <2>3. asked' \in [AsyncGens -> 0 .. MaxRequests]
    BY <1>1, <1>2 DEF RequestType
  <2> HIDE DEF q
  <2> QED
    BY <1>2, <2>1, <2>2, <2>3, DrainKeeps
<1>11. CASE q = <<>>
  <2>1. /\ reqs' = [reqs EXCEPT ![g] = <<>>] /\ active' = [active EXCEPT ![g] = FALSE]
        /\ asyncFrames' = asyncFrames \ {g} /\ finishing' = None /\ Stay
        /\ waiting' = waiting /\ answers' = answers
    BY <1>11 DEF asyncGenFinishReq
  <2>2. running' = running /\ resumes' = resumes
    BY <2>1 DEF Stay, engine
  <2>3. /\ reqs' \in [AsyncGens -> Seq(Req)] /\ reqs'[g] = <<>>
        /\ \A h \in AsyncGens : h # g => reqs'[h] = reqs[h]
    BY <1>1, <1>6, <1>11, <2>1 DEF RequestType
  <2>4. /\ active' \in [AsyncGens -> BOOLEAN] /\ active'[g] = FALSE
        /\ \A h \in AsyncGens : h # g => active'[h] = active[h]
    BY <1>1, <2>1 DEF RequestType
  <2>5. RequestType'
    BY <1>1, <1>2, <2>1, <2>2, <2>3, <2>4 DEF RequestType
  <2>6. Registered'
    BY <1>1, <1>2, <2>1, <2>3, <2>4, Disjoint DEF Registered
  <2>7. Served(g)'
    <3>1. ~ Waits(g)' /\ ~ Queues(g)' /\ ~ running'[g] /\ finishing' # g
      BY <1>2, <1>4, <2>1, <2>2, Disjoint DEF Waits, Queues
    <3>2. OneHand(g)' /\ WaitForFront(g)' /\ QueueForFront(g)'
      BY <2>3, <3>1 DEF OneHand, OneWaits, OneQueues, Waits, Queues, WaitForFront, QueueForFront
    <3>3. Gone(g)' = a
      BY <2>1, <3>1 DEF Gone
    <3>4. Numbered(g)'
      BY <1>2, <1>5, <1>8, <1>9, <1>11, <2>1, <2>3, <3>3 DEF Numbered
    <3> QED
      BY <3>2, <3>4 DEF Served
  <2>8. ASSUME NEW h \in AsyncGens, h # g PROVE Served(h)'
    <3>1. finishing' = h <=> finishing = h
      BY <1>2, <2>1, <2>8, Disjoint
    <3>2. Untouched(h)
      BY <1>2, <2>1, <2>2, <2>3, <2>8, <3>1 DEF Untouched, JobsOfOthers, WaitsOfOthers
    <3> QED
      BY <1>1, <3>2, LeftAlone DEF RequestType
  <2> QED
    BY <2>5, <2>6, <2>7, <2>8 DEF Rest
<1> QED
  BY <1>10, <1>11

LEMMA RequestStep == RequestInv /\ [Next]_vars => RequestInv'
<1> SUFFICES ASSUME RequestInv, [Next]_vars PROVE RequestInv'
  OBVIOUS
<1>1. EngineInv /\ Rest
  BY DEF RequestInv, Rest
<1>2. EngineInv'
  BY <1>1, EngineStep
<1>3. Rest'
  <2>1. ASSUME NEW g \in AsyncGens, Request(g, "next") \/ Request(g, "return") PROVE Rest'
    BY <1>1, <1>2, <2>1, RequestKeeps
  <2>2. CASE Next
    BY <1>1, <1>2, <2>1, <2>2, GenNextKeeps, runAsyncKeeps, FinishReqKeeps, YieldKeeps, FinishKeeps,
       AwaitKeeps, AsyncYieldKeeps, BodyAnswersKeeps, SettleKeeps, JobResumeKeeps, JobDeliverKeeps, DropKeeps
    DEF Next
  <2>3. CASE UNCHANGED vars
    BY <1>1, <1>2, <2>3, DropKeeps
  <2> QED
    BY <2>2, <2>3
<1> QED
  BY <1>2, <1>3 DEF RequestInv, Rest

(* The invariant of the requests holds in every behaviour. *)
THEOREM RequestInvariance == Spec => []RequestInv
BY RequestInit, RequestStep, PTL DEF Spec

-----------------------------------------------------------------------------
LEMMA TypesHold == RequestInv => TypeOK
<1> SUFFICES ASSUME RequestInv PROVE TypeOK
  OBVIOUS
<1>1. EngineInv /\ RequestType
  BY DEF RequestInv
<1>2. running \in [Co -> BOOLEAN] /\ saved \in [Co -> Co \cup {Main}]
  BY <1>1 DEF EngineInv, EngineType
<1>3. rtCtx \in Co \cup {Main} /\ curGen \in Co \cup {None}
  <2>1. CASE calls = <<>>
    BY <1>1, <2>1 DEF EngineInv, AtTop
  <2>2. CASE calls # <<>>
    <3>1. calls[Len(calls)] \in Frame
      <4>1. calls \in Seq(Frame) /\ Len(calls) \in 1 .. Len(calls)
        BY <1>1, <2>2 DEF EngineInv, EngineType
      <4> QED
        BY <4>1
    <3>2. calls[Len(calls)].g \in Co
      BY <3>1 DEF Frame
    <3> QED
      BY <1>1, <2>2, <3>2 DEF EngineInv, AtTop
  <2> QED
    BY <2>1, <2>2
<1> QED
  BY <1>1, <1>2, <1>3 DEF RequestType, TypeOK, Req

LEMMA AnswersHold == RequestInv => AnsweredInOrder
<1> SUFFICES ASSUME RequestInv, NEW g \in AsyncGens
             PROVE  LET n == Len(answers[g])
                        left == IF finishing = g THEN n - 1 ELSE n
                    IN  /\ answers[g] = [i \in 1 .. n |-> i]
                        /\ [i \in DOMAIN reqs[g] |-> reqs[g][i].id] = [i \in 1 .. asked[g] - left |-> left + i]
  BY DEF AnsweredInOrder
<1> DEFINE n == Len(answers[g])
           left == IF finishing = g THEN n - 1 ELSE n
<1>1. RequestType /\ Numbered(g)
  BY DEF RequestInv, Served
<1>2. answers[g] \in Seq(1 .. MaxRequests) /\ reqs[g] \in Seq(Req)
  BY <1>1 DEF RequestType
<1>3. answers[g] = [i \in 1 .. n |-> answers[g][i]] /\ \A i \in 1 .. n : answers[g][i] = i
  BY <1>1, <1>2 DEF Numbered
<1>4. answers[g] = [i \in 1 .. n |-> i]
  BY <1>3
<1>5. Gone(g) = left
  BY DEF Gone
<1>6. DOMAIN reqs[g] = 1 .. Len(reqs[g]) /\ Len(reqs[g]) = asked[g] - left
  BY <1>1, <1>2, <1>5 DEF Numbered
<1>7. \A i \in 1 .. asked[g] - left : reqs[g][i].id = left + i
  BY <1>1, <1>5, <1>6 DEF Numbered
<1>8. [i \in DOMAIN reqs[g] |-> reqs[g][i].id] = [i \in 1 .. asked[g] - left |-> left + i]
  <2> HIDE DEF left
  <2> QED
    BY <1>6, <1>7
<1> QED
  BY <1>4, <1>8

(* A set with at most one element, counted. *)
LEMMA AtMostOne ==
  ASSUME NEW S, \A x, y \in S : x = y
  PROVE  Cardinality(S) = IF S = {} THEN 0 ELSE 1
<1>1. CASE S = {}
  BY <1>1, FS_EmptySet
<1>2. CASE S # {}
  <2>1. PICK x : x \in S
    BY <1>2
  <2>2. S = {x}
    BY <2>1
  <2> QED
    BY <1>2, <2>2, FS_Singleton
<1> QED
  BY <1>1, <1>2

LEMMA OneStepHolds == RequestInv => OneStepAtATime
<1> SUFFICES ASSUME RequestInv, NEW g \in AsyncGens
             PROVE  Cardinality({w \in waiting : w.g = g}) + Cardinality({i \in DOMAIN jobs : jobs[i].w.g = g})
                    + (IF running[g] THEN 1 ELSE 0) + (IF finishing = g THEN 1 ELSE 0)
                    = (IF reqs[g] = <<>> THEN 0 ELSE 1)
  BY DEF OneStepAtATime
<1> DEFINE W == {w \in waiting : w.g = g}
           J == {i \in DOMAIN jobs : jobs[i].w.g = g}
<1>1. RequestType /\ OneHand(g)
  BY DEF RequestInv, Served
<1>2. DOMAIN jobs = 1 .. Len(jobs)
  BY <1>1 DEF RequestType
<1>3. Cardinality(W) = IF Waits(g) THEN 1 ELSE 0
  <2>1. \A x, y \in W : x = y
    BY <1>1 DEF OneHand, OneWaits
  <2>2. W = {} <=> ~ Waits(g)
    BY DEF Waits
  <2> HIDE DEF W
  <2> QED
    BY <2>1, <2>2, AtMostOne
<1>4. Cardinality(J) = IF Queues(g) THEN 1 ELSE 0
  <2>1. \A x, y \in J : x = y
    BY <1>1, <1>2 DEF OneHand, OneQueues
  <2>2. J = {} <=> ~ Queues(g)
    BY <1>2 DEF Queues
  <2> HIDE DEF J
  <2> QED
    BY <2>1, <2>2, AtMostOne
<1> HIDE DEF W, J
<1>5. Cardinality(W) + Cardinality(J) + (IF running[g] THEN 1 ELSE 0) + (IF finishing = g THEN 1 ELSE 0)
      = (IF reqs[g] = <<>> THEN 0 ELSE 1)
  BY <1>1, <1>3, <1>4 DEF OneHand
<1> QED
  BY <1>5 DEF W, J

(* For any number of async generators, requests and reactions: the requests *)
(* of a generator are served one at a time and answered once each, in the   *)
(* order they were made, by the step that served them, however the          *)
(* settlement of promises, the jobs and new requests interleave             *)
(* (builtin_asynciterator.go asyncGenDrain, asyncGenStep,                   *)
(* asyncGenFinishReq).                                                      *)
THEOREM RequestsAreInOrder == Spec => []RequestsInOrder
<1>1. RequestInv => RequestsInOrder
  BY TypesHold, AnswersHold, OneStepHolds DEF RequestsInOrder
<1> QED
  BY <1>1, RequestInvariance, PTL

(* The collector finds the frames of everyone who will run again: whoever   *)
(* waits for a coroutine it drove, and every suspended body that the script *)
(* or a reaction can resume (collect.go markRoots; generator.go runAsync,   *)
(* asyncGenDrain).                                                          *)
THEOREM FramesAreFound == Spec => []FramesFound
<1>1. RequestInv => \A g \in Co : Resumable(g) => g \in held \cup asyncFrames
  <2> SUFFICES ASSUME RequestInv, NEW g \in Co, Resumable(g), g \notin held PROVE g \in asyncFrames
    OBVIOUS
  <2>1. RequestType /\ Registered /\ \A h \in AsyncGens : Served(h)
    BY DEF RequestInv
  <2>2. state[g] = "suspended" /\ (Waits(g) \/ Queues(g))
    <3>1. DOMAIN jobs = 1 .. Len(jobs)
      BY <2>1 DEF RequestType
    <3> QED
      BY <3>1 DEF Resumable, Awaited, Waits, Queues
  <2>3. g \in Asyncs \cup AsyncGens
    <3>1. \A w \in waiting : w.g \in Asyncs \cup AsyncGens
      BY <2>1 DEF RequestType, Reaction
    <3>2. ASSUME NEW i \in 1 .. Len(jobs) PROVE jobs[i].w.g \in Asyncs \cup AsyncGens
      <4>1. jobs[i] \in Queued
        BY <2>1 DEF RequestType
      <4>2. jobs[i].w \in Reaction
        BY <4>1 DEF Queued
      <4> QED
        BY <4>2 DEF Reaction
    <3> QED
      BY <2>2, <3>1, <3>2 DEF Waits, Queues
  <2>4. CASE g \in Asyncs
    BY <2>1, <2>2, <2>4 DEF Registered
  <2>5. CASE g \in AsyncGens
    <3>1. reqs[g] # <<>>
      BY <2>1, <2>2, <2>5 DEF Served, OneHand
    <3> QED
      BY <2>1, <2>5, <3>1 DEF Registered
  <2> QED
    BY <2>3, <2>4, <2>5
<1>2. RequestInv => \A g \in AsyncGens : reqs[g] # <<>> => g \in asyncFrames
  BY DEF RequestInv, Registered
<1>3. RequestInv /\ ChainFound => FramesFound
  BY <1>1, <1>2 DEF FramesFound
<1> QED
  BY <1>3, RequestInvariance, ChainIsFound, PTL
=============================================================================
