--------------------------- MODULE HostLoopProofs ---------------------------
(***************************************************************************)
(* HostLoop for any number of host operations, timers and drives of the    *)
(* loop: the operations are accounted for exactly (OpsAreExact), the loop  *)
(* never sleeps through a signal (NoLostWakeup), and RunLoop answers nil   *)
(* only when nothing is left to wait for (NothingLeftBehind).              *)
(*                                                                         *)
(* None of them is inductive.  LoopInv adds what the code relies on        *)
(* without saying it: where a job is before it runs, what the loop has     *)
(* looked at since it last took a value from the wake channel, and what    *)
(* cannot change between two looks because only a script changes it.       *)
(***************************************************************************)
EXTENDS HostLoop, SequenceTheorems, FiniteSetTheorems, FunctionTheorems, TLAPS

Settled == {"run", "fulfilled", "rejected"}
InBatch == pc = "batch" \/ (pc = "js" /\ ret = "batch")

(* Where the loop is, and what that says of its registers. *)
Control ==
  /\ pc = "js" => ret \in {"host", "batch", "fired", "vtop"}
  /\ pc = "host" \/ (pc = "js" /\ ret = "host") => call = "none" /\ fires = 0
  /\ InBatch => site \in {"take", "fired", "vtop", "vlast"}
  /\ ~InBatch => batch = <<>>
  /\ pc \in {"vpick", "vlast"} \/ (InBatch /\ site \in {"vtop", "vlast"}) => fires < MaxMacrotasks
  /\ realTimers => /\ pc \notin {"vtop", "vpick", "vlast"}
                   /\ pc = "js" => ret # "vtop"
                   /\ InBatch => site \notin {"vtop", "vlast"}

(* A job is in the queue or in the batch, once, from the moment Post accepts *)
(* it until it runs.                                                         *)
Queued ==
  /\ \A i \in DOMAIN batch : answer[batch[i]] = "nil" /\ got[batch[i]] = "pending"
  /\ \A i \in DOMAIN jobs : answer[jobs[i]] = "nil" /\ got[jobs[i]] = "pending"
  /\ \A i, j \in DOMAIN batch : batch[i] = batch[j] => i = j
  /\ \A i, j \in DOMAIN jobs : jobs[i] = jobs[j] => i = j
  /\ \A i \in DOMAIN batch, j \in DOMAIN jobs : batch[i] # jobs[j]
  /\ closed => jobs = <<>>

(* How far an operation is. *)
Stages ==
  \A o \in Ops :
    /\ kind[o] = "none" <=> at[o] = "idle"
    /\ at[o] = "idle" => answer[o] = "none" /\ got[o] = "none"
    /\ at[o] = "going" => answer[o] = "none" /\ got[o] = "pending"
    /\ at[o] # "idle" => got[o] # "none"
    /\ at[o] \in {"unref", "resignal"} => kind[o] = "raw"
    /\ at[o] \notin {"idle", "going"} /\ ~closed => answer[o] = "nil"
    /\ answer[o] = "nil" /\ ~closed /\ ~exit
       => \/ got[o] \in Settled
          \/ \E i \in DOMAIN batch : batch[i] = o
          \/ \E i \in DOMAIN jobs : jobs[i] = o

Owes(o) == \/ kind[o] = "promise" /\ got[o] = "pending"
           \/ kind[o] = "raw" /\ at[o] \in {"going", "signal", "unref"}
Owing == {o \in Ops : Owes(o)}

(* A ref dropped on a closed Runtime is lost: the count may only be high. *)
Refs == /\ Cardinality(Owing) <= refs /\ refs <= Cardinality(Ops)
        /\ ~closed => refs = Cardinality(Owing)

Signalled == wake \/ SignalComing

(* The loop has taken the queue since it last took a value from the channel. *)
HasTaken ==
  \/ pc \in {"batch", "checked", "fire", "fired", "idle", "idleJobs", "sleep", "vpick", "vlast",
             "pend", "pendJobs", "wait"}
  \/ pc = "js" /\ ret # "host"
  \/ pc = "vtop" /\ fires # 0
  \/ pc = "left" /\ ~Stopped /\ ~Cancelled

(* It has looked at the interrupt flag since then. *)
HasLooked ==
  \/ pc \in {"take", "checked", "fire", "fired", "idle", "idleJobs", "sleep", "pend", "pendJobs", "wait"}
  \/ InBatch /\ site \in {"take", "fired"}
  \/ pc = "js" /\ ret = "fired"

Wakeups == /\ HasTaken /\ ~Signalled => jobs = <<>>
           /\ HasLooked /\ ~Signalled => ~flag

(* What the first look of HostPending and of waitForWork saw still holds at  *)
(* the second.                                                               *)
Looks ==
  /\ pc \in {"idleJobs", "pendJobs"} => refs = 0
  /\ realTimers /\ pc \in {"idleJobs", "pend", "pendJobs"} => ~KeepAlive
  /\ realTimers /\ pc = "left" => ~KeepAlive \/ Stopped \/ Cancelled
  /\ pc = "done" => Stopped \/ Cancelled

LoopInv == TypeOK /\ Control /\ Queued /\ Stages /\ Refs /\ Wakeups /\ Looks /\ NoLostWakeup

-----------------------------------------------------------------------------
(* The steps that leave the operations, their jobs and the refs alone. *)
Elsewhere ==
  \/ \E d \in Delays, p \in Periods : SetTimer(d, p)
  \/ \E i \in 1..MaxTimers : ClearTimer(i) \/ UnrefTimer(i)
  \/ HostRunsScript \/ ClearInterrupt \/ (\E c \in Calls : HostDrives(c))
  \/ JsEnds
  \/ Top \/ Checked \/ FireEnds \/ Idle \/ IdleJobs
  \/ Wake("sleep", "top") \/ Wake("wait", IF realTimers THEN "top" ELSE "vtop")
  \/ \E i \in 1..MaxTimers : FireDue(i) \/ VFire(i)
  \/ VEnds \/ VIdle
  \/ JobsReturn \/ Left \/ Pend \/ PendJobs \/ Done
  \/ Outside \/ Tick \/ Interrupt \/ Cancel

(* The steps that do not. *)
Moves ==
  \/ \E o \in Ops, k \in Kinds : Start(o, k)
  \/ \E o \in Ops : PostResult(o) \/ PostSignal(o) \/ HostUnref(o) \/ UnrefSignal(o)
  \/ \E o \in Ops, s \in Settlements : Settle(o, s)
  \/ \E here \in {"take", "fired", "vlast"} : TakeJobs(here)
  \/ VTop \/ RunJob \/ BatchEnds \/ Exit \/ Close

LEMMA NextCases == Next => (Elsewhere \/ Moves) /\ UNCHANGED realTimers
<1>1. Script => Elsewhere \/ Moves
  BY DEF Script, Elsewhere, Moves
<1>2. Host => Elsewhere
  BY DEF Host, Elsewhere
<1>3. Loop => Elsewhere \/ Moves
  BY DEF Loop, Elsewhere, Moves
<1>4. ASSUME NEW o \in Ops
      PROVE  Operation(o) \/ ("loose" \in Kinds /\ Start(o, "loose")) => Moves
  BY DEF Operation, Moves
<1> QED
  BY <1>1, <1>2, <1>3, <1>4 DEF Next, Elsewhere, Moves

(* Such a step changes nothing of an operation. *)
LEMMA ElsewhereFrame == Elsewhere => UNCHANGED <<jobs, batch, closed, exit, refs, opVars>>
<1> USE DEF Quiet, SameLoop, opVars, loopVars
<1>1. ASSUME NEW d, NEW p, SetTimer(d, p)
      PROVE  UNCHANGED <<jobs, batch, closed, exit, refs, opVars>>
  BY <1>1 DEF SetTimer
<1>2. ASSUME NEW i, ClearTimer(i) \/ UnrefTimer(i) \/ FireDue(i) \/ VFire(i)
      PROVE  UNCHANGED <<jobs, batch, closed, exit, refs, opVars>>
  BY <1>2 DEF ClearTimer, UnrefTimer, FireDue, VFire
<1>3. ASSUME HostRunsScript \/ ClearInterrupt \/ (\E c \in Calls : HostDrives(c)) \/ JsEnds
      PROVE  UNCHANGED <<jobs, batch, closed, exit, refs, opVars>>
  BY <1>3 DEF HostRunsScript, ClearInterrupt, HostDrives, JsEnds
<1>4. ASSUME NEW here, NEW there, Step(here, there) \/ Wake(here, there)
      PROVE  UNCHANGED <<jobs, batch, closed, exit, refs, opVars>>
  BY <1>4 DEF Step, Wake
<1>5. ASSUME Top \/ Checked \/ Idle \/ IdleJobs \/ VEnds \/ VIdle \/ Left \/ Pend
      PROVE  UNCHANGED <<jobs, batch, closed, exit, refs, opVars>>
  BY <1>4, <1>5 DEF Top, Checked, Idle, IdleJobs, VEnds, VIdle, Left, Pend
<1>6. ASSUME FireEnds \/ JobsReturn \/ Done
      PROVE  UNCHANGED <<jobs, batch, closed, exit, refs, opVars>>
  BY <1>6 DEF FireEnds, JobsReturn, Done, Return
<1>7. ASSUME PendJobs
      PROVE  UNCHANGED <<jobs, batch, closed, exit, refs, opVars>>
  BY <1>7, <1>4 DEF PendJobs, Return
<1>8. ASSUME Outside \/ Tick \/ Interrupt \/ Cancel
      PROVE  UNCHANGED <<jobs, batch, closed, exit, refs, opVars>>
  BY <1>8 DEF Outside, OutsideSignal, Tick, Interrupt, Cancel
<1> QED
  BY <1>1, <1>2, <1>3, <1>4, <1>5, <1>6, <1>7, <1>8 DEF Elsewhere

(* Sets of operations are finite, and one operation more or less counts.     *)
LEMMA Counting ==
  ASSUME NEW S \in SUBSET Ops
  PROVE  /\ Cardinality(S) \in Nat /\ Cardinality(Ops) \in Nat
         /\ Cardinality(S) <= Cardinality(Ops)
         /\ \A o \in S : Cardinality(S \ {o}) = Cardinality(S) - 1
         /\ \A o \in Ops \ S : Cardinality(S \cup {o}) = Cardinality(S) + 1
<1>1. IsFiniteSet(Ops)
  BY BoundsAssumption
<1>2. IsFiniteSet(S) /\ Cardinality(S) <= Cardinality(Ops)
  BY <1>1, FS_Subset
<1> QED
  BY <1>1, <1>2, FS_CardinalityType, FS_AddElement, FS_RemoveElement

(* The job at the head of the batch, and the batch without it. *)
LEMMA HeadOfBatch ==
  ASSUME TypeOK, Queued, batch # <<>>
  PROVE  /\ Head(batch) \in Ops /\ Head(batch) = batch[1]
         /\ answer[Head(batch)] = "nil" /\ got[Head(batch)] = "pending"
         /\ Tail(batch) \in Seq(Ops) /\ DOMAIN Tail(batch) = 1..(Len(batch) - 1)
         /\ \A i \in 1..(Len(batch) - 1) : Tail(batch)[i] = batch[i + 1] /\ i + 1 \in DOMAIN batch
         /\ DOMAIN batch = 1..Len(batch) /\ 1 \in DOMAIN batch /\ Len(batch) \in Nat
<1>1. batch \in Seq(Ops)
  BY DEF TypeOK
<1>2. /\ Head(batch) \in Ops /\ Head(batch) = batch[1]
      /\ Tail(batch) \in Seq(Ops) /\ DOMAIN Tail(batch) = 1..(Len(batch) - 1)
      /\ \A i \in 1..(Len(batch) - 1) : Tail(batch)[i] = batch[i + 1] /\ i + 1 \in DOMAIN batch
      /\ DOMAIN batch = 1..Len(batch) /\ 1 \in DOMAIN batch /\ Len(batch) \in Nat
  BY <1>1
<1> QED
  BY <1>2 DEF Queued

(* The refs stay balanced. *)
LEMMA RefsStep == ASSUME LoopInv, Next PROVE Refs'
<1> USE DEF LoopInv
<1>0. Owing \in SUBSET Ops /\ refs \in Nat
  BY Counting DEF TypeOK, Owing
<1>2. CASE Elsewhere
  BY <1>2, ElsewhereFrame DEF Refs, Owing, Owes, opVars
<1>3. ASSUME NEW o \in Ops, NEW k \in Kinds, Start(o, k)
      PROVE  Refs'
  <2>1. CASE k = "loose"
    <3>1. Owing' = Owing
      BY <1>3, <2>1 DEF Start, Owing, Owes, TypeOK, Stages
    <3> QED
      BY <1>3, <2>1, <3>1 DEF Start, Refs, Quiet
  <2>2. CASE k # "loose"
    <3>1. Owing' = Owing \cup {o} /\ o \notin Owing
      BY <1>3, <2>2, BoundsAssumption DEF Start, Owing, Owes, TypeOK, Stages
    <3>2. Cardinality(Owing') = Cardinality(Owing) + 1 /\ Cardinality(Owing') <= Cardinality(Ops)
          /\ Cardinality(Owing') \in Nat
      BY <1>0, <3>1, Counting
    <3>3. refs' = refs + 1 /\ ~closed /\ ~closed'
      BY <1>3, <2>2 DEF Start, Quiet
    <3> QED
      BY <3>2, <3>3 DEF Refs
  <2> QED
    BY <2>1, <2>2
<1>4. ASSUME NEW o \in Ops, PostResult(o) \/ (\E s \in Settlements : Settle(o, s))
      PROVE  Refs'
  <2>1. Owing' = Owing
    BY <1>4 DEF PostResult, Settle, Post, Owing, Owes, TypeOK
  <2> QED
    BY <1>4, <2>1 DEF PostResult, Settle, Refs, Keep
<1>5. ASSUME NEW o \in Ops, PostSignal(o)
      PROVE  Refs'
  <2>1. Owing' = Owing
    BY <1>5 DEF PostSignal, Owing, Owes, TypeOK
  <2> QED
    BY <1>5, <2>1 DEF PostSignal, Refs, Keep
<1>6. ASSUME NEW o \in Ops, UnrefSignal(o)
      PROVE  Refs'
  <2>1. Owing' = Owing
    BY <1>6 DEF UnrefSignal, Owing, Owes, TypeOK
  <2> QED
    BY <1>6, <2>1 DEF UnrefSignal, Refs, Keep
<1>7. ASSUME NEW o \in Ops, HostUnref(o)
      PROVE  Refs'
  <2>1. o \in Owing /\ Owing' = Owing \ {o}
    BY <1>7 DEF HostUnref, Owing, Owes, TypeOK, Stages
  <2>2. Cardinality(Owing') = Cardinality(Owing) - 1 /\ Cardinality(Owing) \in Nat
    BY <1>0, <2>1, Counting
  <2>3. refs' = (IF closed THEN refs ELSE refs - 1) /\ closed' = closed
    BY <1>7 DEF HostUnref, Keep
  <2>4. Cardinality(Ops) \in Nat
    BY Counting, <1>0
  <2> QED
    BY <1>0, <2>2, <2>3, <2>4 DEF Refs
<1>8. CASE (\E here \in {"take", "fired", "vlast"} : TakeJobs(here)) \/ VTop
  BY <1>8 DEF TakeJobs, VTop, Refs, Owing, Owes, opVars
<1>9. CASE RunJob
  <2> DEFINE o == Head(batch)
  <2>1. o \in Ops /\ got[o] = "pending"
    BY <1>9, HeadOfBatch DEF RunJob
  <2>2. closed' = closed /\ refs' = IF kind[o] = "promise" THEN refs - 1 ELSE refs
    BY <1>9 DEF RunJob, Deliver
  <2>3. got' = [got EXCEPT ![o] = Outcome(o)] /\ Outcome(o) # "pending"
        /\ UNCHANGED <<kind, at>>
    BY <1>9 DEF RunJob, Deliver, Outcome
  <2> HIDE DEF o
  <2>4. CASE kind[o] = "promise"
    <3>1. o \in Owing /\ Owing' = Owing \ {o}
      BY <2>1, <2>3, <2>4 DEF Owing, Owes, TypeOK
    <3>2. Cardinality(Owing') = Cardinality(Owing) - 1 /\ Cardinality(Owing) \in Nat
          /\ Cardinality(Ops) \in Nat
      BY <1>0, <3>1, Counting
    <3> QED
      BY <1>0, <2>2, <2>4, <3>2 DEF Refs
  <2>5. CASE kind[o] # "promise"
    <3>1. Owing' = Owing
      BY <2>1, <2>3, <2>5 DEF Owing, Owes, TypeOK
    <3> QED
      BY <2>2, <2>5, <3>1 DEF Refs
  <2> QED
    BY <2>4, <2>5
<1>10. CASE BatchEnds
  BY <1>10 DEF BatchEnds, Refs, Owing, Owes, opVars, Quiet
<1>11. CASE Exit
  BY <1>11 DEF Exit, Refs, Owing, Owes, opVars, Quiet
<1>12. CASE Close
  BY <1>12 DEF Close, Refs, Owing, Owes, opVars
<1> QED
  BY <1>2, <1>3, <1>4, <1>5, <1>6, <1>7, <1>8, <1>9, <1>10, <1>11, <1>12, NextCases DEF Moves

(* Post adds an operation that is nowhere yet to the end of the queue. *)
LEMMA PostAppends ==
  ASSUME LoopInv, NEW o \in Ops, at[o] = "going", Post(o), ~closed
  PROVE  /\ jobs' = Append(jobs, o) /\ jobs \in Seq(Ops) /\ Len(jobs) \in Nat
         /\ DOMAIN jobs = 1..Len(jobs) /\ DOMAIN jobs' = 1..(Len(jobs) + 1)
         /\ jobs'[Len(jobs) + 1] = o /\ \A i \in 1..Len(jobs) : jobs'[i] = jobs[i]
         /\ \A i \in DOMAIN jobs : jobs[i] # o
         /\ \A i \in DOMAIN batch : batch[i] # o
<1>1. jobs \in Seq(Ops) /\ jobs' = Append(jobs, o)
  BY DEF LoopInv, TypeOK, Post
<1>2. answer[o] = "none"
  BY DEF LoopInv, Stages
<1> QED
  BY <1>1, <1>2 DEF LoopInv, Queued

(* No job is queued twice, and none that has run is queued. *)
LEMMA QueuedStep == ASSUME LoopInv, Next PROVE Queued'
<1> USE DEF LoopInv
<1>1. CASE Elsewhere
  BY <1>1, ElsewhereFrame DEF Queued, opVars
<1>2. ASSUME NEW o \in Ops, NEW k \in Kinds, Start(o, k)
      PROVE  Queued'
  <2>1. got[o] = "none" /\ UNCHANGED <<jobs, batch, closed, answer>>
        /\ got' = [got EXCEPT ![o] = "pending"]
    BY <1>2 DEF Start, Stages, Quiet, loopVars
  <2> QED
    BY <2>1 DEF Queued, TypeOK
<1>3. ASSUME NEW o \in Ops, PostResult(o) \/ (\E s \in Settlements : Settle(o, s))
      PROVE  Queued'
  <2>1. Post(o) /\ at[o] = "going" /\ UNCHANGED <<batch, closed, got>>
    BY <1>3 DEF PostResult, Settle, Keep, loopVars
  <2>2. answer[o] = "none" /\ got[o] = "pending"
    BY <2>1 DEF Stages, TypeOK, Post
  <2>3. CASE closed
    BY <2>1, <2>2, <2>3 DEF Post, Queued, TypeOK
  <2>4. CASE ~closed
    <3>1. answer' = [answer EXCEPT ![o] = "nil"]
      BY <2>1, <2>4 DEF Post
    <3>2. \A i \in DOMAIN batch : batch[i] \in Ops /\ batch[i] # o
      BY <2>1, <2>4, PostAppends DEF TypeOK
    <3>5. \A i \in DOMAIN jobs' : jobs'[i] = o \/ (i \in DOMAIN jobs /\ jobs'[i] = jobs[i])
      BY <2>1, <2>4, PostAppends
    <3>6. \A i \in DOMAIN jobs' : jobs'[i] \in Ops
      BY <3>5 DEF TypeOK
    <3>3. \A i, j \in DOMAIN jobs' : jobs'[i] = jobs'[j] => i = j
      BY <2>1, <2>4, PostAppends DEF Queued
    <3>4. answer'[o] = "nil" /\ \A q \in Ops : q # o => answer'[q] = answer[q]
      BY <3>1 DEF TypeOK
    <3> QED
      BY <2>1, <2>2, <2>4, <3>2, <3>3, <3>4, <3>5, <3>6 DEF Queued
  <2> QED
    BY <2>3, <2>4
<1>4. ASSUME NEW o \in Ops, PostSignal(o) \/ HostUnref(o) \/ UnrefSignal(o)
      PROVE  Queued'
  BY <1>4 DEF PostSignal, HostUnref, UnrefSignal, Keep, loopVars, Queued
<1>5. ASSUME NEW here, TakeJobs(here), ~InBatch
      PROVE  Queued'
  <2>1. batch = <<>> /\ batch' = jobs /\ jobs' = <<>> /\ UNCHANGED <<answer, got, closed>>
    BY <1>5 DEF TakeJobs, Control, opVars
  <2> QED
    BY <2>1 DEF Queued
<1>6. CASE RunJob
  <2> DEFINE o == Head(batch)
  <2>1. batch # <<>> /\ batch' = Tail(batch) /\ UNCHANGED <<jobs, answer, closed>>
        /\ got' = [got EXCEPT ![o] = Outcome(o)]
    BY <1>6 DEF RunJob, Deliver
  <2>2. \A i \in DOMAIN Tail(batch) : Tail(batch)[i] # o
    BY <2>1, HeadOfBatch DEF Queued
  <2>3. \A i \in DOMAIN jobs : jobs[i] # o
    BY <2>1, HeadOfBatch DEF Queued
  <2>4. \A i \in DOMAIN Tail(batch) : answer[Tail(batch)[i]] = "nil" /\ got[Tail(batch)[i]] = "pending"
    BY <2>1, HeadOfBatch DEF Queued
  <2>5. \A i, j \in DOMAIN Tail(batch) : Tail(batch)[i] = Tail(batch)[j] => i = j
    BY <2>1, HeadOfBatch DEF Queued
  <2>6. \A i \in DOMAIN Tail(batch), j \in DOMAIN jobs : Tail(batch)[i] # jobs[j]
    BY <2>1, HeadOfBatch DEF Queued
  <2>7. o \in Ops /\ \A i \in DOMAIN Tail(batch) : Tail(batch)[i] \in Ops
    BY <2>1, HeadOfBatch DEF TypeOK
  <2>8. \A i \in DOMAIN jobs : jobs[i] \in Ops
    BY DEF TypeOK
  <2> HIDE DEF o
  <2> QED
    BY <2>1, <2>2, <2>3, <2>4, <2>5, <2>6, <2>7, <2>8 DEF Queued, TypeOK
<1>7. CASE BatchEnds
  BY <1>7 DEF BatchEnds, Quiet, opVars, Queued
<1>8. CASE Exit
  BY <1>8 DEF Exit, Quiet, SameLoop, opVars, Queued
<1>9. CASE Close
  BY <1>9 DEF Close, loopVars, opVars, Queued
<1>10. CASE \E here \in {"take", "fired", "vlast"} : TakeJobs(here)
  BY <1>5, <1>10 DEF TakeJobs, InBatch
<1>11. CASE VTop
  BY <1>5, <1>11 DEF TakeJobs, VTop, InBatch
<1> QED
  BY <1>1, <1>2, <1>3, <1>4, <1>6, <1>7, <1>8, <1>9, <1>10, <1>11, NextCases DEF Moves

(* Every operation is at a stage that says what has become of its job. *)
LEMMA StagesStep == ASSUME LoopInv, Next PROVE Stages'
<1> USE DEF LoopInv
<1>1. CASE Elsewhere
  BY <1>1, ElsewhereFrame DEF Stages, opVars
<1>2. ASSUME NEW o \in Ops, NEW k \in Kinds, Start(o, k)
      PROVE  Stages'
  <2>1. /\ at[o] = "idle" /\ k # "none"
        /\ UNCHANGED <<jobs, batch, closed, exit, answer>>
        /\ kind' = [kind EXCEPT ![o] = k]
        /\ at' = [at EXCEPT ![o] = "going"] /\ got' = [got EXCEPT ![o] = "pending"]
    BY <1>2, BoundsAssumption DEF Start, Stages, Quiet, loopVars
  <2> QED
    BY <2>1 DEF Stages, TypeOK
<1>3. ASSUME NEW o \in Ops, PostResult(o) \/ (\E s \in Settlements : Settle(o, s))
      PROVE  Stages'
  <2>1. Post(o) /\ at[o] = "going" /\ UNCHANGED <<batch, closed, exit, kind, got>>
    BY <1>3 DEF PostResult, Settle, Keep, loopVars
  <2>2. CASE closed
    BY <2>1, <2>2 DEF Post, Stages, TypeOK
  <2>3. CASE ~closed
    <3>1. /\ answer' = [answer EXCEPT ![o] = "nil"] /\ at' = [at EXCEPT ![o] = "signal"]
      BY <2>1, <2>3 DEF Post
    <3>2. \E i \in DOMAIN jobs' : jobs'[i] = o
      BY <2>1, <2>3, PostAppends
    <3>3. \A p \in Ops : (\E i \in DOMAIN jobs : jobs[i] = p) => \E i \in DOMAIN jobs' : jobs'[i] = p
      BY <2>1, <2>3, PostAppends
    <3> SUFFICES ASSUME NEW p \in Ops PROVE Stages!(p)'
      BY DEF Stages
    <3>4. CASE p = o
      BY <2>1, <2>3, <3>1, <3>2, <3>4 DEF Stages, TypeOK
    <3>5. CASE p # o
      BY <2>1, <2>3, <3>1, <3>3, <3>5 DEF Stages, TypeOK
    <3> QED
      BY <3>4, <3>5
  <2> QED
    BY <2>2, <2>3
<1>4. ASSUME NEW o \in Ops, PostSignal(o) \/ HostUnref(o) \/ UnrefSignal(o)
      PROVE  Stages'
  <2>1. UNCHANGED <<jobs, batch, closed, exit, kind, answer, got>>
    BY <1>4 DEF PostSignal, HostUnref, UnrefSignal, Keep, loopVars
  <2>2. /\ at[o] \notin {"idle", "going"}
        /\ \/ at' = [at EXCEPT ![o] = "done"]
           \/ kind[o] = "raw" /\ at' = [at EXCEPT ![o] = "unref"]
           \/ kind[o] = "raw" /\ at' = [at EXCEPT ![o] = "resignal"]
    BY <1>4 DEF PostSignal, HostUnref, UnrefSignal, Stages
  <2> QED
    BY <2>1, <2>2, SMTT(30) DEF Stages, TypeOK
<1>5. ASSUME NEW here, TakeJobs(here), ~InBatch
      PROVE  Stages'
  <2>1. batch = <<>> /\ batch' = jobs /\ UNCHANGED <<opVars, closed, exit>>
    BY <1>5 DEF TakeJobs, Control
  <2> QED
    BY <2>1 DEF Stages, opVars
<1>6. CASE RunJob
  <2> DEFINE o == Head(batch)
  <2>1. batch # <<>> /\ batch' = Tail(batch) /\ UNCHANGED <<jobs, answer, closed, exit, kind, at>>
        /\ got' = [got EXCEPT ![o] = Outcome(o)] /\ Outcome(o) \in Settled
    BY <1>6 DEF RunJob, Deliver, Outcome, Settled
  <2>2. \A p \in Ops : (\E i \in DOMAIN batch : batch[i] = p)
                       => p = o \/ \E i \in DOMAIN Tail(batch) : Tail(batch)[i] = p
    <3> SUFFICES ASSUME NEW i \in DOMAIN batch, batch[i] # o
                 PROVE  \E j \in DOMAIN Tail(batch) : Tail(batch)[j] = batch[i]
      OBVIOUS
    <3>1. i \in 2..Len(batch) /\ i - 1 \in DOMAIN Tail(batch)
      BY <2>1, HeadOfBatch
    <3>2. Tail(batch)[i - 1] = batch[i]
      BY <2>1, <3>1, HeadOfBatch
    <3> QED
      BY <3>1, <3>2
  <2>3. o \in Ops /\ answer[o] = "nil" /\ at[o] # "idle"
    BY <2>1, HeadOfBatch DEF Stages
  <2> HIDE DEF o
  <2> QED
    BY <2>1, <2>2, <2>3, SMTT(30) DEF Stages, TypeOK, Settled
<1>7. CASE BatchEnds
  BY <1>7 DEF BatchEnds, Quiet, opVars, Stages
<1>8. CASE Exit
  BY <1>8 DEF Exit, Quiet, SameLoop, opVars, Stages
<1>9. CASE Close
  BY <1>9 DEF Close, loopVars, opVars, Stages
<1>10. CASE \E here \in {"take", "fired", "vlast"} : TakeJobs(here)
  BY <1>5, <1>10 DEF TakeJobs, InBatch
<1>11. CASE VTop
  BY <1>5, <1>11 DEF TakeJobs, VTop, InBatch
<1> QED
  BY <1>1, <1>2, <1>3, <1>4, <1>6, <1>7, <1>8, <1>9, <1>10, <1>11, NextCases DEF Moves

(* The steps that do not move the loop. *)
Aside ==
  \/ \E o \in Ops, k \in Kinds : Start(o, k)
  \/ \E d \in Delays, p \in Periods : SetTimer(d, p)
  \/ \E i \in 1..MaxTimers : ClearTimer(i) \/ UnrefTimer(i)
  \/ Exit \/ ClearInterrupt
  \/ \E o \in Ops : PostResult(o) \/ PostSignal(o) \/ HostUnref(o) \/ UnrefSignal(o)
  \/ \E o \in Ops, s \in Settlements : Settle(o, s)
  \/ Outside \/ Tick \/ Interrupt \/ Cancel \/ Close

(* The steps that do. *)
LoopMoves ==
  \/ HostRunsScript \/ (\E c \in Calls : HostDrives(c)) \/ JsEnds
  \/ (\E here \in {"take", "fired", "vlast"} : TakeJobs(here)) \/ VTop \/ RunJob \/ BatchEnds
  \/ Top \/ Checked \/ FireEnds \/ Idle \/ IdleJobs
  \/ Wake("sleep", "top") \/ Wake("wait", IF realTimers THEN "top" ELSE "vtop")
  \/ (\E i \in 1..MaxTimers : FireDue(i) \/ VFire(i))
  \/ VEnds \/ VIdle
  \/ JobsReturn \/ Left \/ Pend \/ PendJobs \/ Done

LEMMA AsideOrMoves == Next => (Aside \/ LoopMoves) /\ UNCHANGED realTimers
  BY NextCases DEF Elsewhere, Moves, Aside, LoopMoves

LEMMA AsideFrame == Aside => UNCHANGED <<pc, ret, call, out, batch, site, ran, fires, runs>>
<1>1. ASSUME NEW o \in Ops, NEW k \in Kinds, Start(o, k)
      PROVE  UNCHANGED <<pc, ret, call, out, batch, site, ran, fires, runs>>
  BY <1>1 DEF Start, loopVars
<1>2. CASE \/ \E d \in Delays, p \in Periods : SetTimer(d, p)
           \/ \E i \in 1..MaxTimers : ClearTimer(i) \/ UnrefTimer(i)
           \/ Exit
  BY <1>2 DEF SetTimer, ClearTimer, UnrefTimer, Exit, SameLoop
<1>3. CASE \/ \E o \in Ops : PostResult(o) \/ PostSignal(o) \/ HostUnref(o) \/ UnrefSignal(o)
           \/ \E o \in Ops, s \in Settlements : Settle(o, s)
  BY <1>3 DEF PostResult, PostSignal, HostUnref, UnrefSignal, Settle, Keep, loopVars
<1>4. CASE ClearInterrupt \/ Outside \/ Tick \/ Interrupt \/ Cancel \/ Close
  BY <1>4 DEF ClearInterrupt, Outside, OutsideSignal, Tick, Interrupt, Cancel, Close, loopVars
<1> QED
  BY <1>1, <1>2, <1>3, <1>4 DEF Aside

(* The registers of the loop agree with where it is. *)
LEMMA ControlStep == ASSUME LoopInv, Next PROVE Control'
<1> USE BoundsAssumption DEF LoopInv, Goto, InBatch
<1>0. UNCHANGED realTimers
  BY NextCases
<1>1. CASE Aside
  BY <1>0, <1>1, AsideFrame DEF Control
<1>2. CASE HostRunsScript
  BY <1>0, <1>2 DEF HostRunsScript, Control
<1>3. ASSUME NEW c \in Calls, HostDrives(c)
      PROVE  Control'
  BY <1>0, <1>3 DEF HostDrives, Control
<1>4. CASE JsEnds
  <2>1. /\ pc = "js" /\ ret \in {"host", "batch", "fired", "vtop"} /\ pc' = ret /\ ret' = "host"
        /\ UNCHANGED <<call, batch, site, fires>>
    BY <1>4 DEF JsEnds, Js, Control
  <2>2. CASE ret = "host"
    BY <1>0, <2>1, <2>2 DEF Control
  <2>3. CASE ret = "batch"
    BY <1>0, <2>1, <2>3 DEF Control
  <2>4. CASE ret \in {"fired", "vtop"}
    BY <1>0, <2>1, <2>4 DEF Control
  <2> QED
    BY <2>1, <2>2, <2>3, <2>4
<1>5. ASSUME NEW here \in {"take", "fired", "vlast"}, TakeJobs(here)
      PROVE  Control'
  BY <1>0, <1>5 DEF TakeJobs, Control
<1>6. CASE VTop
  BY <1>0, <1>6 DEF VTop, TakeJobs, Control
<1>7. CASE RunJob
  BY <1>0, <1>7 DEF RunJob, Control
<1>8. CASE BatchEnds
  <2>1. /\ pc = "batch" /\ site \in {"take", "fired", "vtop", "vlast"} /\ batch' = <<>>
        /\ UNCHANGED <<ret, call>>
    BY <1>8 DEF BatchEnds, Control
  <2>2. CASE site \in {"take", "fired"}
    <3>1. pc' \in {"checked", "fire"}
      BY <1>8, <2>2 DEF BatchEnds
    <3> QED
      BY <1>0, <2>1, <3>1 DEF Control
  <2>3. CASE site \in {"vtop", "vlast"} /\ ran
    <3>1. pc' = "vtop" /\ ~realTimers
      BY <1>8, <2>1, <2>3 DEF BatchEnds, Control
    <3> QED
      BY <1>0, <2>1, <3>1 DEF Control
  <2>4. CASE site \in {"vtop", "vlast"} /\ ~ran
    <3>1. pc' \in {"vpick", "left"} /\ ~realTimers /\ fires' = fires /\ fires < MaxMacrotasks
      BY <1>8, <2>1, <2>4 DEF BatchEnds, Control
    <3> QED
      BY <1>0, <2>1, <3>1 DEF Control
  <2> QED
    BY <2>1, <2>2, <2>3, <2>4
<1>9. ASSUME NEW here, NEW there, Step(here, there), ~InBatch, pc # "js",
             there \notin {"js", "batch", "host", "vpick", "vtop"},
             there = "vlast" => pc = "vpick"
      PROVE  Control'
  BY <1>0, <1>9 DEF Step, Control
<1>10. CASE Top \/ Checked \/ Idle \/ IdleJobs \/ VEnds \/ VIdle \/ Left \/ Pend
  BY <1>9, <1>10 DEF Step, Top, Checked, Idle, IdleJobs, VEnds, VIdle, Left, Pend
<1>11. CASE FireEnds
  BY <1>0, <1>11 DEF FireEnds, Control
<1>12. CASE Wake("sleep", "top") \/ Wake("wait", IF realTimers THEN "top" ELSE "vtop")
  BY <1>0, <1>12 DEF Wake, Control
<1>13. ASSUME NEW i, FireDue(i)
      PROVE  Control'
  BY <1>0, <1>13 DEF FireDue, Control
<1>14. ASSUME NEW i, VFire(i)
      PROVE  Control'
  BY <1>0, <1>14 DEF VFire, Control
<1>15. ASSUME NEW res, Return(res), ~InBatch
      PROVE  Control'
  BY <1>0, <1>15 DEF Return, Control
<1>16. CASE JobsReturn \/ Done
  BY <1>15, <1>16 DEF JobsReturn, Done
<1>17. CASE PendJobs
  <2>1. CASE Step("pendJobs", "wait")
    BY <1>9, <2>1 DEF Step
  <2>2. CASE pc = "pendJobs" /\ Return("nil")
    BY <1>15, <2>2
  <2> QED
    BY <1>17, <2>1, <2>2 DEF PendJobs
<1> QED
  BY <1>1, <1>2, <1>3, <1>4, <1>5, <1>6, <1>7, <1>8, <1>10, <1>11, <1>12, <1>13, <1>14, <1>16,
     <1>17, AsideOrMoves DEF LoopMoves

(* A list without one of its elements. *)
LEMMA RemoveAtProperties ==
  ASSUME NEW S, NEW s \in Seq(S), NEW i \in DOMAIN s
  PROVE  RemoveAt(s, i) \in Seq(S) /\ Len(RemoveAt(s, i)) = Len(s) - 1
<1>1. i \in 1..Len(s) /\ Len(s) \in Nat
  OBVIOUS
<1>2. SubSeq(s, 1, i - 1) \in Seq(S) /\ Len(SubSeq(s, 1, i - 1)) = i - 1
  BY <1>1, SubSeqProperties
<1>3. SubSeq(s, i + 1, Len(s)) \in Seq(S) /\ Len(SubSeq(s, i + 1, Len(s))) = Len(s) - i
  BY <1>1, SubSeqProperties
<1>4. RemoveAt(s, i) = SubSeq(s, 1, i - 1) \o SubSeq(s, i + 1, Len(s))
  BY DEF RemoveAt
<1>5. RemoveAt(s, i) \in Seq(S) /\ Len(RemoveAt(s, i)) = (i - 1) + (Len(s) - i)
  BY <1>2, <1>3, <1>4, ConcatProperties
<1> QED
  BY <1>1, <1>5

(* Every place has a rank of its own, and every rank up to their number is a *)
(* place's.                                                                  *)
LEMMA Ranks ==
  ASSUME NEW n \in Nat, NEW I \in SUBSET (1..n)
  PROVE  /\ Cardinality(I) \in Nat /\ Cardinality(I) <= n
         /\ \A i \in I : Rank(i, I) \in 1..Cardinality(I)
         /\ \A i, j \in I : i < j => Rank(i, I) < Rank(j, I)
         /\ \A k \in 1..Cardinality(I) : \E i \in I : Rank(i, I) = k
<1> DEFINE Upto(i) == {j \in I : j <= i}
           c == Cardinality(I)
           f == [i \in I |-> Rank(i, I)]
<1>1. /\ IsFiniteSet(I) /\ c \in Nat /\ c <= n
      /\ \A J \in SUBSET I : IsFiniteSet(J) /\ Cardinality(J) \in Nat /\ Cardinality(J) <= c
                             /\ (Cardinality(J) = c => J = I) /\ (J # {} => Cardinality(J) # 0)
  <2>1. IsFiniteSet(1..n) /\ Cardinality(1..n) = n
    BY FS_Interval, SMT
  <2>2. IsFiniteSet(I) /\ c \in Nat /\ c <= n
    BY <2>1, FS_Subset, FS_CardinalityType
  <2> QED
    BY <2>2, FS_Subset, FS_CardinalityType, FS_EmptySet
<1>2. \A i \in I : i \in Int /\ i \in Upto(i) /\ Upto(i) \in SUBSET I
  OBVIOUS
<1> HIDE DEF c
<1>3. \A i \in I : Rank(i, I) \in 1..c
  BY <1>1, <1>2 DEF Rank
<1>4. ASSUME NEW i \in I, NEW j \in I, i < j
      PROVE  Rank(i, I) < Rank(j, I)
  <2>0. i \in Int /\ j \in Int /\ ~(j <= i) /\ \A k \in I : k <= i => k <= j
    BY <1>2, <1>4
  <2>1. Upto(i) \in SUBSET Upto(j) /\ j \notin Upto(i) /\ j \in Upto(j)
    BY <1>2, <2>0
  <2>2. IsFiniteSet(Upto(j)) /\ Cardinality(Upto(i)) <= Cardinality(Upto(j))
        /\ Cardinality(Upto(i)) # Cardinality(Upto(j))
    BY <1>1, <1>2, <2>1, FS_Subset
  <2> QED
    BY <1>1, <1>2, <2>2 DEF Rank
<1>5. \A i, j \in I : f[i] = f[j] => i = j
  BY <1>2, <1>3, <1>4
<1>6. f \in Injection(I, 1..c)
  BY <1>3, <1>5, Fun_IsInj
<1>7. IsFiniteSet(1..c) /\ Cardinality(1..c) = c
  BY <1>1, FS_Interval, SMT
<1>8. f \in Surjection(I, 1..c)
  BY <1>6, <1>7, FS_Injection DEF c
<1>9. \A k \in 1..c : \E i \in I : f[i] = k
  BY <1>8 DEF Surjection
<1> QED
  BY <1>1, <1>3, <1>4, <1>9 DEF c

LEMMA LiveTimersType ==
  ASSUME NEW S, timers \in Seq(S)
  PROVE  LiveTimers \in Seq(S) /\ Len(LiveTimers) <= Len(timers)
<1> DEFINE I == Places(timers, {t \in ToSet(timers) : Live(t)})
           c == Cardinality(I)
           pick == [k \in 1..c |-> CHOOSE i \in I : Rank(i, I) = k]
<1>1. I \in SUBSET (1..Len(timers)) /\ Len(timers) \in Nat
  BY DEF Places
<1>2. c \in Nat /\ c <= Len(timers) /\ \A k \in 1..c : pick[k] \in I
  BY <1>1, Ranks
<1>3. LiveTimers = [k \in 1..c |-> timers[pick[k]]]
  BY DEF LiveTimers, Kept
<1> HIDE DEF I, c, pick
<1>4. \A k \in 1..c : timers[pick[k]] \in S
  <2>1. \A i \in 1..Len(timers) : timers[i] \in S
    OBVIOUS
  <2> QED
    BY <1>1, <1>2, <2>1
<1> QED
  BY <1>2, <1>3, <1>4

(* The list of timers stays a list of timers, within its bound. *)
LEMMA TimersStep == ASSUME LoopInv, Next PROVE timers' \in Seq(Timer) /\ Len(timers') <= MaxTimers
<1>0. timers \in Seq(Timer) /\ Len(timers) <= MaxTimers /\ Periods \subseteq Nat /\ MaxTimers \in Nat
      /\ Delays \subseteq Nat
  BY BoundsAssumption DEF LoopInv, TypeOK
<1>1. ASSUME NEW d \in Delays, NEW p \in Periods, SetTimer(d, p)
      PROVE  timers' \in Seq(Timer) /\ Len(timers') <= MaxTimers
  <2>1. [left |-> d, period |-> p, unref |-> FALSE, cancelled |-> FALSE] \in Timer
    BY <1>0 DEF Timer
  <2> QED
    BY <1>0, <1>1, <2>1 DEF SetTimer
<1>2. ASSUME NEW i, ClearTimer(i) \/ UnrefTimer(i)
      PROVE  timers' \in Seq(Timer) /\ Len(timers') <= MaxTimers
  <2>1. i \in DOMAIN timers /\ timers[i] \in Timer
    BY <1>0, <1>2 DEF ClearTimer, UnrefTimer
  <2>2. PICK t \in Timer : timers' = [timers EXCEPT ![i] = t]
    BY <1>2, <2>1 DEF ClearTimer, UnrefTimer, Timer
  <2> QED
    BY <1>0, <2>1, <2>2
<1>3. CASE Tick
  <2>1. \A i \in DOMAIN timers : timers[i] \in Timer
    BY <1>0
  <2>2. \A t \in Timer : [t EXCEPT !.left = @ - 1] \in Timer
    BY DEF Timer
  <2>3. timers' \in [DOMAIN timers -> Timer]
    BY <1>3, <2>1, <2>2 DEF Tick
  <2>4. DOMAIN timers = 1..Len(timers) /\ Len(timers) \in Nat
    BY <1>0
  <2> QED
    BY <1>0, <2>3, <2>4
<1>4. ASSUME NEW i, i \in DOMAIN timers, TakeTimer(i)
      PROVE  timers' \in Seq(Timer) /\ Len(timers') <= MaxTimers
  <2>1. RemoveAt(timers, i) \in Seq(Timer) /\ Len(RemoveAt(timers, i)) = Len(timers) - 1
    BY <1>0, <1>4, RemoveAtProperties
  <2>2. Rearmed(timers[i]) \in Timer
    <3> DEFINE t == timers[i]
               d == t.left + t.period
    <3>0. t \in Timer
      BY <1>0, <1>4
    <3> HIDE DEF t
    <3>a. t.left \in Int /\ t.period \in Periods
      BY <3>0 DEF Timer
    <3>b. t.period \in Nat
      BY <3>a, <1>0, Zenon
    <3>1. t.left \in Int /\ t.period \in Int /\ d \in Int
      BY <3>a, <3>b
    <3>2. \A n \in Int : [t EXCEPT !.left = n] \in Timer
      BY <3>0 DEF Timer
    <3> QED
      BY <3>1, <3>2 DEF Rearmed, t
  <2> QED
    BY <1>0, <1>4, <2>1, <2>2 DEF TakeTimer
<1>5. ASSUME NEW i, FireDue(i) \/ VFire(i)
      PROVE  timers' \in Seq(Timer) /\ Len(timers') <= MaxTimers
  BY <1>4, <1>5 DEF FireDue, VFire, First
<1>6. CASE FireEnds
  <2>1. LiveTimers \in Seq(Timer) /\ Len(LiveTimers) <= Len(timers)
    BY <1>0, LiveTimersType
  <2> QED
    BY <1>0, <1>6, <2>1 DEF FireEnds
<1>7. CASE UNCHANGED timers
  BY <1>0, <1>7
<1>8. CASE Moves
  BY <1>7, <1>8 DEF Moves, Start, PostResult, PostSignal, HostUnref, UnrefSignal, Settle, Keep,
     TakeJobs, VTop, RunJob, BatchEnds, Exit, Close, loopVars
<1>9. CASE HostRunsScript \/ ClearInterrupt \/ (\E c \in Calls : HostDrives(c)) \/ JsEnds
  BY <1>7, <1>9 DEF HostRunsScript, ClearInterrupt, HostDrives, JsEnds, loopVars
<1>10. ASSUME NEW here, NEW there, Step(here, there) \/ Wake(here, there)
      PROVE  UNCHANGED timers
  BY <1>10 DEF Step, Wake
<1>11. CASE \/ Top \/ Checked \/ Idle \/ IdleJobs \/ VEnds \/ VIdle \/ Left \/ Pend
            \/ Wake("sleep", "top") \/ Wake("wait", IF realTimers THEN "top" ELSE "vtop")
  BY <1>7, <1>10, <1>11 DEF Top, Checked, Idle, IdleJobs, VEnds, VIdle, Left, Pend
<1>12. CASE JobsReturn \/ Done \/ PendJobs
  BY <1>7, <1>10, <1>12 DEF JobsReturn, Done, PendJobs, Return
<1>13. CASE Outside \/ Interrupt \/ Cancel
  BY <1>7, <1>13 DEF Outside, OutsideSignal, Interrupt, Cancel, loopVars
<1> QED
  BY <1>1, <1>2, <1>3, <1>5, <1>6, <1>8, <1>9, <1>11, <1>12, <1>13, NextCases DEF Elsewhere

(* What Post writes has the type of what it overwrites. *)
LEMMA PostTypes ==
  ASSUME TypeOK, NEW o \in Ops, Post(o)
  PROVE  /\ answer' \in [Ops -> {"none", "nil", "closed"}]
         /\ at' \in [Ops -> {"idle", "going", "signal", "unref", "resignal", "done"}]
         /\ jobs' \in Seq(Ops)
<1>1. CASE closed
  BY <1>1 DEF Post, TypeOK
<1>2. CASE ~closed
  <2>1. jobs' = Append(jobs, o) /\ jobs \in Seq(Ops)
    BY <1>2 DEF Post, TypeOK
  <2>2. jobs' \in Seq(Ops)
    BY <2>1
  <2> QED
    BY <1>2, <2>2 DEF Post, TypeOK
<1> QED
  BY <1>1, <1>2

(* Every variable keeps its type. *)
LEMMA TypeStep == ASSUME LoopInv, Next PROVE TypeOK'
<1>0. /\ refs' \in 0..Cardinality(Ops)
      /\ timers' \in Seq(Timer) /\ Len(timers') <= MaxTimers /\ realTimers' = realTimers
  <2>1. refs' \in Nat \/ refs' \in Int
    <3>1. refs \in Int
      BY DEF LoopInv, TypeOK
    <3> QED
      BY <3>1, NextCases, ElsewhereFrame DEF Moves, Start, PostResult, PostSignal, HostUnref,
         UnrefSignal, Settle, TakeJobs, VTop, RunJob, Deliver, BatchEnds, Exit, Close
  <2>2. Owing' \in SUBSET Ops
    BY DEF Owing
  <2> QED
    BY <2>1, <2>2, RefsStep, TimersStep, NextCases, Counting DEF Refs
<1> USE <1>0, BoundsAssumption DEF LoopInv, TypeOK, Points, Goto
<1>1. ASSUME NEW o \in Ops, NEW k \in Kinds, Start(o, k)
      PROVE  TypeOK'
  BY <1>1 DEF Start, loopVars, Quiet
<1>2. ASSUME NEW d \in Delays, NEW p \in Periods, SetTimer(d, p)
      PROVE  TypeOK'
  BY <1>2 DEF SetTimer, opVars, Quiet, SameLoop
<1>3. ASSUME NEW i, ClearTimer(i) \/ UnrefTimer(i)
      PROVE  TypeOK'
  BY <1>3 DEF ClearTimer, UnrefTimer, opVars, Quiet, SameLoop
<1>4. CASE Exit
  BY <1>4 DEF Exit, opVars, Quiet, SameLoop
<1>5. CASE JsEnds
  BY <1>5 DEF JsEnds, opVars, Quiet
<1>6. CASE HostRunsScript
  BY <1>6 DEF HostRunsScript, opVars, Quiet
<1>7. CASE ClearInterrupt
  BY <1>7, ZenonT(40) DEF ClearInterrupt, loopVars, opVars
<1>8. ASSUME NEW c \in Calls, HostDrives(c)
      PROVE  TypeOK'
  <2>1. pc' \in Points /\ runs' \in 0..MaxRuns
    BY <1>8 DEF HostDrives
  <2> QED
    BY <1>8, <2>1, ZenonT(40) DEF HostDrives, opVars
<1>9. ASSUME NEW o \in Ops, PostResult(o)
      PROVE  TypeOK'
  BY <1>9, PostTypes DEF PostResult, loopVars, Keep
<1>10. ASSUME NEW o \in Ops, NEW s \in Settlements, Settle(o, s)
      PROVE  TypeOK'
  BY <1>10, PostTypes DEF Settle, loopVars, Keep
<1>11. ASSUME NEW o \in Ops, PostSignal(o)
      PROVE  TypeOK'
  BY <1>11 DEF PostSignal, Signal, loopVars, Keep
<1>12. ASSUME NEW o \in Ops, HostUnref(o) \/ UnrefSignal(o)
      PROVE  TypeOK'
  <2>1. CASE HostUnref(o)
    <3>1. at' \in [Ops -> {"idle", "going", "signal", "unref", "resignal", "done"}]
      BY <2>1 DEF HostUnref
    <3> QED
      BY <2>1, <3>1 DEF HostUnref, loopVars, Keep
  <2>2. CASE UnrefSignal(o)
    BY <2>2 DEF UnrefSignal, Signal, loopVars, Keep
  <2> QED
    BY <1>12, <2>1, <2>2
<1>13. CASE Interrupt \/ Cancel \/ Close \/ Outside
  <2>1. CASE Interrupt
    BY <2>1 DEF Interrupt, loopVars, opVars
  <2>2. CASE Cancel
    BY <2>2 DEF Cancel, loopVars, opVars
  <2>3. CASE Close
    BY <2>3 DEF Close, loopVars, opVars
  <2>4. CASE Outside
    BY <2>4 DEF Outside, OutsideSignal, Signal, loopVars, opVars
  <2> QED
    BY <1>13, <2>1, <2>2, <2>3, <2>4
<1>14. CASE Tick
  BY <1>14 DEF Tick, opVars, Quiet
<1>15. ASSUME NEW here \in {"take", "fired", "vlast", "vtop"}, TakeJobs(here)
      PROVE  TypeOK'
  BY <1>15 DEF TakeJobs, opVars
<1>16. CASE RunJob
  <2>1. batch # <<>> /\ Head(batch) \in Ops /\ Tail(batch) \in Seq(Ops)
    BY <1>16, HeadOfBatch DEF RunJob
  <2>2. Outcome(Head(batch)) \in {"run", "fulfilled", "rejected"}
    BY DEF Outcome
  <2> QED
    BY <1>16, <2>1, <2>2 DEF RunJob, Deliver
<1>17. CASE BatchEnds
  <2>1. site \in {"take", "fired", "vtop", "vlast"}
        /\ (site \in {"vtop", "vlast"} => fires < MaxMacrotasks)
    BY <1>17 DEF BatchEnds, Control, InBatch
  <2>2. pc' \in Points /\ fires' \in 0..MaxMacrotasks
    BY <1>17, <2>1 DEF BatchEnds
  <2>3. /\ batch' = <<>> /\ site' = "host" /\ ran' = FALSE
        /\ UNCHANGED <<ret, call, out, exit, armed, runs, jobs, closed, wake, flag, ctxDone, sig>>
        /\ UNCHANGED <<kind, at, winner, answer, got>>
    BY <1>17 DEF BatchEnds, opVars, Quiet
  <2>4. batch' \in Seq(Ops)
    BY <2>3
  <2>5. ran' \in BOOLEAN
    BY <1>17, Zenon DEF BatchEnds
  <2> QED
    BY <2>2, <2>3, <2>4, <2>5
<1>18. ASSUME NEW here, NEW there \in Points, Step(here, there)
      PROVE  TypeOK'
  BY <1>18 DEF Step, opVars, Quiet
<1>19. CASE Top \/ Checked \/ Idle \/ IdleJobs \/ VEnds \/ VIdle \/ Left \/ Pend
  BY <1>18, <1>19 DEF Top, Checked, Idle, IdleJobs, VEnds, VIdle, Left, Pend
<1>20. CASE FireEnds
  BY <1>20 DEF FireEnds, opVars, Quiet
<1>21. ASSUME NEW here, NEW there \in Points, Wake(here, there)
      PROVE  TypeOK'
  <2>1. wake' \in BOOLEAN
    BY <1>21 DEF Wake
  <2>2. /\ pc' = there /\ fires' = 0
        /\ UNCHANGED <<ret, call, out, batch, site, ran, exit, armed, runs, jobs, closed, flag,
                       ctxDone, sig>>
        /\ UNCHANGED <<kind, at, winner, answer, got>>
    BY <1>21 DEF Wake, opVars
  <2> QED
    BY <2>1, <2>2
<1>22. ASSUME NEW i, FireDue(i)
      PROVE  TypeOK'
  BY <1>22 DEF FireDue, opVars, Quiet
<1>23. ASSUME NEW i, VFire(i)
      PROVE  TypeOK'
  BY <1>23 DEF VFire, opVars, Quiet, Control
<1>24. ASSUME NEW res \in {"nil", "ctx", "terminated"}, Return(res)
      PROVE  TypeOK'
  BY <1>24 DEF Return, opVars, Quiet
<1>25. CASE JobsReturn \/ Done
  BY <1>24, <1>25 DEF JobsReturn, Done
<1>26. CASE PendJobs
  BY <1>18, <1>24, <1>26 DEF PendJobs
<1>27. CASE VTop
  BY <1>15, <1>27 DEF VTop
<1>28. "top" \in Points /\ "vtop" \in Points
  OBVIOUS
<1> HIDE DEF LoopInv, TypeOK, Points, Goto
<1>29. CASE Aside
  BY <1>1, <1>2, <1>3, <1>4, <1>7, <1>9, <1>10, <1>11, <1>12, <1>13, <1>14, <1>29 DEF Aside
<1>30. CASE LoopMoves
  BY <1>5, <1>6, <1>8, <1>15, <1>16, <1>17, <1>19, <1>20, <1>21, <1>22, <1>23, <1>25, <1>26, <1>27,
     <1>28, <1>30 DEF LoopMoves
<1> QED
  BY <1>29, <1>30, AsideOrMoves

-----------------------------------------------------------------------------
(* Only the loop takes a value from the wake channel: until it does, what was *)
(* signalled stays so.                                                       *)
Wakes == Wake("sleep", "top") \/ Wake("wait", IF realTimers THEN "top" ELSE "vtop")

LEMMA SignalKept == ASSUME LoopInv, Next, Signalled, ~Wakes PROVE Signalled'
<1> USE DEF Signalled, SignalComing
<1>0. at \in [Ops -> {"idle", "going", "signal", "unref", "resignal", "done"}]
  BY DEF LoopInv, TypeOK
<1>1. CASE wake' /\ wake' = TRUE
  BY <1>1
<1>2. CASE UNCHANGED <<wake, sig, at>>
  BY <1>2
<1>3. ASSUME NEW o \in Ops, NEW k \in Kinds, Start(o, k)
      PROVE  Signalled'
  <2>1. at' = [at EXCEPT ![o] = "going"] /\ at[o] = "idle" /\ UNCHANGED <<wake, sig>>
    BY <1>3 DEF Start, Quiet, LoopInv, Stages
  <2> QED
    BY <1>0, <2>1
<1>4. ASSUME NEW o \in Ops, PostResult(o) \/ (\E s \in Settlements : Settle(o, s))
      PROVE  Signalled'
  <2>1. at[o] = "going" /\ UNCHANGED <<wake, sig>> /\ \E x : at' = [at EXCEPT ![o] = x]
    BY <1>4 DEF PostResult, Settle, Post, Keep
  <2> QED
    BY <1>0, <2>1
<1>5. ASSUME NEW o \in Ops, PostSignal(o) \/ UnrefSignal(o)
      PROVE  Signalled'
  BY <1>5 DEF PostSignal, UnrefSignal, Signal
<1>6. ASSUME NEW o \in Ops, HostUnref(o)
      PROVE  Signalled'
  <2>1. at[o] = "unref" /\ UNCHANGED <<wake, sig>> /\ \E x : at' = [at EXCEPT ![o] = x]
    BY <1>6 DEF HostUnref, Keep
  <2> QED
    BY <1>0, <2>1
<1>7. CASE RunJob
  BY <1>7 DEF RunJob, Deliver
<1>8. CASE Interrupt \/ Close
  BY <1>8 DEF Interrupt, Close, opVars
<1>9. CASE Outside
  BY <1>9 DEF Outside, OutsideSignal, Signal
<1>10. CASE \/ \E d \in Delays, p \in Periods : SetTimer(d, p)
            \/ \E i \in 1..MaxTimers : ClearTimer(i) \/ UnrefTimer(i)
            \/ Exit \/ ClearInterrupt \/ Tick \/ Cancel
            \/ HostRunsScript \/ (\E c \in Calls : HostDrives(c)) \/ JsEnds
  BY <1>2, <1>10 DEF SetTimer, ClearTimer, UnrefTimer, Exit, ClearInterrupt, Tick, Cancel,
     HostRunsScript, HostDrives, JsEnds, Quiet, opVars
<1>11. CASE \/ (\E here \in {"take", "fired", "vlast"} : TakeJobs(here)) \/ VTop \/ BatchEnds
            \/ FireEnds \/ (\E i \in 1..MaxTimers : FireDue(i) \/ VFire(i))
            \/ JobsReturn \/ Done
  BY <1>2, <1>11 DEF TakeJobs, VTop, BatchEnds, FireEnds, FireDue, VFire, JobsReturn, Done, Return,
     Quiet, opVars
<1>12. ASSUME NEW here, NEW there, Step(here, there)
      PROVE  Signalled'
  BY <1>2, <1>12 DEF Step, Quiet, opVars
<1>13. CASE Top \/ Checked \/ Idle \/ IdleJobs \/ VEnds \/ VIdle \/ Left \/ Pend
  BY <1>12, <1>13 DEF Top, Checked, Idle, IdleJobs, VEnds, VIdle, Left, Pend
<1>14. CASE PendJobs
  BY <1>2, <1>12, <1>14 DEF PendJobs, Return, Quiet, opVars
<1> QED
  BY <1>3, <1>4, <1>5, <1>6, <1>7, <1>8, <1>9, <1>10, <1>11, <1>13, <1>14, AsideOrMoves
     DEF Aside, LoopMoves, Wakes

(* What stops the loop stays: the flag is cleared and the context renewed    *)
(* between two drives only.                                                  *)
LEMMA StopsStay ==
  ASSUME Next, pc # "host"
  PROVE  /\ (flag => flag') /\ (exit => exit') /\ (ctxDone => ctxDone')
         /\ (flag' /\ ~flag => "interrupt" \in sig')
<1> USE DEF Quiet, loopVars, opVars
<1>1. CASE Elsewhere
  <2>1. exit' = exit
    BY <1>1, ElsewhereFrame
  <2>0. CASE UNCHANGED <<flag, ctxDone>>
    BY <2>0, <2>1
  <2>2. CASE \/ \E d \in Delays, p \in Periods : SetTimer(d, p)
             \/ \E i \in 1..MaxTimers : ClearTimer(i) \/ UnrefTimer(i)
             \/ Tick \/ HostRunsScript \/ JsEnds
    BY <2>0, <2>2 DEF SetTimer, ClearTimer, UnrefTimer, Tick, HostRunsScript, JsEnds
  <2>7. ~ClearInterrupt /\ ~\E c \in Calls : HostDrives(c)
    BY DEF ClearInterrupt, HostDrives
  <2>3. CASE Interrupt \/ Cancel \/ Outside
    BY <2>1, <2>3 DEF Interrupt, Cancel, Outside, OutsideSignal
  <2>4. CASE \/ FireEnds \/ (\E i \in 1..MaxTimers : FireDue(i) \/ VFire(i)) \/ JobsReturn \/ Done
    BY <2>0, <2>4 DEF FireEnds, FireDue, VFire, JobsReturn, Done, Return
  <2>5. ASSUME NEW here, NEW there, Step(here, there) \/ Wake(here, there)
        PROVE  UNCHANGED <<flag, ctxDone>>
    BY <2>5 DEF Step, Wake
  <2>6. CASE \/ Top \/ Checked \/ Idle \/ IdleJobs \/ VEnds \/ VIdle \/ Left \/ Pend \/ PendJobs
             \/ Wake("sleep", "top") \/ Wake("wait", IF realTimers THEN "top" ELSE "vtop")
    BY <2>1, <2>5, <2>6 DEF Top, Checked, Idle, IdleJobs, VEnds, VIdle, Left, Pend, PendJobs, Return
  <2> QED
    BY <1>1, <2>2, <2>3, <2>4, <2>6, <2>7 DEF Elsewhere
<1>2. CASE Moves
  BY <1>2 DEF Moves, Start, PostResult, PostSignal, HostUnref, UnrefSignal, Settle, Keep, TakeJobs,
     VTop, RunJob, BatchEnds, Exit, Close
<1> QED
  BY <1>1, <1>2, NextCases

(* The loop is never past the queue, or past the flag, with something new in *)
(* it and no signal.                                                         *)
LEMMA WakeupsStep == ASSUME LoopInv, Next PROVE Wakeups'
<1> USE DEF LoopInv, Goto, InBatch
<1>0. ~Wakes /\ ~Signalled' => ~Signalled
  BY SignalKept
<1>1. CASE Aside
  <2>1. UNCHANGED <<pc, ret, call, site, fires>>
    BY <1>1, AsideFrame
  <2>2. ~Wakes
    BY <2>1 DEF Wakes, Wake
  <2>3. pc # "host" => (flag => flag') /\ (exit => exit') /\ (ctxDone => ctxDone')
    BY StopsStay
  <2>4. HasTaken' => HasTaken
    BY <2>1, <2>3 DEF HasTaken, Stopped, Cancelled
  <2>5. HasLooked' => HasLooked
    BY <2>1 DEF HasLooked
  <2>6. jobs = <<>> /\ jobs' # <<>> => Signalled'
    <3>1. ASSUME NEW o \in Ops, PostResult(o) \/ (\E s \in Settlements : Settle(o, s))
          PROVE  jobs' = jobs \/ Signalled'
      BY <3>1 DEF PostResult, Settle, Post, Signalled, SignalComing, TypeOK
    <3>2. CASE \/ \E o \in Ops : PostSignal(o) \/ HostUnref(o) \/ UnrefSignal(o)
               \/ \E o \in Ops, k \in Kinds : Start(o, k)
               \/ Exit \/ Close
      BY <3>2 DEF PostSignal, HostUnref, UnrefSignal, Start, Quiet, Exit, Close
    <3>3. CASE Elsewhere
      BY <3>3, ElsewhereFrame
    <3> QED
      BY <1>1, <3>1, <3>2, <3>3 DEF Aside, Elsewhere
  <2>7. HasLooked /\ flag' /\ ~flag => Signalled'
    BY StopsStay DEF HasLooked, Signalled, SignalComing
  <2> QED
    BY <1>0, <2>2, <2>4, <2>5, <2>6, <2>7 DEF Wakeups
<1>2. CASE HostRunsScript \/ (\E c \in Calls : HostDrives(c))
  BY <1>2, BoundsAssumption DEF HostRunsScript, HostDrives, Wakeups, HasTaken, HasLooked, Control
<1>3. CASE JsEnds
  <2>1. ~Wakes /\ UNCHANGED <<jobs, flag, exit, site, fires>> /\ pc = "js" /\ pc' = ret
        /\ ret \in {"host", "batch", "fired", "vtop"}
    BY <1>3 DEF JsEnds, Js, Quiet, Wakes, Wake, Control
  <2> QED
    BY <1>0, <2>1 DEF Wakeups, HasTaken, HasLooked
<1>4. ASSUME NEW here \in {"take", "fired", "vlast", "vtop"}, TakeJobs(here)
      PROVE  Wakeups'
  <2>1. ~Wakes /\ jobs' = <<>> /\ flag' = flag /\ pc = here /\ pc' = "batch" /\ site' = here
    BY <1>4 DEF TakeJobs, Wakes, Wake
  <2> QED
    BY <1>0, <2>1 DEF Wakeups, HasTaken, HasLooked
<1>5. CASE RunJob
  <2>1. ~Wakes /\ UNCHANGED <<jobs, flag, site>> /\ pc = "batch" /\ pc' = "js" /\ ret' = "batch"
    BY <1>5 DEF RunJob, Wakes, Wake
  <2> QED
    BY <1>0, <2>1 DEF Wakeups, HasTaken, HasLooked
<1>6. CASE BatchEnds
  <2>1. ~Wakes /\ UNCHANGED <<jobs, flag>> /\ pc = "batch"
    BY <1>6 DEF BatchEnds, Wakes, Wake, Quiet
  <2>2. site \in {"take", "fired", "vtop", "vlast"}
    BY <2>1 DEF Control
  <2>3. site \in {"vtop", "vlast"} => pc' \in {"vtop", "vpick", "left"}
    BY <1>6 DEF BatchEnds
  <2> QED
    BY <1>0, <2>1, <2>2, <2>3 DEF Wakeups, HasTaken, HasLooked
<1>7. ASSUME NEW there, UNCHANGED <<jobs, flag>>, ~Wakes, pc' = there,
             HasTaken' => HasTaken, HasLooked' => HasLooked \/ ~flag
      PROVE  Wakeups'
  BY <1>0, <1>7 DEF Wakeups
<1>8. ASSUME NEW here, NEW there, Step(here, there)
      PROVE  /\ UNCHANGED <<jobs, flag, exit, ctxDone, call, fires, ret, site>>
             /\ pc = here /\ pc' = there
             /\ here \notin {"sleep", "wait"} => ~Wakes
  BY <1>8 DEF Step, Quiet, Wakes, Wake
<1>9. CASE Top
  BY <1>7, <1>8, <1>9 DEF Top, HasTaken, HasLooked, Stopped, Cancelled
<1>10. CASE Checked
  BY <1>7, <1>8, <1>10 DEF Checked, HasTaken, HasLooked, Stopped, Cancelled
<1>11. CASE Idle \/ IdleJobs
  BY <1>7, <1>8, <1>11 DEF Idle, IdleJobs, HasTaken, HasLooked, Stopped, Cancelled
<1>12. CASE VEnds \/ VIdle
  <2>1. fires >= MaxMacrotasks => fires # 0
    BY BoundsAssumption DEF TypeOK
  <2> QED
    BY <1>7, <1>8, <1>12, <2>1 DEF VEnds, VIdle, HasTaken, HasLooked, Stopped, Cancelled
<1>13. CASE Left \/ Pend
  BY <1>7, <1>8, <1>13 DEF Left, Pend, HasTaken, HasLooked, Stopped, Cancelled
<1>14. CASE FireEnds
  BY <1>7, <1>14 DEF FireEnds, Quiet, Wakes, Wake, HasTaken, HasLooked
<1>15. CASE Wakes
  BY <1>15 DEF Wakes, Wake, Wakeups, HasTaken, HasLooked
<1>16. ASSUME NEW i, FireDue(i)
       PROVE  Wakeups'
  BY <1>7, <1>16 DEF FireDue, Quiet, Wakes, Wake, HasTaken, HasLooked
<1>17. ASSUME NEW i, VFire(i)
       PROVE  Wakeups'
  BY <1>7, <1>17 DEF VFire, Quiet, Wakes, Wake, HasTaken, HasLooked
<1>18. ASSUME NEW res, Return(res)
       PROVE  Wakeups'
  BY <1>18 DEF Return, Wakeups, HasTaken, HasLooked
<1>19. CASE JobsReturn \/ Done
  BY <1>18, <1>19 DEF JobsReturn, Done
<1>20. CASE PendJobs
  <2>1. CASE Step("pendJobs", "wait")
    BY <1>7, <1>8, <2>1 DEF HasTaken, HasLooked
  <2> QED
    BY <1>18, <1>20, <2>1 DEF PendJobs
<1> QED
  BY <1>1, <1>2, <1>3, <1>4, <1>5, <1>6, <1>9, <1>10, <1>11, <1>12, <1>13, <1>14, <1>15, <1>16,
     <1>17, <1>19, <1>20, AsideOrMoves DEF LoopMoves, Wakes, VTop

(* Only a script, or the loop when it fires and compacts, changes which      *)
(* timers keep the loop alive; time passing does not.                        *)
LEMMA AsideKeepsAlive ==
  ASSUME LoopInv, Aside, pc # "js"
  PROVE  KeepAlive' <=> KeepAlive
<1>1. CASE UNCHANGED timers
  BY <1>1 DEF KeepAlive
<1>2. CASE Tick
  <2>1. /\ DOMAIN timers' = DOMAIN timers
        /\ \A i \in DOMAIN timers : /\ timers'[i].cancelled = timers[i].cancelled
                                    /\ timers'[i].unref = timers[i].unref
    <3>1. \A i \in DOMAIN timers : timers[i] \in Timer
      BY DEF LoopInv, TypeOK
    <3>2. \A t \in Timer : /\ [t EXCEPT !.left = @ - 1].cancelled = t.cancelled
                           /\ [t EXCEPT !.left = @ - 1].unref = t.unref
      BY DEF Timer
    <3> QED
      BY <1>2, <3>1, <3>2 DEF Tick
  <2> QED
    BY <2>1 DEF KeepAlive, Live, ToSet
<1>3. CASE ~Tick
  <2>1. UNCHANGED timers
    BY <1>3 DEF Aside, Start, SetTimer, ClearTimer, UnrefTimer, Exit, Js, ClearInterrupt, PostResult,
       PostSignal, HostUnref, UnrefSignal, Settle, Keep, Outside, OutsideSignal, Interrupt, Cancel,
       Close, loopVars
  <2> QED
    BY <1>1, <2>1
<1> QED
  BY <1>2, <1>3

(* While the loop is between two of its own steps, outside a script, the     *)
(* refs only go down.                                                        *)
LEMMA AsideDropsRefs ==
  ASSUME LoopInv, Aside, pc # "js"
  PROVE  refs' = refs \/ refs' = refs - 1
<1>1. ASSUME NEW o \in Ops, NEW k \in Kinds, Start(o, k)
      PROVE  refs' = refs
  BY <1>1 DEF Start, Js
<1>2. CASE \E o \in Ops : PostResult(o) \/ PostSignal(o) \/ HostUnref(o) \/ UnrefSignal(o)
  BY <1>2 DEF PostResult, PostSignal, HostUnref, UnrefSignal
<1>3. CASE \/ \E o \in Ops, s \in Settlements : Settle(o, s)
           \/ Exit \/ Close
  BY <1>3 DEF Settle, Exit, Close
<1>4. CASE Elsewhere
  BY <1>4, ElsewhereFrame
<1> QED
  BY <1>1, <1>2, <1>3, <1>4 DEF Aside, Elsewhere

(* What the first look saw holds at the second. *)
LEMMA LooksStep == ASSUME LoopInv, Next PROVE Looks'
<1> USE DEF LoopInv, Goto
<1>0. TypeOK' /\ UNCHANGED realTimers
  BY TypeStep, NextCases
<1>1. CASE Aside
  <2>1. UNCHANGED <<pc, call>>
    BY <1>1, AsideFrame
  <2>2. pc # "js" => (KeepAlive' <=> KeepAlive) /\ (refs' = refs \/ refs' = refs - 1)
    BY <1>1, AsideKeepsAlive, AsideDropsRefs
  <2>3. pc # "host" => (flag => flag') /\ (exit => exit') /\ (ctxDone => ctxDone')
    BY StopsStay
  <2>4. refs \in Nat /\ refs' \in Nat
    <3>1. Cardinality(Ops) \in Nat
      BY Counting
    <3> QED
      BY <1>0, <3>1 DEF TypeOK
  <2>5. pc \in {"idleJobs", "pendJobs"} => refs' = 0
    BY <2>2, <2>4 DEF Looks
  <2> QED
    BY <1>0, <2>1, <2>2, <2>3, <2>5 DEF Looks, Stopped, Cancelled
<1>2. ASSUME pc' \in Points \ {"idleJobs", "pend", "pendJobs", "left", "done"}
      PROVE  Looks'
  BY <1>2 DEF Looks
<1>3. CASE \/ HostRunsScript \/ (\E c \in Calls : HostDrives(c))
           \/ (\E here \in {"take", "fired", "vlast"} : TakeJobs(here)) \/ VTop \/ RunJob \/ FireEnds
           \/ Wake("sleep", "top") \/ Wake("wait", IF realTimers THEN "top" ELSE "vtop")
           \/ (\E i \in 1..MaxTimers : FireDue(i)) \/ JobsReturn \/ Done \/ VIdle
  BY <1>2, <1>3 DEF HostRunsScript, HostDrives, TakeJobs, VTop, RunJob, FireEnds, Wake, FireDue,
     JobsReturn, Done, Return, VIdle, Step, Points
<1>4. CASE JsEnds
  BY <1>2, <1>4 DEF JsEnds, Js, Control, Points
<1>5. CASE BatchEnds
  <2>1. site \in {"take", "fired", "vtop", "vlast"} /\ (site \in {"vtop", "vlast"} => ~realTimers)
    BY <1>5 DEF BatchEnds, Control, InBatch
  <2>2. site \in {"take", "fired"} => pc' \in {"checked", "fire"}
    BY <1>5 DEF BatchEnds
  <2>3. site \in {"vtop", "vlast"} => pc' \in {"vtop", "vpick", "left"}
    BY <1>5 DEF BatchEnds
  <2> QED
    BY <1>0, <2>1, <2>2, <2>3 DEF Looks
<1>6. ASSUME NEW here, NEW there, Step(here, there)
      PROVE  /\ UNCHANGED <<timers, refs, flag, exit, ctxDone, call>>
             /\ pc = here /\ pc' = there
             /\ KeepAlive' <=> KeepAlive
             /\ Stopped' <=> Stopped
             /\ Cancelled' <=> Cancelled
  BY <1>6 DEF Step, Quiet, KeepAlive, Stopped, Cancelled
<1>7. CASE Top \/ Checked
  BY <1>0, <1>6, <1>7 DEF Top, Checked, Looks
<1>8. CASE Idle
  <2>1. ~HostPending(1) => refs = 0
    <3>1. Cardinality(Ops) \in Nat
      BY Counting
    <3> QED
      BY <3>1 DEF HostPending, TypeOK
  <2> QED
    BY <1>0, <1>6, <1>8, <2>1 DEF Idle, Looks
<1>9. CASE IdleJobs
  BY <1>0, <1>6, <1>9 DEF IdleJobs, Looks
<1>10. CASE VEnds
  BY <1>0, <1>6, <1>10 DEF VEnds, Looks, Control
<1>11. ASSUME NEW i, VFire(i)
       PROVE  Looks'
  BY <1>0, <1>11 DEF VFire, Looks, Control
<1>12. CASE Left
  BY <1>0, <1>6, <1>12 DEF Left, Looks
<1>13. CASE Pend
  <2>1. ~HostPending(1) => refs = 0
    <3>1. Cardinality(Ops) \in Nat
      BY Counting
    <3> QED
      BY <3>1 DEF HostPending, TypeOK
  <2> QED
    BY <1>0, <1>6, <1>13, <2>1 DEF Pend, Looks
<1>14. CASE PendJobs
  BY <1>2, <1>14 DEF PendJobs, Step, Return, Points
<1> QED
  BY <1>1, <1>3, <1>4, <1>5, <1>7, <1>8, <1>9, <1>10, <1>11, <1>12, <1>13, <1>14, AsideOrMoves
     DEF LoopMoves

(* A loop that goes to sleep has a reason, and keeps it or is woken. *)
LEMMA SleepStep == ASSUME LoopInv, Next PROVE NoLostWakeup'
<1> USE DEF LoopInv, Goto
<1>0. Wakeups' /\ TypeOK'
  BY WakeupsStep, TypeStep
<1>1. ASSUME pc' \in {"sleep", "wait"}, ~wake', ~SignalComing'
      PROVE  refs' > 0 \/ (pc' = "sleep" /\ KeepAlive')
  <2>1. CASE Aside
    <3>1. UNCHANGED pc /\ ~Wakes /\ ~Signalled
      BY <1>1, <2>1, AsideFrame, SignalKept DEF Wakes, Wake, Signalled
    <3>2. refs > 0 \/ (pc = "sleep" /\ KeepAlive)
      BY <1>1, <3>1 DEF NoLostWakeup, Signalled
    <3>3. KeepAlive' <=> KeepAlive
      BY <1>1, <2>1, <3>1, AsideKeepsAlive
    <3>4. refs > 0 => refs' > 0
      <4>1. CASE UNCHANGED refs
        BY <4>1
      <4>2. ASSUME NEW o \in Ops, HostUnref(o)
            PROVE  refs > 0 => refs' > 0
        <5>1. at' = [at EXCEPT ![o] = IF ~closed /\ refs - 1 <= 0 THEN "resignal" ELSE "done"]
              /\ refs' = IF closed THEN refs ELSE refs - 1
          BY <4>2 DEF HostUnref
        <5>2. at'[o] # "resignal"
          BY <1>1 DEF SignalComing
        <5>3. closed \/ ~(refs - 1 <= 0)
          BY <5>1, <5>2 DEF TypeOK
        <5>4. refs \in Nat
          <6>1. Cardinality(Ops) \in Nat
            BY Counting
          <6> QED
            BY <6>1 DEF TypeOK
        <5> QED
          BY <5>1, <5>3, <5>4
      <4>3. (\E o \in Ops : HostUnref(o)) \/ UNCHANGED refs
        <5>1. CASE Elsewhere
          BY <5>1, ElsewhereFrame
        <5>2. ~Js
          BY <1>1, <3>1 DEF Js
        <5>3. CASE Moves
          BY <2>1, <5>2, <5>3, <3>1, <1>1 DEF Moves, Start, PostResult, PostSignal, UnrefSignal,
             Settle, TakeJobs, VTop, RunJob, BatchEnds, Exit, Close
        <5> QED
          BY <5>1, <5>3, NextCases
      <4> QED
        BY <4>1, <4>2, <4>3
    <3> QED
      BY <3>1, <3>2, <3>3, <3>4
  <2>2. CASE LoopMoves
    <3>1. Idle \/ IdleJobs \/ Pend \/ PendJobs
      <4>1. ~(HostRunsScript \/ (\E c \in Calls : HostDrives(c)) \/ RunJob \/ FireEnds
              \/ JobsReturn \/ Done \/ (\E i \in 1..MaxTimers : FireDue(i) \/ VFire(i)))
        BY <1>1 DEF HostRunsScript, HostDrives, RunJob, FireEnds, JobsReturn, Done, Return, FireDue,
           VFire
      <4>2. ~((\E here \in {"take", "fired", "vlast"} : TakeJobs(here)) \/ VTop
              \/ Wake("sleep", "top") \/ Wake("wait", IF realTimers THEN "top" ELSE "vtop"))
        BY <1>1 DEF TakeJobs, VTop, Wake
      <4>3. ~(Top \/ Checked \/ VEnds \/ VIdle \/ Left)
        BY <1>1 DEF Top, Checked, VEnds, VIdle, Left, Step
      <4>4. ~JsEnds
        BY <1>1 DEF JsEnds, Js, Control
      <4>5. ~BatchEnds
        <5>1. pc = "batch" => site \in {"take", "fired", "vtop", "vlast"}
          BY DEF Control, InBatch
        <5> QED
          BY <1>1, <5>1 DEF BatchEnds
      <4> QED
        BY <2>2, <4>1, <4>2, <4>3, <4>4, <4>5 DEF LoopMoves
    <3>2. ~Wakes /\ ~Signalled /\ jobs' = <<>> /\ UNCHANGED <<jobs, refs, timers>>
      <4>1. UNCHANGED <<jobs, refs, timers>> /\ pc \notin {"sleep", "wait"}
        BY <1>1, <3>1 DEF Idle, IdleJobs, Pend, PendJobs, Step, Quiet, Return
      <4>2. ~Wakes
        BY <4>1 DEF Wakes, Wake
      <4>3. ~Signalled
        BY <1>1, <4>2, SignalKept DEF Signalled
      <4>4. jobs' = <<>>
        BY <1>0, <1>1 DEF Wakeups, HasTaken, Signalled
      <4> QED
        BY <4>1, <4>2, <4>3, <4>4
    <3>3. Idle \/ Pend
      BY <1>1, <3>1, <3>2 DEF IdleJobs, PendJobs, HostPending, Step, Return
    <3> QED
      BY <1>1, <3>2, <3>3 DEF Idle, Pend, Step, HostPending, KeepAlive
  <2> QED
    BY <2>1, <2>2, AsideOrMoves
<1>2. ASSUME pc' \in {"sleep", "wait"}, ~wake', ~SignalComing'
      PROVE  jobs' = <<>> /\ ~flag'
  BY <1>0, <1>2 DEF Wakeups, HasTaken, HasLooked, Signalled
<1> QED
  BY <1>1, <1>2 DEF NoLostWakeup

-----------------------------------------------------------------------------
LEMMA LoopInit == ASSUME Init PROVE LoopInv
<1> USE BoundsAssumption DEF Init
<1>1. Owing = {} /\ Cardinality(Ops) \in Nat /\ Cardinality({}) = 0
  BY Counting, FS_EmptySet DEF Owing, Owes
<1>2. TypeOK
  <2>1. jobs \in Seq(Ops) /\ batch \in Seq(Ops) /\ timers \in Seq(Timer) /\ Len(timers) <= MaxTimers
    OBVIOUS
  <2>2. /\ kind \in [Ops -> Kinds \cup {"none"}] /\ winner \in [Ops -> Settlements \cup {<<"none", "good">>}]
        /\ at \in [Ops -> {"idle", "going", "signal", "unref", "resignal", "done"}]
        /\ answer \in [Ops -> {"none", "nil", "closed"}]
        /\ got \in [Ops -> {"none", "pending", "run", "fulfilled", "rejected"}]
    OBVIOUS
  <2>3. /\ refs \in 0..Cardinality(Ops) /\ fires \in 0..MaxMacrotasks /\ armed \in 0..MaxArmed
        /\ runs \in 0..MaxRuns
    BY <1>1
  <2>4. /\ ran \in BOOLEAN /\ closed \in BOOLEAN /\ wake \in BOOLEAN /\ flag \in BOOLEAN
        /\ ctxDone \in BOOLEAN /\ exit \in BOOLEAN /\ realTimers \in BOOLEAN
    BY Zenon
  <2>5. {pc, ret, site} \subseteq Points
    BY DEF Points
  <2> QED
    BY <2>1, <2>2, <2>3, <2>4, <2>5 DEF TypeOK
<1>3. Control /\ Queued /\ Stages
  BY DEF Control, InBatch, Queued, Stages
<1>4. Refs
  BY <1>1 DEF Refs
<1>5. Wakeups /\ Looks /\ NoLostWakeup
  BY DEF Wakeups, HasTaken, HasLooked, InBatch, Looks, NoLostWakeup
<1> QED
  BY <1>2, <1>3, <1>4, <1>5 DEF LoopInv

LEMMA LoopStep == LoopInv /\ [Next]_vars => LoopInv'
<1> SUFFICES ASSUME LoopInv, [Next]_vars PROVE LoopInv'
  OBVIOUS
<1>1. CASE Next
  BY <1>1, TypeStep, ControlStep, QueuedStep, StagesStep, RefsStep, WakeupsStep, LooksStep, SleepStep
     DEF LoopInv
<1>2. CASE UNCHANGED vars
  BY <1>2 DEF vars, moving, loopVars, opVars, LoopInv, TypeOK, Control, InBatch, Queued, Stages, Refs,
     Owing, Owes, Wakeups, HasTaken, HasLooked, Signalled, SignalComing, Stopped, Cancelled, Looks,
     KeepAlive, NoLostWakeup
<1> QED
  BY <1>1, <1>2

(* LoopInv holds in every state of every host program. *)
THEOREM LoopInvariance == Spec => []LoopInv
<1>1. Init => LoopInv
  BY LoopInit
<1> QED
  BY <1>1, LoopStep, PTL DEF Spec

(* What LoopInv says of one job is what AcceptedRunsOnce says of all. *)
LEMMA QueuedOnce == ASSUME LoopInv PROVE AcceptedRunsOnce
<1> USE DEF LoopInv
<1> DEFINE q == batch \o jobs
<1>0. batch \in Seq(Ops) /\ jobs \in Seq(Ops)
  BY DEF TypeOK
<1>1. /\ DOMAIN q = 1..(Len(batch) + Len(jobs))
      /\ Len(batch) \in Nat /\ Len(jobs) \in Nat
      /\ DOMAIN batch = 1..Len(batch) /\ DOMAIN jobs = 1..Len(jobs)
      /\ \A i \in DOMAIN batch : i \in DOMAIN q /\ q[i] = batch[i]
      /\ \A i \in DOMAIN jobs : Len(batch) + i \in DOMAIN q /\ q[Len(batch) + i] = jobs[i]
  BY <1>0
<1>2. ASSUME NEW i \in DOMAIN q
      PROVE  \/ i \in DOMAIN batch /\ q[i] = batch[i]
             \/ i - Len(batch) \in DOMAIN jobs /\ q[i] = jobs[i - Len(batch)]
  BY <1>0, <1>1
<1> HIDE DEF q
<1>3. \A i, j \in DOMAIN q : q[i] = q[j] => i = j
  <2> SUFFICES ASSUME NEW i \in DOMAIN q, NEW j \in DOMAIN q, q[i] = q[j] PROVE i = j
    OBVIOUS
  <2>1. i \in Int /\ j \in Int
    BY <1>1
  <2> QED
    BY <1>1, <1>2, <2>1 DEF Queued
<1>4. ASSUME NEW o \in Ops
      PROVE  LET waiting == {i \in DOMAIN q : q[i] = o}
             IN /\ Cardinality(waiting) <= 1
                /\ answer[o] = "nil" /\ ~closed /\ ~exit
                   => (waiting = {} <=> got[o] \notin {"none", "pending"})
  <2> DEFINE waiting == {i \in DOMAIN q : q[i] = o}
  <2>1. waiting = {} \/ \E i : waiting = {i}
    BY <1>3
  <2>2. Cardinality(waiting) <= 1
    <3>1. CASE waiting = {}
      BY <3>1, FS_EmptySet
    <3>2. ASSUME NEW i, waiting = {i}
          PROVE  Cardinality(waiting) = 1
      BY <3>2, FS_Singleton
    <3> QED
      BY <2>1, <3>1, <3>2
  <2>3. waiting # {} => got[o] = "pending"
    BY <1>2 DEF Queued
  <2>4. waiting = {} => /\ ~\E i \in DOMAIN batch : batch[i] = o
                        /\ ~\E i \in DOMAIN jobs : jobs[i] = o
    BY <1>1
  <2>5. waiting = {} /\ answer[o] = "nil" /\ ~closed /\ ~exit => got[o] \in Settled
    BY <2>4 DEF Stages
  <2> QED
    BY <2>2, <2>3, <2>5 DEF Settled
<1> QED
  BY <1>4 DEF AcceptedRunsOnce, q

LEMMA RefsAreOwing == ASSUME LoopInv PROVE RefsBalanced
  BY DEF LoopInv, Refs, Owing, Owes, RefsBalanced

(* For any number of operations: a job that Post accepted is in the queue or *)
(* in the batch exactly once until it has run and never again after, and the *)
(* ref count is the number of operations that have not delivered (Post,      *)
(* runExternalJobs, HostRef, HostUnref, NewPromise).                         *)
THEOREM OperationsAreExact == Spec => []OpsAreExact
<1>1. LoopInv => OpsAreExact
  BY QueuedOnce, RefsAreOwing DEF OpsAreExact, LoopInv
<1> QED
  BY <1>1, LoopInvariance, PTL

(* For any number of operations and timers the loop never sleeps through a   *)
(* wakeup: with no signal in the channel or on its way there is nothing to   *)
(* run, no interrupt, and something that will signal (waitForWork against    *)
(* Post, HostUnref, Interrupt and CloseHost).                                *)
THEOREM WakeupsAreNotLost == Spec => []NoLostWakeup
<1>1. LoopInv => NoLostWakeup
  BY DEF LoopInv
<1> QED
  BY <1>1, LoopInvariance, PTL

(* The step in which RunLoop answers nil. *)
LEMMA ReturnsNil ==
  ASSUME LoopInv, Next, call = "RunLoop", pc' = "host", out' = "nil", ~exit, ~closed
  PROVE  PendJobs /\ pc = "pendJobs" /\ jobs = <<>> /\ batch = <<>> /\ refs = 0
         /\ (realTimers => ~KeepAlive)
<1> USE DEF LoopInv, Goto
<1>1. pc # "host" /\ ~(pc = "js" /\ ret = "host")
  BY DEF Control
<1>2. ~Aside
  BY <1>1, AsideFrame
<1>3. ~JsEnds /\ ~HostRunsScript /\ ~(\E c \in Calls : HostDrives(c))
  BY <1>1 DEF JsEnds, Js, HostRunsScript, HostDrives
<1>4. ~((\E here \in {"take", "fired", "vlast"} : TakeJobs(here)) \/ VTop \/ RunJob \/ FireEnds
        \/ Wake("sleep", "top") \/ Wake("wait", IF realTimers THEN "top" ELSE "vtop"))
  BY DEF TakeJobs, VTop, RunJob, FireEnds, Wake
<1>5. ~BatchEnds
  <2>1. pc = "batch" => site \in {"take", "fired", "vtop", "vlast"}
    BY DEF Control, InBatch
  <2> QED
    BY <2>1 DEF BatchEnds
<1>6. ~(\E i \in 1..MaxTimers : FireDue(i) \/ VFire(i))
  BY DEF FireDue, VFire
<1>7. ~(Top \/ Checked \/ Idle \/ IdleJobs \/ VEnds \/ VIdle \/ Left \/ Pend \/ JobsReturn)
  BY DEF Top, Checked, Idle, IdleJobs, VEnds, VIdle, Left, Pend, JobsReturn, Step
<1>8. ~Done
  <2>1. pc = "done" => flag \/ ctxDone
    BY DEF Looks, Stopped, Cancelled
  <2> QED
    BY <2>1 DEF Done, Return
<1>9. PendJobs
  BY <1>2, <1>3, <1>4, <1>5, <1>6, <1>7, <1>8, AsideOrMoves DEF LoopMoves
<1>10. pc = "pendJobs" /\ jobs = <<>>
  BY <1>9 DEF PendJobs, Step, HostPending
<1> QED
  BY <1>9, <1>10 DEF Looks, Control, InBatch

(* For any number of operations and timers, RunLoop answers nil only when    *)
(* every promise a script was given has settled, every operation that holds  *)
(* a ref has delivered, and no timer that keeps the loop alive is armed      *)
(* (RunLoop, HostPending: two reads that are not one).                       *)
THEOREM NothingIsLeftBehind == Spec => NothingLeftBehind
<1> DEFINE A == call = "RunLoop" /\ pc' = "host" /\ out' = "nil" /\ ~exit /\ ~closed
                => /\ \A o \in Ops : kind[o] \in {"promise", "raw"} => got[o] # "pending"
                   /\ realTimers => ~KeepAlive
<1>1. ASSUME LoopInv, Next
      PROVE  A
  <2> SUFFICES ASSUME call = "RunLoop", pc' = "host", out' = "nil", ~exit, ~closed
               PROVE  /\ \A o \in Ops : kind[o] \in {"promise", "raw"} => got[o] # "pending"
                      /\ realTimers => ~KeepAlive
    OBVIOUS
  <2>1. jobs = <<>> /\ batch = <<>> /\ refs = 0 /\ (realTimers => ~KeepAlive)
    BY <1>1, ReturnsNil
  <2>2. Owing = {}
    <3>1. Cardinality(Owing) = 0 /\ Owing \in SUBSET Ops
      BY <1>1, <2>1 DEF LoopInv, Refs, Owing
    <3>2. IsFiniteSet(Owing)
      BY <3>1, BoundsAssumption, FS_Subset
    <3> QED
      BY <3>1, <3>2, FS_EmptySet
  <2>3. ASSUME NEW o \in Ops, kind[o] \in {"promise", "raw"}
        PROVE  got[o] # "pending"
    <3>1. CASE kind[o] = "promise"
      BY <2>2, <3>1 DEF Owing, Owes
    <3>2. CASE kind[o] = "raw"
      <4>1. at[o] \notin {"idle", "going"}
        BY <1>1, <2>2, <3>2 DEF Owing, Owes, LoopInv, Stages
      <4>2. got[o] \in Settled
        BY <1>1, <2>1, <4>1 DEF LoopInv, Stages
      <4> QED
        BY <4>2 DEF Settled
    <3> QED
      BY <2>3, <3>1, <3>2
  <2> QED
    BY <2>1, <2>3
<1>2. LoopInv /\ [Next]_vars => [A]_vars
  BY <1>1
<1>3. (Spec => []LoopInv) => (Spec => [][A]_vars)
  BY <1>2, PTL DEF Spec
<1> QED
  BY <1>3, LoopInvariance DEF NothingLeftBehind
=============================================================================
