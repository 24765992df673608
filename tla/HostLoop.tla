------------------------------ MODULE HostLoop ------------------------------
(***************************************************************************)
(* The event loop of a Runtime and the goroutines that answer it           *)
(* (internal/engine/hostloop.go, runEventLoop in builtin_promise.go,       *)
(* host.go).                                                               *)
(*                                                                         *)
(* One goroutine owns the Runtime: it runs scripts, and it drives the loop *)
(* in RunLoop or RunJobs.  Any other goroutine may post a job, settle a    *)
(* promise it was given, drop its ref, interrupt the Runtime, cancel the   *)
(* context or close the Runtime.  Every access to the queue, the ref count, *)
(* the flag and the wake channel that another goroutine can fall between   *)
(* is a step of its own.                                                   *)
(*                                                                         *)
(* realTimers chooses the loop: runRealEventLoop, or the virtual clock of  *)
(* runEventLoop.  What a job or a callback does, with the microtasks       *)
(* drained after it, is the loop's state "js".  The waitAsync part of the  *)
(* loop is in AtomicsWait.                                                 *)
(***************************************************************************)
EXTENDS Integers, Sequences, SequencesExt, FiniteSets, Subsequences

CONSTANTS Ops,           \* host operations: each is started at most once
          Kinds,         \* what they may be, see Start
          Clocks,        \* the clocks a host may choose: TRUE is the wall clock
          Delays,        \* ticks a timer may ask for
          Periods,       \* 0, or the period of an interval
          MaxTimers,     \* timers on the list at a time (bound)
          MaxArmed,      \* timers armed in all, unless Endless (bound)
          Endless,       \* callbacks may arm timers for ever
          MaxLate,       \* ticks a due timer may be late (bound)
          MaxMacrotasks, \* maxMacrotasks: fires of one virtual run
          MaxRuns,       \* times the host drives the loop (bound)
          Calls,         \* how it drives it: "RunLoop", "RunJobs"
          Stops          \* what may stop it: "ctx", "interrupt", "close", "exit"

ASSUME BoundsAssumption ==
  /\ IsFiniteSet(Ops)
  /\ Kinds \subseteq {"promise", "raw", "loose"}
  /\ Clocks \subseteq BOOLEAN /\ Endless \in BOOLEAN
  /\ Delays \subseteq Nat /\ Periods \subseteq Nat
  /\ MaxTimers \in Nat /\ MaxArmed \in Nat /\ MaxLate \in Nat
  /\ MaxMacrotasks \in Nat \ {0} /\ MaxRuns \in Nat
  /\ Calls \subseteq {"RunLoop", "RunJobs"}
  /\ Stops \subseteq {"ctx", "interrupt", "close", "exit"}

VARIABLES
  pc,        \* where the owner of the Runtime is
  ret,       \* where the loop goes on when the code it called returns
  call,      \* which of Calls it is in
  out,       \* what the last RunLoop answered
  jobs,      \* hostQueue.jobs
  batch,     \* the local batch of runExternalJobs
  site,      \* where it was called from
  ran,       \* what it reports
  closed,    \* hostQueue.closed (and Runtime.e = nil)
  wake,      \* a value is in the wake channel
  refs,      \* hostQueue.refs
  flag,      \* the interrupt flag
  ctxDone,   \* the context of RunLoop is done
  exit,      \* exitCode is set
  realTimers,   \* which clock the host chose (SetRealTimers) before the first script
  timers,    \* macrotasks, in the order of seq
  fires,     \* iterations of the virtual loop; whether fireDueTimers has fired (0, 1)
  armed, runs,  \* counters of the bounds
  kind,      \* what each operation is
  at,        \* where its goroutine is
  winner,    \* the settle call that won, from once.Do until its job runs
  answer,    \* what the settle function or Post reported
  got,       \* the state of its promise, or "run" when its job has run
  sig        \* goroutines about to call signal: "interrupt", "close"

loopVars == <<pc, ret, call, out, batch, site, ran, exit, timers, fires, armed, runs>>
opVars == <<kind, at, winner, answer, got>>
moving == <<loopVars, jobs, closed, wake, refs, flag, ctxDone, opVars, sig>>
vars == <<moving, realTimers>>

Points == {"host", "js", "top", "take", "batch", "checked", "fire", "fired", "idle", "idleJobs",
           "sleep", "vtop", "vpick", "vlast", "left", "pend", "pendJobs", "wait", "done"}
Values == {"good", "bad"}
Settlements == {"resolve", "reject"} \X Values
Timer == [left : Int, period : Periods, unref : BOOLEAN, cancelled : BOOLEAN]

TypeOK ==
  /\ {pc, ret, site} \subseteq Points /\ call \in {"none"} \cup Calls
  /\ out \in {"none", "nil", "ctx", "terminated"}
  /\ jobs \in Seq(Ops) /\ batch \in Seq(Ops) /\ ran \in BOOLEAN
  /\ closed \in BOOLEAN /\ wake \in BOOLEAN /\ flag \in BOOLEAN
  /\ ctxDone \in BOOLEAN /\ exit \in BOOLEAN /\ realTimers \in BOOLEAN
  /\ refs \in 0..Cardinality(Ops)
  /\ timers \in Seq(Timer) /\ Len(timers) <= MaxTimers
  /\ fires \in 0..MaxMacrotasks /\ armed \in 0..MaxArmed /\ runs \in 0..MaxRuns
  /\ kind \in [Ops -> Kinds \cup {"none"}]
  /\ at \in [Ops -> {"idle", "going", "signal", "unref", "resignal", "done"}]
  /\ winner \in [Ops -> Settlements \cup {<<"none", "good">>}]
  /\ answer \in [Ops -> {"none", "nil", "closed"}]
  /\ got \in [Ops -> {"none", "pending", "run", "fulfilled", "rejected"}]
  /\ sig \subseteq {"interrupt", "close"}

Init ==
  /\ pc = "host" /\ ret = "host" /\ call = "none" /\ out = "none"
  /\ jobs = <<>> /\ batch = <<>> /\ site = "host" /\ ran = FALSE
  /\ closed = FALSE /\ wake = FALSE /\ refs = 0
  /\ flag = FALSE /\ ctxDone = FALSE /\ exit = FALSE /\ realTimers \in Clocks
  /\ timers = <<>> /\ fires = 0 /\ armed = 0 /\ runs = 0
  /\ kind = [o \in Ops |-> "none"] /\ at = [o \in Ops |-> "idle"]
  /\ winner = [o \in Ops |-> <<"none", "good">>]
  /\ answer = [o \in Ops |-> "none"] /\ got = [o \in Ops |-> "none"]
  /\ sig = {}

Goto(p) == pc' = p
Signal == wake' = TRUE
Live(t) == ~t.cancelled
LiveTimers == Kept(timers, {t \in ToSet(timers) : Live(t)})
Due(t) == Live(t) /\ t.left <= 0
(* The timer that is due first; among equals the one armed first. *)
First(i, S) == /\ i \in S
               /\ \A j \in S : \/ timers[i].left < timers[j].left
                               \/ timers[i].left = timers[j].left /\ i <= j
(* nextTimerDeadline: a timer that is reason enough to keep waiting. *)
KeepAlive == \E t \in ToSet(timers) : Live(t) /\ ~t.unref

-----------------------------------------------------------------------------
(* The script, a posted job or a callback, on the Runtime's own goroutine.   *)

Js == pc = "js"
Quiet == UNCHANGED <<jobs, closed, wake, flag, ctxDone, sig>>
SameLoop == UNCHANGED <<ret, call, out, batch, site, ran, fires, runs>>

(* The kinds of host operation: "promise" is NewPromise (a ref, and a         *)
(* goroutine that settles it), "raw" is HostRef with a goroutine that posts  *)
(* its result and drops the ref, "loose" is a goroutine that only posts.     *)
Start(o, k) ==
  /\ kind[o] = "none"
  /\ k = "loose" \/ (Js /\ ~closed)
  /\ kind' = [kind EXCEPT ![o] = k]
  /\ at' = [at EXCEPT ![o] = "going"]
  /\ got' = [got EXCEPT ![o] = "pending"]
  /\ refs' = IF k = "loose" THEN refs ELSE refs + 1
  /\ UNCHANGED <<loopVars, winner, answer>> /\ Quiet

(* scheduleTimer, cancelTimer and UnrefTimer. *)
SetTimer(d, p) ==
  /\ Js /\ Len(timers) < MaxTimers
  /\ Endless \/ armed < MaxArmed
  /\ armed' = IF Endless THEN armed ELSE armed + 1
  /\ timers' = Append(timers, [left |-> d, period |-> p, unref |-> FALSE, cancelled |-> FALSE])
  /\ UNCHANGED <<pc, exit, refs, opVars>> /\ Quiet /\ SameLoop

ClearTimer(i) ==
  /\ Js /\ i \in DOMAIN timers
  /\ timers' = [timers EXCEPT ![i].cancelled = TRUE]
  /\ UNCHANGED <<pc, exit, armed, refs, opVars>> /\ Quiet /\ SameLoop

UnrefTimer(i) ==
  /\ Js /\ i \in DOMAIN timers
  /\ timers' = [timers EXCEPT ![i].unref = ~@]
  /\ UNCHANGED <<pc, exit, armed, refs, opVars>> /\ Quiet /\ SameLoop

Exit ==
  /\ Js /\ "exit" \in Stops
  /\ exit' = TRUE
  /\ UNCHANGED <<pc, timers, armed, refs, opVars>> /\ Quiet /\ SameLoop

JsEnds ==
  /\ Js
  /\ Goto(ret) /\ ret' = "host"
  /\ UNCHANGED <<call, out, batch, site, ran, exit, timers, fires, armed, runs, refs, opVars>> /\ Quiet

(* What the host does between two drives of the loop. *)
HostRunsScript ==
  /\ pc = "host" /\ ~closed /\ runs < MaxRuns
  /\ Goto("js") /\ ret' = "host"
  /\ UNCHANGED <<call, out, batch, site, ran, exit, timers, fires, armed, runs, refs, opVars>> /\ Quiet

ClearInterrupt ==
  /\ pc = "host" /\ flag
  /\ flag' = FALSE
  /\ UNCHANGED <<loopVars, jobs, closed, wake, refs, ctxDone, opVars, sig>>

HostDrives(c) ==
  /\ pc = "host" /\ ~closed /\ runs < MaxRuns
  /\ runs' = runs + 1
  /\ call' = c /\ ctxDone' = FALSE /\ out' = "none"
  /\ Goto(IF realTimers THEN "top" ELSE "vtop")
  /\ UNCHANGED <<ret, batch, site, ran, exit, timers, fires, armed, jobs, closed, wake, refs, flag,
                 opVars, sig>>

-----------------------------------------------------------------------------
(* The goroutine of a host operation. *)

Keep == UNCHANGED <<loopVars, closed, flag, ctxDone, sig>>

(* Post, up to the unlock. *)
Post(o) ==
  IF closed
  THEN /\ answer' = [answer EXCEPT ![o] = "closed"]
       /\ at' = [at EXCEPT ![o] = IF kind[o] = "raw" THEN "unref" ELSE "done"]
       /\ UNCHANGED jobs
  ELSE /\ answer' = [answer EXCEPT ![o] = "nil"]
       /\ at' = [at EXCEPT ![o] = "signal"]
       /\ jobs' = Append(jobs, o)

PostResult(o) ==
  /\ at[o] = "going" /\ kind[o] # "promise"
  /\ Post(o)
  /\ UNCHANGED <<wake, refs, kind, winner, got>> /\ Keep

(* A settle function of NewPromise: the first call wins and posts. *)
Settle(o, s) ==
  /\ at[o] = "going" /\ kind[o] = "promise"
  /\ winner' = [winner EXCEPT ![o] = s]
  /\ Post(o)
  /\ UNCHANGED <<wake, refs, kind, got>> /\ Keep

(* Mutant: Post does not wake the loop. *)
PostSignalNot(o) ==
  /\ at[o] = "signal"
  /\ at' = [at EXCEPT ![o] = IF kind[o] = "raw" THEN "unref" ELSE "done"]
  /\ UNCHANGED <<jobs, wake, refs, kind, winner, answer, got>> /\ Keep

(* The signal at the end of Post. *)
PostSignal(o) ==
  /\ at[o] = "signal"
  /\ Signal
  /\ at' = [at EXCEPT ![o] = IF kind[o] = "raw" THEN "unref" ELSE "done"]
  /\ UNCHANGED <<jobs, refs, kind, winner, answer, got>> /\ Keep

(* Mutant: the last ref goes without a word to the loop. *)
HostUnrefSilent(o) ==
  /\ at[o] = "unref"
  /\ refs' = IF closed THEN refs ELSE refs - 1
  /\ at' = [at EXCEPT ![o] = "done"]
  /\ UNCHANGED <<jobs, wake, kind, winner, answer, got>> /\ Keep

(* HostUnref: the last one wakes the loop.  On a closed Runtime it is lost.   *)
HostUnref(o) ==
  /\ at[o] = "unref"
  /\ refs' = IF closed THEN refs ELSE refs - 1
  /\ at' = [at EXCEPT ![o] = IF ~closed /\ refs - 1 <= 0 THEN "resignal" ELSE "done"]
  /\ UNCHANGED <<jobs, wake, kind, winner, answer, got>> /\ Keep

UnrefSignal(o) ==
  /\ at[o] = "resignal"
  /\ Signal
  /\ at' = [at EXCEPT ![o] = "done"]
  /\ UNCHANGED <<jobs, refs, kind, winner, answer, got>> /\ Keep

-----------------------------------------------------------------------------
(* What stops the loop from outside. *)

Interrupt ==
  /\ "interrupt" \in Stops /\ ~flag /\ ~closed
  /\ flag' = TRUE
  /\ sig' = sig \cup {"interrupt"}
  /\ UNCHANGED <<loopVars, jobs, closed, wake, refs, ctxDone, opVars>>

Cancel ==
  /\ "ctx" \in Stops /\ call = "RunLoop" /\ pc # "host"
  /\ ctxDone' = TRUE
  /\ UNCHANGED <<loopVars, jobs, closed, wake, refs, flag, opVars, sig>>

(* Close: the queue is closed and emptied, and the loop is woken. *)
Close ==
  /\ "close" \in Stops /\ ~closed
  /\ closed' = TRUE /\ jobs' = <<>>
  /\ sig' = sig \cup {"close"}
  /\ UNCHANGED <<loopVars, wake, refs, flag, ctxDone, opVars>>

(* Mutant: an interrupt only raises the flag. *)
OutsideSignalNot(s) ==
  /\ s \in sig
  /\ sig' = sig \ {s}
  /\ UNCHANGED <<loopVars, jobs, closed, wake, refs, flag, ctxDone, opVars>>

(* The signal at the end of Interrupt and CloseHost. *)
OutsideSignal(s) ==
  /\ s \in sig
  /\ Signal
  /\ sig' = sig \ {s}
  /\ UNCHANGED <<loopVars, jobs, closed, refs, flag, ctxDone, opVars>>

(* Time passes, for every timer that has not been cleared. *)
Tick ==
  /\ realTimers
  /\ \E t \in ToSet(timers) : Live(t)
  /\ \A t \in ToSet(timers) : Live(t) => t.left > -MaxLate
  /\ timers' = [i \in DOMAIN timers |->
                  IF Live(timers[i]) THEN [timers[i] EXCEPT !.left = @ - 1] ELSE timers[i]]
  /\ UNCHANGED <<pc, ret, call, out, batch, site, ran, exit, fires, armed, runs, refs, opVars>>
  /\ Quiet

-----------------------------------------------------------------------------
(* runExternalJobs, called from each of its sites. *)

TakeJobs(here) ==
  /\ pc = here
  /\ batch' = jobs /\ jobs' = <<>>
  /\ ran' = (jobs # <<>>) /\ site' = here
  /\ Goto("batch")
  /\ UNCHANGED <<ret, call, out, exit, timers, fires, armed, runs, closed, wake, refs, flag,
                 ctxDone, opVars, sig>>

(* What the job of an operation does before any script of it runs: the job   *)
(* of NewPromise converts the value, settles the promise and drops the ref.  *)
Outcome(o) == CASE kind[o] # "promise" -> "run"
                [] winner[o] = <<"resolve", "good">> -> "fulfilled"
                [] OTHER -> "rejected"

(* Mutant: a value that does not convert leaves the ref behind. *)
DeliverKeepsRef(o) ==
  /\ got' = [got EXCEPT ![o] = Outcome(o)]
  /\ winner' = [winner EXCEPT ![o] = <<"none", "good">>]
  /\ refs' = IF kind[o] = "promise" /\ winner[o][2] = "good" THEN refs - 1 ELSE refs
  /\ wake' = (wake \/ (kind[o] = "promise" /\ refs - 1 <= 0))

Deliver(o) ==
  /\ got' = [got EXCEPT ![o] = Outcome(o)]
  /\ winner' = [winner EXCEPT ![o] = <<"none", "good">>]
  /\ refs' = IF kind[o] = "promise" THEN refs - 1 ELSE refs
  /\ wake' = (wake \/ (kind[o] = "promise" /\ refs - 1 <= 0))

RunJob ==
  /\ pc = "batch" /\ batch # <<>> /\ ~exit
  /\ Deliver(Head(batch))
  /\ batch' = Tail(batch)
  /\ Goto("js") /\ ret' = "batch"
  /\ UNCHANGED <<call, out, site, ran, exit, timers, fires, armed, runs, jobs, closed, flag,
                 ctxDone, kind, at, answer, sig>>

(* The end of the batch, or process.exit in the middle of it. *)
BatchEnds ==
  /\ pc = "batch" /\ (batch = <<>> \/ exit)
  /\ batch' = <<>> /\ site' = "host" /\ ran' = FALSE
  /\ Goto(CASE site = "take" -> "checked"
             [] site = "fired" -> "fire"
             [] site \in {"vtop", "vlast"} /\ ran -> "vtop"
             [] site = "vtop" /\ ~ran -> "vpick"
             [] site = "vlast" /\ ~ran -> "left")
  /\ fires' = IF site \in {"vtop", "vlast"} /\ ran THEN fires + 1 ELSE fires
  /\ UNCHANGED <<ret, call, out, exit, timers, armed, runs, refs, opVars>> /\ Quiet

-----------------------------------------------------------------------------
(* runRealEventLoop. *)

Step(here, there) ==
  /\ pc = here /\ Goto(there)
  /\ UNCHANGED <<ret, call, out, batch, site, ran, exit, timers, fires, armed, runs, refs, opVars>>
  /\ Quiet

Stopped == exit \/ flag
Cancelled == call = "RunLoop" /\ ctxDone

Top == Step("top", IF Stopped \/ Cancelled THEN "left" ELSE "take")
Checked == Step("checked", IF Stopped THEN "left" ELSE "fire")

(* The rest of the timer when it fires: gone, or armed again from when it was *)
(* due, but not for a moment that has passed.                                *)
Rearmed(t) ==
  LET d == t.left + t.period
  IN [t EXCEPT !.left = IF realTimers /\ d <= 0 THEN t.period ELSE d]

TakeTimer(i) ==
  timers' = IF timers[i].period > 0 THEN Append(RemoveAt(timers, i), Rearmed(timers[i]))
            ELSE RemoveAt(timers, i)

(* fireDueTimers: one timer, its microtasks, and then the posted jobs. *)
FireDue(i) ==
  /\ pc = "fire" /\ ~Stopped
  /\ First(i, {j \in DOMAIN timers : Due(timers[j])})
  /\ TakeTimer(i)
  /\ Goto("js") /\ ret' = "fired"
  /\ fires' = 1
  /\ UNCHANGED <<call, out, batch, site, ran, exit, armed, runs, refs, opVars>> /\ Quiet

FireEnds ==
  /\ pc = "fire"
  /\ \/ Stopped /\ UNCHANGED timers
     \/ /\ ~Stopped /\ ~\E t \in ToSet(timers) : Due(t)
        /\ timers' = LiveTimers
  /\ Goto(IF fires > 0 THEN "top" ELSE "idle")
  /\ fires' = 0
  /\ UNCHANGED <<ret, call, out, batch, site, ran, exit, armed, runs, refs, opVars>> /\ Quiet

(* Mutant: the queue is read before the ref count. *)
HostPendingQueueFirst(look) == IF look = 1 THEN jobs # <<>> ELSE refs > 0

(* Mutant: only the ref count is looked at. *)
HostPendingRefsOnly(look) == look = 1 /\ refs > 0

(* HostPending reads the ref count, and then the queue. *)
HostPending(look) == IF look = 1 THEN refs > 0 ELSE jobs # <<>>

Idle == Step("idle", IF KeepAlive \/ HostPending(1) THEN "sleep" ELSE "idleJobs")
IdleJobs == Step("idleJobs", IF HostPending(2) THEN "sleep" ELSE "left")

(* waitForWork. *)
Wake(here, there) ==
  /\ pc = here /\ Goto(there)
  /\ \/ wake /\ wake' = FALSE
     \/ Cancelled /\ UNCHANGED wake
     \/ here = "sleep" /\ (\E t \in ToSet(timers) : Due(t)) /\ UNCHANGED wake
  /\ fires' = 0
  /\ UNCHANGED <<ret, call, out, batch, site, ran, exit, timers, armed, runs, refs, opVars,
                 jobs, closed, flag, ctxDone, sig>>

-----------------------------------------------------------------------------
(* The virtual clock of runEventLoop. *)

VEnds == fires >= MaxMacrotasks /\ Step("vtop", "left")
VTop == fires < MaxMacrotasks /\ TakeJobs("vtop")
VIdle == (\A t \in ToSet(timers) : ~Live(t)) /\ Step("vpick", "vlast")
VFire(i) ==
  /\ pc = "vpick"
  /\ First(i, {j \in DOMAIN timers : Live(timers[j])})
  /\ TakeTimer(i)
  /\ IF exit THEN Goto("left") /\ UNCHANGED ret ELSE Goto("js") /\ ret' = "vtop"
  /\ fires' = fires + 1
  /\ UNCHANGED <<call, out, batch, site, ran, exit, armed, runs, refs, opVars>> /\ Quiet

-----------------------------------------------------------------------------
(* RunLoop around the loop. *)

Return(res) ==
  /\ Goto("host") /\ out' = res
  /\ call' = "none" /\ fires' = 0
  /\ UNCHANGED <<ret, batch, site, ran, exit, timers, armed, runs, refs, opVars>> /\ Quiet

JobsReturn == pc = "left" /\ call = "RunJobs" /\ Return("nil")
Left == call = "RunLoop" /\ Step("left", IF Stopped \/ Cancelled THEN "done" ELSE "pend")

Pend == Step("pend", IF HostPending(1) THEN "wait" ELSE "pendJobs")
PendJobs ==
  \/ HostPending(2) /\ Step("pendJobs", "wait")
  \/ ~HostPending(2) /\ pc = "pendJobs" /\ Return("nil")

Done == pc = "done" /\ Return(IF ctxDone THEN "ctx" ELSE IF flag THEN "terminated" ELSE "nil")

-----------------------------------------------------------------------------
(* What a script decides to do, against what it must do next. *)
Script ==
  \/ \E o \in Ops, k \in Kinds \ {"loose"} : Start(o, k)
  \/ \E d \in Delays, p \in Periods : SetTimer(d, p)
  \/ \E i \in 1..MaxTimers : ClearTimer(i) \/ UnrefTimer(i)
  \/ Exit

Host == HostRunsScript \/ ClearInterrupt \/ \E c \in Calls : HostDrives(c)

Loop ==
  \/ JsEnds
  \/ \E here \in {"take", "fired", "vlast"} : TakeJobs(here)
  \/ RunJob \/ BatchEnds
  \/ Top \/ Checked \/ FireEnds \/ Idle \/ IdleJobs
  \/ Wake("sleep", "top") \/ Wake("wait", IF realTimers THEN "top" ELSE "vtop")
  \/ \E i \in 1..MaxTimers : FireDue(i) \/ VFire(i)
  \/ VTop \/ VEnds \/ VIdle
  \/ JobsReturn \/ Left \/ Pend \/ PendJobs \/ Done

Operation(o) ==
  \/ PostResult(o) \/ PostSignal(o) \/ HostUnref(o) \/ UnrefSignal(o)
  \/ \E s \in Settlements : Settle(o, s)

Outside == \E s \in {"interrupt", "close"} : OutsideSignal(s)

Next ==
  /\ \/ Script \/ Host \/ Loop \/ Outside \/ Tick
     \/ \E o \in Ops : Operation(o) \/ ("loose" \in Kinds /\ Start(o, "loose"))
     \/ Interrupt \/ Cancel \/ Close
  /\ UNCHANGED realTimers

Spec == Init /\ [][Next]_vars

(* Scripts return, the loop's goroutine is scheduled, time passes, and a call *)
(* of Post, HostUnref or Interrupt that has begun ends.                      *)
FairLoop == /\ Spec /\ WF_moving(Loop) /\ WF_moving(Tick) /\ WF_moving(Outside)
            /\ \A o \in Ops : WF_moving(PostSignal(o) \/ UnrefSignal(o))

-----------------------------------------------------------------------------
SignalComing == sig # {} \/ \E o \in Ops : at[o] \in {"signal", "resignal"}

(* A loop that sleeps has a reason to: with no signal in the channel and none *)
(* on its way there is no posted job, no interrupt, and either a host        *)
(* operation is in flight or a timer that keeps the loop alive is armed      *)
(* (Post, HostUnref, Interrupt and CloseHost against waitForWork).           *)
NoLostWakeup ==
  pc \in {"sleep", "wait"} /\ ~wake /\ ~SignalComing
  => /\ jobs = <<>> /\ ~flag
     /\ refs > 0 \/ (pc = "sleep" /\ KeepAlive)

(* A job that Post accepted is in exactly one place until it has run: in the *)
(* queue or in the batch the loop is working on.  Only Close and exit drop   *)
(* one, and none runs twice.                                                 *)
AcceptedRunsOnce ==
  \A o \in Ops :
    LET waiting == {i \in DOMAIN (batch \o jobs) : (batch \o jobs)[i] = o}
    IN /\ Cardinality(waiting) <= 1
       /\ answer[o] = "nil" /\ ~closed /\ ~exit
          => (waiting = {} <=> got[o] \notin {"none", "pending"})

(* The ref count is the number of operations that have not delivered: an     *)
(* unsettled promise, or a raw operation that has not dropped its ref.       *)
RefsBalanced ==
  LET owes(o) == \/ kind[o] = "promise" /\ got[o] = "pending"
                 \/ kind[o] = "raw" /\ at[o] \in {"going", "signal", "unref"}
  IN ~closed => refs = Cardinality({o \in Ops : owes(o)})

(* RunLoop answers nil only when nothing more can happen: each operation a   *)
(* script waits for has delivered, and under the wall clock no timer that    *)
(* keeps the loop alive is left (RunLoop, HostPending).                      *)
NothingLeftBehind ==
  [][call = "RunLoop" /\ pc' = "host" /\ out' = "nil" /\ ~exit /\ ~closed
     => /\ \A o \in Ops : kind[o] \in {"promise", "raw"} => got[o] # "pending"
        /\ realTimers => ~KeepAlive]_vars

(* The loop returns when every operation delivers, as HostRef requires, and  *)
(* the timers come to an end: nobody sleeps through the last answer.         *)
LoopTerminates ==
  (\A o \in Ops : WF_moving(Operation(o))) /\ <>[](LiveTimers = <<>>)
  => (pc # "host" ~> pc = "host")

(* An interrupt ends the loop, also one asleep or busy with timers that arm  *)
(* each other.                                                               *)
InterruptStopsLoop == (flag /\ pc # "host") ~> pc = "host"

(* Every accepted job runs while the loop does. *)
JobsRun == \A o \in Ops : (answer[o] = "nil" /\ got[o] = "pending" /\ pc # "host")
                          ~> (got[o] # "pending" \/ closed \/ exit \/ pc = "host")
(* Every operation is accounted for exactly once: what Post accepted runs    *)
(* once, and its ref is held until it has delivered and no longer (Post,     *)
(* HostRef, HostUnref, NewPromise).                                          *)
OpsAreExact == TypeOK /\ AcceptedRunsOnce /\ RefsBalanced
=============================================================================
