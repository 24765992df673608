-------------------------------- MODULE Pool --------------------------------
(***************************************************************************)
(* The pool of Runtimes (scope.go) with the watchers of WithContext and    *)
(* the interrupt flag (goant.go).                                          *)
(*                                                                         *)
(* A job is one call of Pool.Do on its own goroutine.  A step is a section *)
(* under the pool's mutex, or an access to a Runtime that the watcher of   *)
(* this job, or of an earlier one, also makes.                             *)
(***************************************************************************)
EXTENDS Integers, Sequences, SequencesExt, FiniteSets

CONSTANTS Jobs,       \* calls of Do
          Runtimes,   \* the Runtimes that may be built
          NoRt,       \* not a Runtime
          MaxUses,    \* PoolConfig.MaxUses, 0 for no limit
          MaxIdle,    \* PoolConfig.MaxIdle, 0 for no cap
          Fates       \* how a job may end, see Job

ASSUME PoolAssumption ==
  /\ IsFiniteSet(Jobs) /\ NoRt \notin Runtimes
  /\ MaxUses \in Nat /\ MaxIdle \in Nat
  /\ Fates \subseteq {"ok", "error", "pollutes", "memory", "panic"}

VARIABLES
  free,      \* Pool.free
  closed,    \* Pool.closed
  live,      \* Pool.live
  closing,   \* Runtimes Pool.Close has taken and not yet closed
  made,      \* Runtimes that were built
  uses,      \* leased.uses
  flag,      \* the interrupt flag of each Runtime
  dirty,     \* a script has modified what the next one would inherit
  gone,      \* Runtimes that were closed
  pc,        \* where each Do is
  rt,        \* its Runtime, also after Do has returned
  fate,      \* what its script did
  reusable,  \* the local of that name
  err,       \* what Do returned
  ctx,       \* its context is done
  watch      \* its watcher: "off", "on", "stopped" once stop was called, "firing"

jobVars == <<pc, rt, fate, reusable, err>>
poolVars == <<free, closed, live, closing, made>>
rtVars == <<uses, flag, dirty, gone>>
vars == <<poolVars, rtVars, jobVars, ctx, watch>>

Points == {"new", "acquire", "clear", "build", "lease", "scope", "run", "after", "decide",
           "unwind", "finish", "close", "returned"}
Ends == {"none", "interrupted"} \cup Fates

TypeOK ==
  /\ free \in Seq(Runtimes) /\ closed \in BOOLEAN /\ live \in Int
  /\ closing \subseteq Runtimes /\ made \subseteq Runtimes
  /\ uses \in [Runtimes -> Nat] /\ (MaxUses > 0 => \A r \in Runtimes : uses[r] <= MaxUses)
  /\ flag \in [Runtimes -> BOOLEAN] /\ dirty \in [Runtimes -> BOOLEAN]
  /\ gone \subseteq Runtimes
  /\ pc \in [Jobs -> Points] /\ rt \in [Jobs -> Runtimes \cup {NoRt}]
  /\ fate \in [Jobs -> Ends] /\ reusable \in [Jobs -> BOOLEAN]
  /\ err \in [Jobs -> {"none", "nil", "job", "ctx", "closed", "build"}]
  /\ ctx \in [Jobs -> BOOLEAN] /\ watch \in [Jobs -> {"off", "on", "stopped", "firing"}]

Init ==
  /\ free = <<>> /\ closed = FALSE /\ live = 0 /\ closing = {} /\ made = {}
  /\ uses = [r \in Runtimes |-> 0]
  /\ flag = [r \in Runtimes |-> FALSE] /\ dirty = [r \in Runtimes |-> FALSE]
  /\ gone = {}
  /\ pc = [j \in Jobs |-> "new"] /\ rt = [j \in Jobs |-> NoRt]
  /\ fate = [j \in Jobs |-> "none"] /\ reusable = [j \in Jobs |-> FALSE]
  /\ err = [j \in Jobs |-> "none"]
  /\ ctx = [j \in Jobs |-> FALSE] /\ watch = [j \in Jobs |-> "off"]

At(j, p) == pc[j] = p
Goto(j, p) == pc' = [pc EXCEPT ![j] = p]
Fails(j, e) == err' = [err EXCEPT ![j] = e]

-----------------------------------------------------------------------------
(* Do, up to the script. *)

Begin(j) ==
  /\ At(j, "new")
  /\ IF ctx[j] THEN Goto(j, "returned") /\ Fails(j, "ctx")
     ELSE Goto(j, "acquire") /\ UNCHANGED err
  /\ UNCHANGED <<poolVars, rtVars, rt, fate, reusable, ctx, watch>>

AcquireClosed(j) ==
  /\ At(j, "acquire") /\ closed
  /\ Goto(j, "returned") /\ Fails(j, "closed")
  /\ UNCHANGED <<poolVars, rtVars, rt, fate, reusable, ctx, watch>>

(* Mutant: the Runtime is read, and taken off the list in another section.   *)
AcquireParkedPeek(j) ==
  /\ At(j, "acquire") /\ ~closed /\ free # <<>>
  /\ rt' = [rt EXCEPT ![j] = Last(free)]
  /\ Goto(j, "clear")
  /\ UNCHANGED <<poolVars, rtVars, fate, reusable, err, ctx, watch>>

AcquireParked(j) ==
  /\ At(j, "acquire") /\ ~closed /\ free # <<>>
  /\ rt' = [rt EXCEPT ![j] = Last(free)]
  /\ free' = Front(free)
  /\ Goto(j, "clear")
  /\ UNCHANGED <<closed, live, closing, made, rtVars, fate, reusable, err, ctx, watch>>

(* ClearInterrupt, after the unlock. *)
AcquireClear(j) ==
  /\ At(j, "clear")
  /\ flag' = [flag EXCEPT ![rt[j]] = FALSE]
  /\ Goto(j, "lease")
  /\ UNCHANGED <<poolVars, uses, dirty, gone, rt, fate, reusable, err, ctx, watch>>

AcquireNew(j) ==
  /\ At(j, "acquire") /\ ~closed /\ free = <<>>
  /\ live' = live + 1
  /\ Goto(j, "build")
  /\ UNCHANGED <<free, closed, closing, made, rtVars, rt, fate, reusable, err, ctx, watch>>

Build(j, r) ==
  /\ At(j, "build") /\ r \in Runtimes \ made
  /\ made' = made \cup {r}
  /\ rt' = [rt EXCEPT ![j] = r]
  /\ Goto(j, "lease")
  /\ UNCHANGED <<free, closed, live, closing, rtVars, fate, reusable, err, ctx, watch>>

(* Mutant: a build that failed is still counted. *)
BuildFailsCounted(j) ==
  /\ At(j, "build")
  /\ Goto(j, "returned") /\ Fails(j, "build")
  /\ UNCHANGED <<poolVars, rtVars, rt, fate, reusable, ctx, watch>>

BuildFails(j) ==
  /\ At(j, "build")
  /\ live' = live - 1
  /\ Goto(j, "returned") /\ Fails(j, "build")
  /\ UNCHANGED <<free, closed, closing, made, rtVars, rt, fate, reusable, ctx, watch>>

(* WithContext. *)
Watch(j) ==
  /\ At(j, "lease")
  /\ watch' = [watch EXCEPT ![j] = "on"]
  /\ Goto(j, "scope")
  /\ UNCHANGED <<poolVars, rtVars, rt, fate, reusable, err, ctx>>

(* NewScope fails on a closed Runtime. *)
NewScope(j) ==
  /\ At(j, "scope")
  /\ IF rt[j] \in gone THEN Goto(j, "unwind") /\ Fails(j, "job")
     ELSE Goto(j, "run") /\ UNCHANGED err
  /\ UNCHANGED <<poolVars, rtVars, rt, fate, reusable, ctx, watch>>

-----------------------------------------------------------------------------
(* The job's script, and what Do makes of its end. *)

(* fn ends by itself, with or without an error, and the scope is closed; a   *)
(* panic unwinds past everything else.  "pollutes" is any end of a job that  *)
(* wrote to state older than its scope and did not stop for another reason.  *)
Job(j, f) ==
  /\ At(j, "run") /\ f \in Fates
  /\ fate' = [fate EXCEPT ![j] = f]
  /\ dirty' = [dirty EXCEPT ![rt[j]] = @ \/ f = "pollutes"]
  /\ Goto(j, IF f = "panic" THEN "unwind" ELSE "after")
  /\ UNCHANGED <<poolVars, uses, flag, gone, rt, reusable, err, ctx, watch>>

(* A script that reaches a safepoint while the flag is up stops there. *)
JobStops(j) ==
  /\ At(j, "run") /\ flag[rt[j]]
  /\ fate' = [fate EXCEPT ![j] = "interrupted"]
  /\ Goto(j, "after")
  /\ UNCHANGED <<poolVars, rtVars, rt, reusable, err, ctx, watch>>

(* The caller's deadline is the reason, whatever the script reported. *)
AfterJob(j) ==
  /\ At(j, "after")
  /\ IF ctx[j] THEN Goto(j, "unwind") /\ Fails(j, "ctx")
     ELSE Goto(j, "decide") /\ UNCHANGED err
  /\ UNCHANGED <<poolVars, rtVars, rt, fate, reusable, ctx, watch>>

(* Mutant: a script that ran out of memory leaves its Runtime in the pool.   *)
DecideForgives(j) ==
  /\ At(j, "decide")
  /\ reusable' = [reusable EXCEPT ![j] =
       fate[j] # "pollutes" /\ ~flag[rt[j]] /\ fate[j] # "interrupted"]
  /\ Fails(j, IF fate[j] \in {"ok", "pollutes"} THEN "nil" ELSE "job")
  /\ Goto(j, "unwind")
  /\ UNCHANGED <<poolVars, rtVars, rt, fate, ctx, watch>>

Decide(j) ==
  /\ At(j, "decide")
  /\ reusable' = [reusable EXCEPT ![j] =
       fate[j] # "pollutes" /\ ~flag[rt[j]] /\ fate[j] \notin {"memory", "interrupted"}]
  /\ Fails(j, IF fate[j] \in {"ok", "pollutes"} THEN "nil" ELSE "job")
  /\ Goto(j, "unwind")
  /\ UNCHANGED <<poolVars, rtVars, rt, fate, ctx, watch>>

(* The deferred stop closes done. *)
Stop(j) ==
  /\ At(j, "unwind")
  /\ watch' = [watch EXCEPT ![j] = IF @ = "on" THEN "stopped" ELSE @]
  /\ Goto(j, "finish")
  /\ UNCHANGED <<poolVars, rtVars, rt, fate, reusable, err, ctx>>

(* The deferred end of Do: uses is counted and the Runtime is retired or     *)
(* parked.  big is shouldRetire's answer about MaxMemory.                    *)
Worn(j, big) == big \/ (MaxUses > 0 /\ uses[rt[j]] + 1 >= MaxUses)
Full == closed \/ (MaxIdle > 0 /\ Len(free) >= MaxIdle)

Park(j, big) ==
  /\ At(j, "finish")
  /\ reusable[j] /\ ~Worn(j, big) /\ ~Full
  /\ uses' = [uses EXCEPT ![rt[j]] = @ + 1]
  /\ free' = Append(free, rt[j])
  /\ Goto(j, "returned")
  /\ UNCHANGED <<closed, live, closing, made, flag, dirty, gone, rt, fate, reusable, err, ctx, watch>>

Retire(j, big) ==
  /\ At(j, "finish")
  /\ ~reusable[j] \/ Worn(j, big) \/ Full
  /\ uses' = [uses EXCEPT ![rt[j]] = @ + 1]
  /\ live' = live - 1
  /\ Goto(j, "close")
  /\ UNCHANGED <<free, closed, closing, made, flag, dirty, gone, rt, fate, reusable, err, ctx, watch>>

CloseRuntime(j) ==
  /\ At(j, "close")
  /\ gone' = gone \cup {rt[j]}
  /\ Goto(j, "returned")
  /\ UNCHANGED <<poolVars, uses, flag, dirty, rt, fate, reusable, err, ctx, watch>>

-----------------------------------------------------------------------------
(* The caller's contexts, their watchers and Pool.Close. *)

Cancel(j) ==
  /\ ~ctx[j]
  /\ ctx' = [ctx EXCEPT ![j] = TRUE]
  /\ UNCHANGED <<poolVars, rtVars, jobVars, watch>>

(* The select of the watcher: when both channels are closed it takes either. *)
WatcherFires(j) ==
  /\ watch[j] \in {"on", "stopped"} /\ ctx[j]
  /\ watch' = [watch EXCEPT ![j] = "firing"]
  /\ UNCHANGED <<poolVars, rtVars, jobVars, ctx>>

WatcherEnds(j) ==
  /\ watch[j] = "stopped"
  /\ watch' = [watch EXCEPT ![j] = "off"]
  /\ UNCHANGED <<poolVars, rtVars, jobVars, ctx>>

(* Mutant: the watcher only ends. *)
WatcherInterruptsNot(j) ==
  /\ watch[j] = "firing"
  /\ watch' = [watch EXCEPT ![j] = "off"]
  /\ UNCHANGED <<poolVars, rtVars, jobVars, ctx>>

(* Interrupt; a Runtime that was closed is left alone. *)
WatcherInterrupts(j) ==
  /\ watch[j] = "firing"
  /\ watch' = [watch EXCEPT ![j] = "off"]
  /\ flag' = [flag EXCEPT ![rt[j]] = @ \/ rt[j] \notin gone]
  /\ UNCHANGED <<poolVars, uses, dirty, gone, jobVars, ctx>>

PoolClose ==
  /\ ~closed
  /\ closed' = TRUE
  /\ closing' = closing \cup ToSet(free)
  /\ free' = <<>>
  /\ UNCHANGED <<live, made, rtVars, jobVars, ctx, watch>>

CloseParked(r) ==
  /\ r \in closing
  /\ closing' = closing \ {r}
  /\ gone' = gone \cup {r}
  /\ UNCHANGED <<free, closed, live, made, uses, flag, dirty, jobVars, ctx, watch>>

-----------------------------------------------------------------------------
Do(j) ==
  \/ Begin(j)
  \/ AcquireClosed(j) \/ AcquireParked(j) \/ AcquireClear(j) \/ AcquireNew(j)
  \/ (\E r \in Runtimes : Build(j, r)) \/ BuildFails(j)
  \/ Watch(j) \/ NewScope(j) \/ JobStops(j) \/ AfterJob(j) \/ Decide(j)
  \/ Stop(j) \/ CloseRuntime(j)
  \/ \E big \in BOOLEAN : Park(j, big) \/ Retire(j, big)

Watcher(j) == WatcherFires(j) \/ WatcherEnds(j) \/ WatcherInterrupts(j)

Next ==
  \/ PoolClose \/ \E r \in Runtimes : CloseParked(r)
  \/ \E j \in Jobs : Do(j) \/ Watcher(j) \/ Cancel(j) \/ \E f \in Fates : Job(j, f)

Spec == Init /\ [][Next]_vars
(* Goroutines are scheduled; a script need not end unless it is interrupted. *)
FairSpec == Spec /\ \A j \in Jobs : WF_vars(Do(j)) /\ WF_vars(Watcher(j))

-----------------------------------------------------------------------------
(* Do has a Runtime and has not given it back. *)
Leases(j) == pc[j] \in {"clear", "lease", "scope", "run", "after", "decide", "unwind", "finish"}
(* Do counts in live: it holds a Runtime or is building one. *)
Counts(j) == Leases(j) \/ At(j, "build")

(* Jobs never share a Runtime: each has its own from acquire until it gives  *)
(* it back, and none that is parked, whatever the order of Do, Close and the *)
(* retirements (Pool: "Each job gets its own Runtime for its duration").     *)
LeasesAreExclusive ==
  /\ \A i, j \in Jobs : Leases(i) /\ Leases(j) /\ rt[i] = rt[j] => i = j
  /\ \A j \in Jobs : Leases(j) => rt[j] \notin ToSet(free)
  /\ \A m, n \in DOMAIN free : free[m] = free[n] => m = n

(* A Runtime that is leased or parked is open: neither Pool.Close nor a      *)
(* retirement closes one that a job has or will get.                         *)
LeasedIsOpen ==
  \A j \in Jobs : Leases(j) => rt[j] \notin gone /\ rt[j] \notin closing

(* What is parked is fit for the next job: clean, open, not used up, within  *)
(* MaxIdle, and nothing at all once the pool is closed (release).            *)
ParkedIsFit ==
  /\ \A r \in ToSet(free) : /\ ~dirty[r] /\ r \notin gone
                            /\ MaxUses > 0 => uses[r] < MaxUses
  /\ MaxIdle > 0 => Len(free) <= MaxIdle
  /\ closed => free = <<>>

(* A Runtime whose script panicked, ran out of memory, was interrupted or    *)
(* whose deadline passed never runs another job (Do, "retired rather than    *)
(* reused").                                                                 *)
Abandons(j) ==
  /\ rt[j] # NoRt /\ At(j, "returned")
  /\ err[j] = "ctx" \/ fate[j] \in {"panic", "memory", "interrupted", "pollutes"}
AbandonedNeverReused ==
  \A j \in Jobs : Abandons(j) => /\ rt[j] \notin ToSet(free)
                                 /\ \A i \in Jobs : Leases(i) => rt[i] # rt[j]

(* live is what exists: the parked Runtimes, the leased ones and the ones    *)
(* being built, as long as the pool is open (Pool.live, PoolStats).          *)
LiveIsExact == ~closed => live = Len(free) + Cardinality({j \in Jobs : Counts(j)})

(* A job whose context is done comes back: the watcher stops its script even *)
(* if the script would never end.                                            *)
CancelledReturns == \A j \in Jobs : (ctx[j] /\ pc[j] = "run") ~> At(j, "returned")
(* A job has its Runtime for itself and for as long as it runs: nobody else  *)
(* leases it, parks it or closes it (acquire, release, discard, Close).      *)
LeasesAreSound == LeasesAreExclusive /\ LeasedIsOpen

(* The next job gets a Runtime that is fit: what went bad is never parked or *)
(* leased again, and what is parked is clean, open and within the limits     *)
(* (Do, shouldRetire, release).                                              *)
ReuseIsSound == ParkedIsFit /\ AbandonedNeverReused
=============================================================================
