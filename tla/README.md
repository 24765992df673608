# TLA+ models of goant

goant is a JavaScript engine in Go that a Go program embeds. Most of it (lexer, compiler, built-ins) is a
function of its input with a large conformance suite. This directory is about the rest: what several
goroutines do to one Runtime or one cluster, what is kept from one call of the host to the next, and the
state machines inside the engine whose steps scripts put in an order of their own. Those are the parts where
a test sees one schedule out of thousands.

Nine components are modelled, all of them checked with TLC and seven of them proved about with TLAPS:

| component | code | modules |
|---|---|---|
| agent turn-taking | `internal/engine/agent.go`, `interrupt.go` | `TurnSpec`, `AgentTurn`, `AgentTurnProofs` |
| Atomics.wait, waitAsync, notify | `agent.go`, `builtin_atomics_ops.go` | `AtomicsWait`, `MCAtomicsWait`, `AtomicsWaitProofs` |
| host loop and host promises | `internal/engine/hostloop.go`, `builtin_promise.go`, `host.go` | `HostLoop`, `MCHostLoop`, `HostLoopProofs` |
| Runtime pool | `scope.go`, `goant.go` | `Pool`, `MCPool`, `PoolProofs` |
| invocation regions and the object pool | `internal/engine/invocation.go`, `invocation_dirty.go`, `pools.go` | `Invocation`, `InvocationProofs` |
| shapes and inline caches | `internal/engine/shapes.go`, `object.go`, `propcache.go` | `InlineCache`, `MCInlineCache`, `InlineCacheProofs` |
| module evaluation | `internal/engine/module.go`, `module_defer.go` | `ModuleEval` |
| promise jobs and combinators | `internal/engine/builtin_promise.go`, `collect.go` | `PromiseJobs`, `MCPromiseJobs`, `PromiseJobProofs` |
| generators and async functions | `internal/engine/generator.go`, `builtin_asynciterator.go` | `Coroutines`, `CoroutineProofs` |

`Subsequences` defines what a loop that compacts a slice in place leaves of it; wait lists and timers are compacted so.

`PROJECT.json` maps every definition to the lines it models, and lists runs, theorems, findings and hazards.


## 1. Inventory

### Agent turn-taking
*State.* One `agentCluster` per group of Runtimes that share memory: `held`, a FIFO `queue` of ticket
channels with `queued` as its length for readers without the lock, `holder`, and in each Runtime an atomic
interrupt flag that also carries requests to yield.
*Operations.* `join`, `takeTurn`, `claim`, `giveTurn`, `pause`, `yieldTurn`, `requestYield`, `Interrupt`,
`ClearInterrupt`, `agentStart`.
*Interaction.* Every Atomics.wait, sleep and receive pauses; safepoints of the interpreter look at the flag.
*Hard.* `holder` and `queued` are read outside the lock; a hand-over takes three steps (holder cleared, queue
popped, ticket closed) between which other agents join; one flag carries two meanings.
*Correct when.* One agent runs at a time; no agent is dropped; an agent that spins is told that others wait;
turns are served in order; each agent gets one.

### Atomics.wait, waitAsync, notify
*State.* The cluster's wait list, per entry a wake channel and a deadline, and per agent the list of
outstanding `waitAsync` promises. *Operations.* `atomicsWaitCheck`, `atomicsPark`, `parkAsync`,
`atomicsWake`, `settleReadyAsyncWaits`, `serviceAsyncWaits`, `finishAsyncWait`.
*Interaction.* Uses the turn; the event loop of each agent settles its asynchronous waits beside its timers.
*Hard.* A timer races a notify; JavaScript may run between the comparison and the entry on the list; an agent's loop may end by
running out of work, by `process.exit` or at the cap on its turns.
*Correct when.* No wakeup is lost, the answer agrees with notify's count, waiters are woken in order, waits end, and an entry outlives
its agent only if the agent's loop was cut short.

### Host loop and host promises
*State.* `hostQueue` (jobs, closed, a wake channel of capacity one, refs), the timer list, the interrupt flag,
the context, the exit code. *Operations.* `Post`, `HostRef`, `HostUnref`, `NewPromise` with its settle
functions, `RunLoop`, `RunJobs`, timers, `Interrupt`, `ClearInterrupt`, `Close`.
*Interaction.* Any goroutine posts; one goroutine owns the Runtime and drives the loop.
*Hard.* `HostPending` reads two things in two steps; the wake channel holds one value for many senders; the loop
can be stopped at any step; timers feed the loop for ever.
*Correct when.* A sleeping loop has a reason to, an accepted job runs once, refs count what is outstanding,
RunLoop answers nil only when nothing is left, and it returns.

### Runtime pool
*State.* `free`, `closed`, `live`, per Runtime its uses, interrupt flag and heap; per job a watcher goroutine.
*Operations.* `Do` (acquire, New, WithContext, NewScope, the job, release or discard), `Close`, `Stats`.
*Interaction.* The watcher of a job interrupts a Runtime the job may have given back; each job runs in an
invocation. *Hard.* `Close` and cancellation at any step, stale reads of the flag and the context.
*Correct when.* No Runtime is shared, reused after it went bad, parked unfit or closed under a job.

### Invocation regions and the object pool
*State.* The object pool's `next`, free list, `liveN`, the `born` marks and the `reborn` list; the watermark,
`invDirty`, the global and the global lexical bindings. *Operations.* `alloc`, `free`, `truncate`, sweep,
`BeginInvocation`, `End`, `Release`, `noteSharedMutation`, collection.
*Interaction.* A scope is an invocation; a pool's job is released when its scope closes; timers and
microtasks outlive both. *Hard.* `Release` frees a whole region without a collection, on the strength of a
comparison of handles that recycled cells below the watermark and stores outside the property paths get past.
*Correct when.* No cell is handed out twice; a run is dirty exactly if it wrote to something older; a clean
run's region is unreachable; nothing reachable is freed.

### Shapes and inline caches
*State.* The transition tree of shapes with reference counts, an object's shape (shared, or private and edited in
place), prototype, extensibility; per property opcode a cache of eight ways that remember a shape, a holder, a slot or
the shape a store led to; a global epoch that retires them. *Operations.* Definition, deletion, redefinition and
freezing of properties, `setPrototypeOf`, object creation, collection; cached reads and stores, and the fills.
*Interaction.* A fill sets `usedAsProto` on what it walked past, and a change of such an object bumps the epoch.
*Hard.* A way is used long after it was filled, on other objects than it was filled for; a setter runs between the
lookup and the fill; private shapes change under a way.
*Correct when.* A hit goes where the uncached lookup would.

### Module evaluation
*State.* Per module its status, Tarjan indices, cycle root, order of async evaluation, parents that wait for it,
count of what it waits for, the promise of its evaluation. *Operations.* Evaluate, the walk, a body's end, a property
read of a deferred namespace, `import()`, `import.defer()`, the settling of a body with top-level await.
*Interaction.* Bodies run from the walk, from jobs, and from property reads inside other bodies.
*Hard.* Cycles, several awaits settling in any order, a walk in the middle of another walk, a throw half-way.
*Correct when.* Bodies run once and after what they need, imports are answered by what happened, nobody waits for nothing.

### Promise jobs and combinators
*State.* Per promise its state, value and reactions; the job queue; `done` of every pair of resolving functions; the
captured variables of a combinator call; the roots registered for the collector. *Operations.* The constructor,
resolve, reject, then, the job drain, the combinators, collection.
*Hard.* Thenables call back at any time and as often as they like; jobs and built-ins keep their state in Go closures,
which the collector cannot look into. *Correct when.* A promise is decided once, reactions run once in order,
combinators deliver exactly what their elements became, and the collector finds what is still needed.

### Generators and async functions
*State.* Per coroutine its saved frames, slabs and compiled contexts with their depths, `running`, `completed`; in the
Runtime the current ones, `curGen`, `parked`, `asyncFrames`; per async generator the request queue. *Operations.*
`genDrive`, `suspend`, `runAsync`, `asyncGenDrain`, `asyncGenStep`, `asyncGenResume`, `asyncGenFinishReq`.
*Interaction.* Awaits are reactions (PromiseJobs); the collector reads `parked` and `asyncFrames`.
*Hard.* Any nesting of handoffs; requests made while one is served or settled; objects dropped while bodies wait.
*Correct when.* Everyone finds its own frames, the collector finds everybody's, and requests are answered in order.

### Left out
Listed in `PROJECT.json` with the reason for each: module loading and linking, the async iterator helpers,
the collector's internals, JIT, JSON, iteration and disposal, collections, parser
and compiler, interpreter, Temporal/Intl/RegExp built-ins, the value conversions, the v8go layer and the command-line tools. Most
are sequential functions of their input. Those that are state machines are in the plan below.


## 2. The modules and the code

### TurnSpec, AgentTurn
`TurnSpec` says what the turn promises: one turn, a line, served from its head (`Ask`, `Pass`).
`AgentTurn` is the code: every access to `holder`, `queued`, the flag, a ticket or the mutex that another
goroutine can fall between is an action. `join` is `JoinFree` or `JoinQueue`, `JoinLoad`, `JoinAsk`; `claim` is
`ClaimStore`, `ClaimLook`; `yieldTurn` is `YieldClear`, `YieldLook`; `giveTurn` is `GiveRelease`, then `GiveNext`
and `GiveClose`, or `GiveFree`. `mu` records a critical section that spans several actions. Whatever an agent does
while paused is "off". `meddled` is a history variable: the host has used Interrupt or ClearInterrupt, after which the
flag no longer says who waits. The refinement takes the turn as held by an agent that runs, is about to claim, has an
unread ticket, or is about to be sent one.

### AtomicsWait
Uses `TurnSpec` for the turn, which `AgentTurn` implements. A waiter is a pair of an agent and a number; its
entry on the list is made by `Park` or `ParkAsync` after `WaitCheck`, claimed by `Notify`, and removed by
`ParkReturn`, `SettleReady` or `FinishAsyncWait`. What the scripts may do is a program, chosen in Init: who stores and notifies, who uses `waitAsync` besides
`wait`, who has timers (one at a time) and `process.exit`, whose timeouts have a `valueOf` that runs code (`coerces`), and so on. Such code may store,
notify and be preempted between comparison and entry; a wait inside it is left out.
The event loop of an agent is `SettleReady`, `FireTimer`, `Service`, `ServiceEnds` and `FinishAsyncWait`, with the code's three ways out:
nothing left to do (`LoopEnd`), `exitCode` set (`LoopExits`), and `MaxMacrotasks` turns done (`LoopCapped`). `ret` says where the loop goes on after code it called.
Two history variables: `owed`, the cells stored to and not yet notified, and `missed`, the waits that had been compared and were not
on the list yet when everybody on their cell was notified. Time is virtual for the loop and bounded by `MaxTime`; the last tick
expires every finite timeout.

### HostLoop
One owner (`pc`), any number of operations. The kinds are a `NewPromise`, a `HostRef` with `Post` and `HostUnref`, and a
goroutine that only posts. `realTimers` is chosen in Init and selects `runRealEventLoop` (`Top`, `TakeJobs`, `Checked`,
`FireDue`, `FireEnds`, `Idle`, `IdleJobs`, `Wake`) or the virtual clock (`VTop`, `VFire`, `VIdle`, `VEnds`).
`RunLoop` around either is `Left`, `Pend`, `PendJobs`, `Done`. Code of a job or a callback is the state "js", in
which the script starts operations and sets, clears and unrefs timers until it returns. A signal is
one step after the store it announces: `PostSignal`, `UnrefSignal`, `OutsideSignal`. The `waitAsync` part of the loop
is in AtomicsWait.

### Pool
A job is a call of `Do`; a step is a section under the pool's mutex or an access to a Runtime that a watcher also makes.
A job's script is its end: fine, an error, pollution of the heap, out of memory, a panic, or a stop at a safepoint
because the flag was up. The watcher's `select` picks either branch when both are ready.

### Invocation
An object is a cell with one reference, `held` what the frames hold. One thread, so each operation is one step.
Free list and `reborn` are counted per cell, not ordered, so that double entries can be seen. `own` and `wrote` are history
variables: which objects the run really made, and whether it really wrote to an older one. Writes are
"property" (paths that call `noteSharedMutation`) or "slot" (those that do not). A collection frees what its roots do not reach.
The code frees what is still referred to in three ways, and the model has them all: a clean run is released after a slot store put one of its objects
into an older one ("slot", recorded in `slipped`) or with a job in the queue that holds one ("queue"), and a collection sweeps what only a
binding put aside by Begin holds ("binding"). The history variable `lost` says which of them a behaviour has met; `Dangling` is
what a release is about to leave.


### InlineCache
A shape of the tree is named by the path of transitions to it, a private one by its object. `defineOwn`, deletion and
the rest act on the list of properties of one or the other, with the epoch bumps of the code; a bump empties the ways. One
cache site, chosen in Init to be a read or a store. A store that missed is two steps (`[[Set]]`, in which a setter may do
anything, then the fill), because `icFillPutTransition` pairs the shape before with the shape after. A way has one history field: `code` says
that a setter ran during the store it was filled from. `CachedStoreIsSet` says that a hit stores where [[Set]] would and moves no property of the
receiver; and, of a way that was filled without one, that the receiver gains the stored property and no other, as [[Set]] would have it.
With a setter the last part is false (`TransitionAddsTheName`, section 5).

### ModuleEval
The graph is chosen in Init: each edge eager, deferred or absent, each module with or without a top-level await. The Go stack is a
variable, so a body may read a deferred namespace half-way. `Evaluate`, `WalkInto`, `WalkDep`, `WalkRaise`, `WalkRun` and
`WalkPop` are `innerModuleEvaluation`; `Touch` is `runDeferred`; `Exec` is the loop of
`asyncModuleExecutionFulfilled` over unblocked ancestors. `asked` and `body` are history variables, and `parked` marks what a property read left
behind an await.

### PromiseJobs
References are records that say what they refer to: a promise, a pair of resolving functions, an element function, the
combinator's results. `CallPair`, `Resolve`, `Settle`, `promiseThenCap`, `CallElem` and `tryFinish` are the code's
functions, from a world to a world; the actions are what the script does and what the drain does. Two closures are computed from the
same state: `Marked`, what the collector reaches through roots and registered captures, and `Used`, what code that may still
run works with. `Collect` frees the difference between all promises and `Marked`.

### Coroutines
One side of a coroutine's two channels always waits, so `genDrive` is a stack, `calls`, with the locals
it restores from. `Drive` is its first half, `Back` its second. Frames, slabs, compiled contexts and depths travel together
and are one context, named by whose it is. An async generator's front request is settled by `Answer`, and the
rest of `asyncGenFinishReq` is a later step because settling reads `then`, where a getter may make another request.


## 3. Runs

Every run finishes in at most three minutes on two workers. The two that are refuted are findings, see section 5.

| run | question | result |
|---|---|---|
| `AgentTurn_turns` | 3 agents and a host that interrupts and clears at any time: `OneAtATime`, `NobodyForgotten`, `HolderKnowsOfQueue`, refinement of TurnSpec, `EveryoneGetsATurn` | holds |
| `AtomicsWait_waits` | 2 agents and 2 programs, blocking and asynchronous waits, timers, exits, code in timeouts: `CountedMeansOk`, `NoLostWakeup`, `WaitListSound`, `WaitReturns` | holds |
| `HostLoop_ops` | 2 operations of any kind, both clocks, RunLoop and RunJobs, all four ways to stop: `NoLostWakeup`, `OpsAreExact`, `NothingLeftBehind` | holds |
| `HostLoop_live` | 1 operation beside a timer that callbacks arm for ever: `NothingLeftBehind`, `LoopTerminates`, `InterruptStopsLoop`, `JobsRun` | holds |
| `Pool_safety` | 2 jobs, 2 Runtimes, `MaxUses` 2, `MaxIdle` 1: `LeasesAreSound`, `ReuseIsSound`, `LiveIsExact`, `CancelledReturns` | holds |
| `Invocation_regions` | 3 cells, 2 runs, stores of both kinds, jobs left in the queue, bindings: `PoolIsExact`, `RegionIsExact`, `NoDangling`, `ReleaseFreesTheRun` | holds |
| `InlineCache_sites` | 3 objects, 2 names, a read or a store site with 2 ways, 3 changes of layout: `CachedReadIsLookup`, `CachedStoreIsSet`, `EditsAreOwn` | holds |
| `ModuleEval_graphs` | every graph of 3 modules, 2 imports, 1 throw: `BodyOnce`, `DepsFirst`, `OutcomeIsEarned`, `WaitsAreExact` | holds |
| `ModuleEval_failed` | a failed module is remembered (`FailureRemembered`) | refuted |
| `PromiseJobs_jobs` | 4 promises, 5 operations of the script, one call of all, allSettled, any or race, collections: `DecidedOnce`, `RunsOnceInOrder`, `AdoptsTheOutcome`, `CombinatorIsExact`, `UsedIsFound` | holds |
| `PromiseJobs_keyed` | `UsedIsFound` for the keyed combinators | refuted |
| `Coroutines_handoff` | a generator, an async function and an async generator, 3 requests: `ContextIsOwn`, `FramesFound`, `RequestsInOrder`, `EveryRequestIsAnswered` | holds |

Some invariants are conjunctions of parts that belong together, each part a definition with its own comment. The
`TypeOK` of a module is one of the parts, except in AgentTurn, Pool and Invocation, where it is proved on its own.

| invariant | parts |
|---|---|
| `WaitListSound` | `TypeOK`, `WokenInArrivalOrder`, `Owned`, `LeftOnlyIfCutShort` |
| `OpsAreExact` | `TypeOK`, `AcceptedRunsOnce`, `RefsBalanced` |
| `LeasesAreSound`, `ReuseIsSound` | `LeasesAreExclusive`, `LeasedIsOpen`; `ParkedIsFit`, `AbandonedNeverReused` |
| `PoolIsExact`, `RegionIsExact` | `PoolSound`, `OwnIsKnown`; `DirtyIsExact`, `RegionIsolated` |
| `EditsAreOwn` | `TypeOK`, `PrivateIsPrivate`, `RootStaysShared` |
| `WaitsAreExact` | `TypeOK`, `PendingExact`, `NothingLeftWaiting` |
| `CombinatorIsExact` | `TypeOK`, `RemainingExact`, `ResultIsEarned` |
| `RequestsInOrder` | `TypeOK`, `AnsweredInOrder`, `OneStepAtATime` |

### Bounds, and why they are enough
* Agents: three is the smallest number with a giver, a successor and an agent that joins between the two; with
  three the queue holds two, so order matters. The proofs are for any number.
* Waits: the run has two programs (MCAtomicsWait). In `Plain` both agents store and notify, and the started one waits twice: the list holds up to three
  entries, blocking and asynchronous ones mixed, so that its order matters; a count of 4 wakes everybody, a count of 1 splits the list. In
  `Busied` the root stores and notifies, and the started agent has timers, exits, and has code in its timeouts. One cell: entries of
  different cells do not meet. `MaxMacrotasks` is 3 for the code's 2^20: a loop can settle two promises and find nothing left, and an interval reaches the cap.
* HostLoop: two operations are needed to have one deliver between the two reads of `HostPending` while the other is
  outstanding. `HostLoop_ops` has no timers, which multiply its states without touching the queue;
  `HostLoop_live` has one that can be armed again for ever, so its behaviours are infinite. `MaxMacrotasks` is 2 for the
  code's 2^20, so the cut-off is reached. A due timer can be late by `MaxLate` ticks.
* Pool: two jobs meet on one Runtime in succession and on two concurrently; `MaxUses` 2 allows one reuse, `MaxIdle` 1 makes the
  second release find the pool full.
* Invocation: three cells leave the shared global, the run's global, and one that is recycled below the watermark
  in the second run. The invariants are about behaviours in which nothing has been lost, and `NothingLost` of
  MCInvocation, a CONSTRAINT of the run, keeps TLC to those. The proofs are for any number of cells and runs.
* InlineCache: three objects make a chain of a receiver, a prototype and its prototype, or two receivers that share a
  layout below one prototype. Two ways for the code's eight (`icWays`): a full site replaces way 0, which two ways reach as well. Three changes after the objects exist allow a fill, a change
  on the way, and a change of the changed; longer sequences repeat these.
* ModuleEval: three modules give a cycle with a tail, two dependencies that settle in either order, and a deferred edge
  into a cycle. Two imports make one arrive while the other awaits.
* PromiseJobs: four promises hold an adopter, the adopted, a combinator's result and a derived promise; five operations reach a
  combinator over two elements, a call, a then and a drop. A second element is what makes an order.
* Coroutines: one of each kind nests three deep. Three requests: one served, one queued, one made while the first is settled.
  Each body is resumed at most three times; it may end or wait at any of them.

Symmetry is used only in runs without liveness properties. Deadlock checking is off where the bounds, or a host
that stops calling, let the system come to rest.

### Fairness
* `AgentTurn`, `AtomicsWait`: weak fairness of each goroutine's own steps. Go's scheduler is preemptive, the mutex is
  held for a few instructions, and a running script reaches a safepoint at every function entry and every 1024th back
  edge. There is none for what scripts choose to do: to pause, resume, finish, notify or return. `Tick` is fair because timers fire.
* `HostLoop`: the loop's goroutine, time, and the second half of a call that has begun. A host operation is not assumed to
  deliver; `LoopTerminates` has that, and that timers come to an end, as premises, because `HostRef`
  asks it of its callers.
* `Coroutines`: a body that runs ends, jobs are run, and an awaited promise settles. The first and the last are the script's to give;
  `EveryRequestIsAnswered` says what the engine makes of it: no request is left behind when they are given.
* `Pool`: the goroutines of Do and of the watchers; a script need not end, only to stop at a safepoint when interrupted.


## 4. Proofs

tlapm checks everything in the eight proof modules, for every value of the constants: all the invariants of the runs
of seven components and three of an eighth, one refinement, and the action property `ReleaseFreesTheRun`. An induction over data (a walk
up a chain, a path of transitions, a list, a closure) is done by its least counterexample (`LeastElement`), since the library's
induction theorems take an operator.

**AgentTurnProofs**: `TypeCorrect`, `MutualExclusion`, `NoneLost`, `HolderKnows`, `Refinement`. The inductive
invariant says where the turn is (`held` iff exactly one agent is at a place that has it, has an unread ticket or is
named by a giver's `next`), that a waiting agent is in the queue once or has its ticket, that `queued` is the
length of the queue. `HolderKnows` needs in addition that `holder` names the agent that runs from claim until giveTurn, and
that of the agents in the queue those that asked have raised its flag and those that read the holder and have yet to
ask will ask the right one. It is about behaviours until the host first interrupts (`meddled`); the others are unconditional.

**AtomicsWaitProofs**: `CountedWaitsAnswerOk`, `WaitListIsSound` and `NoWakeupIsLost`, for any agents, cells, waits and times, with or without
code in timeouts. `WaitInv` says that each entry on the wait list has an agent that is blocked on it, holds its promise, or has ended with its loop cut
short, that it has no answer, that it is there once, that whoever was woken was the oldest for its cell, and that an agent that has ended
otherwise has no promise pending (`CutShort` says of an agent that its loop met `exitCode` or the cap).
`Hearing` says of every wait that is on the list or was compared for it that the cell has the value expected, or is owed a notify, or the wait
was woken or missed. `Undisturbed` adds that while one agent has the turn only agents with code in their timeouts are between comparison and list, so that no other wait is ever missed.

**HostLoopProofs**: `OperationsAreExact`, `WakeupsAreNotLost`, `NothingIsLeftBehind`, for any operations and timers, either clock. `LoopInv` says
where a job is from the moment Post accepts it until it runs (in the queue or in the batch, once), which operations are owed a
ref (`Owing`, whose cardinality is the count until Close), that a loop that took the queue and has no signal coming has an empty queue, one that looked at the
flag an unset one, and that what the first look of `HostPending` saw still holds at the second, because only the script can undo it.

**PoolProofs**: `TypeCorrect`; `Exclusion` and `OpenWhileLeased`, together `SoundLeases`; `Fitness` and `Abandonment`,
together `SoundReuse`. The
invariant adds that what is parked, leased, closing or gone was built, that a leased Runtime is neither parked, closing
nor gone, that a dirty one's job knows it, and that
a Runtime is reusable only if its job's end was clean and its context was not seen done. `LiveCorrect` counts on top of it: `live` is the
number of Runtimes built and not given up, until Close. Any number of jobs and Runtimes, any limits.

**InvocationProofs**: for any pool size, any scripts and any host, `TypeCorrect`, `Soundness` and `Ownership` (together
`ExactPool`) and `Reclamation`: the free list is sound, the marks tell exactly which objects are the run's, and releasing a
clean run frees those and no others. For the same scripts and hosts `Isolation` and `ExactTest` (together `ExactRegion`) and `MemorySafety`: until
the behaviour has met one of the three ways in which the code frees what is still referred to (`lost`), a run is dirty exactly when it wrote a property of something older, what refers into
a clean run's region is what the dirty test does not see, and nothing refers to a dead cell. So the three doors are all there are; each is open (section 5).
The invariant of the pool is PoolSound, OwnIsKnown and that the shared global predates every run. `MemorySafety`
needs isolation to release, and isolation needs that `dirty` is exact; hence the three are proved together. A fact
about `Reach`, that it is closed and inside every closed superset of the roots, stands for the collector.

**CoroutineProofs**: for any coroutines in any nesting, `ContextCorrect` (whoever has the engine finds its own context, the
others find theirs where they left it) and `ChainIsFound` (the frames of everyone who waits for a coroutine it drove are
scanned). The invariant follows the stack of `genDrive` calls: each call's locals name the caller below it (`Linked`), exactly the
coroutines on the stack run and each once (`ChainRuns`), `parked` lists the callers' contexts in step with the stack
(`Parked`), the Runtime points at the top (`AtTop`), and whoever is not on the stack has its context saved (`Saved`). Every
action is a `Drive`, a `Back` or leaves the engine alone, which is proved once (`EngineSteps`). From it `FramesAreFound`, and
`RequestsAreInOrder`: a generator with requests is in exactly one hand (on the stack, at an await, being settled, or about to be
resumed), and the hand holds the number of the front request.

**InlineCacheProofs**: for any objects, names, ways and changes of layout, `EditsStayOwn`, `ReadsAreRight` and `StoresAreRight`.
`CacheInv`: sites hand on shapes of the tree only, other than the root; the root's references are no fewer than who stands on it; a
prototype lives as long as what inherits from it. `ReadInv`: a way that can be hit and names a holder has a trail of flagged objects from its prototype to the
holder, none before the last having the name, so that a change of any of them retires the way; a way keyed on a private shape is right because an edit in place bumps the epoch.
`StoreInv`: the same for stores that create the property, up to a writable property or past the end of the chain; the layout
handed on keeps every key of the one it replaces, and of a way filled without a setter has the stored key besides and no more (`EditAdds`); and
while a setter runs its receiver only gains properties or goes private (`Pending`), which is why a way filled after one promises less.

**PromiseJobProofs**: for any finite set of promises and any script, `Decided`, `InOrder`, `Adopted` and `Exact`; and `Found`, for scripts that keep to the
combinators over arrays (for those over keys it is false, section 5). The helpers of PromiseJobs take a world to a world, so `JobInv` is a predicate of
worlds and each helper has a lemma; an action composes them. `Once`: of the open functions, the jobs and the handlers no two
have the same target, the target is pending, and the running job's is nobody else's. `Ordered`: the reactions of a pending promise
are its handlers 1, 2, ... and none is queued; those of a settled one are queued in order from the next to run to the last registered.
`Sound`: whatever jobs, handlers, open functions and the combinator refer to is there. This is what a collection could break, and it does not, because
all of it is reached from what is marked (`CollectReaches`). `CloseIsLeast` shows that `Close`, which follows references until
nothing is added, is the least closed set, for which the promises have to be finitely many; from that `Found` follows, since
what a job or a built-in uses is among its roots and traces. `JobInv` was checked with TLC, on four promises, before it was proved.
`Adopted` states `AdoptsTheOutcome`. `AdoptInv` adds to `JobInv` what can still settle a promise that was resolved with another (`Tied`): an
adoption of that other in the queue; or, once that ran, a function that only reactions on the other call and that nobody else has,
and if such a reaction is queued it carries the other's outcome. It is needed because the function would settle the promise with
anything it is given: neither the script, nor the combinator, nor a `then` of the script's own may hold it.
`Exact` states `CombinatorIsExact`. `CombInv` adds to `JobInv`: the counter is what it waits for and one for the loop (`Counts`); an
element function is only in the reactions of its own element, paired as the combinator asks, or in a job that carries that element's
outcome, or with the script if the element is a thenable (`Placed`); so what was filled in is how the element ended (`Filled`).
While the result is open every element registered is filled in or will be heard of (`Awaited`), a counter at zero has closed
the result (`Shut`), and the array is nowhere to be found until it is the result (`HandedOut`). `Placed` is what makes it inductive: an element
function is as free as any other, and only who holds it says with what it will be called. `Awaited` is what a lost reaction would break, and carries the second half of
`ResultIsEarned`: with no job left, an element that ended has been filled in.

**Only model-checked**: ModuleEval; all liveness properties
(`EveryoneGetsATurn`, `WaitReturns`, `LoopTerminates`, `InterruptStopsLoop`, `JobsRun`, `CancelledReturns`,
`EveryRequestIsAnswered`), which are
beyond TLAPS's backends. ModuleEval uses a RECURSIVE operator and is out of its reach as it stands.


## 5. What the code's comments say and the models refute

Two have a run and are `findings` in `PROJECT.json`:

* `ModuleEval_failed`: when the walk that a property read of a deferred namespace started fails, `runDeferred` marks only the
  module that was read. What lies between it and the body that threw stays "evaluating", and importing it later succeeds.
* `PromiseJobs_keyed`: `promiseAllKeyed` does not register its result object with `holdCaptures`. A collection while
  elements are outstanding frees it, and later element functions write to a freed cell.

Others have no run of their own; they are one configuration away (a listed run with the property exchanged,
and the constants named here) and the definitions are in the MC modules or the component's own:

| claim | definition | how TLC refutes it |
|---|---|---|
| a request to yield reaches an agent that spins | `HolderKnowsOfQueue` without `meddled` | Interrupt or ClearInterrupt overwrites the request |
| only a match ever parks | `OnlyAMatchParks`, program `Busied` | the value is compared before the timeout is coerced, and its `valueOf` lets another agent store; if the notify comes in that gap too, nobody will wake the wait |
| a notified promise is settled | `NotifiedSettles`; `Programs <- Asynchronous`, two `Locs`, `MaxTime = 0`, `Counts = {4}` | the loop is blocked on the channel of another |
| the loop blocks only if somebody can wake it | `BlocksOnlyIfWakeable`; `Programs <- Asynchronous` | `settleable` counts agents ever started, also ended ones |
| a woken waiter beats any deadline | `WokenBeatsDeadline`; `Programs <- Asynchronous`, `MaxWaits = 3` | with three asynchronous waits, a reaction lets one be notified, and the deadline of another is picked |
| a cancelled context stops the loop | `CancelStopsLoop`, `Stops = {"ctx"}` | `fireDueTimers` looks at the flag and the exit code only |
| AwaitContext returns once its promise settles | `AwaitReturns`, `Stops = {}` | an interval keeps the loop going |
| resolve reports what it cannot convert | `ConversionReported` | conversion happens in the posted job |
| cleared timers are dropped when a loop ends | `ClearedForgotten` | not by the virtual loop |
| a Runtime is not parked while interrupted | `NeverParkedInterrupted` | the watcher fires after `Decide` |
| a stray Interrupt of an earlier job is harmless | `StrayIsHarmless` | nothing waits for the earlier job's watcher, which may fire after `acquire` cleared the flag: the next job's script stops although its own context is not done |
| `live` counts Runtimes not retired | `LiveAfterClose` | Close discards parked ones without counting |
| a run that modified older state is dirty | `DirtyReportsAll` | Map, Set, captured variables and reactions do not call `noteSharedMutation` |
| nothing outside points into the region of a run that modified nothing older | `NothingPointsIn` | a release looks at no queue: a timer of the run survives it |
| the shared bindings are restored | `BindingsRestored`; no `CONSTRAINT`, `MaxRuns = 1` | the collector does not look at what Begin put aside |
| a store site records the layout change its store made | `TransitionAddsTheName`; two `Objs`, `Ways = 1`, `MaxOps = 5` | a setter that ran during the store changed the layout too, and the fill records both |

One more is exempted inside `ModuleEval` rather than stated: `module_defer.go` says that a property read "either finishes or throws
before this returns", but with 1 eager on 3, 3 deferred on 2 and 2 eager on 1, and an await in 1, the read returns while what
it read is only waiting. What stands on such a module is `LeftOver`, and `DepsFirst`, `OutcomeIsEarned`, `PendingExact` and
`NothingLeftWaiting` are about the rest. Without the exemption TLC refutes `NothingLeftWaiting`: an import that depends on it never settles.


## 6. Abstractions to be aware of

* Receiving a broadcast and sleeping are "off" in AgentTurn; the reports and broadcasts themselves are not modelled.
* A script is the calls it makes into the part modelled, chosen freely; interpreter and built-ins are not there.
* The pool of objects has one reference per object. The four other pools have no watermark. Generation checks of handles, the
  intern table and side tables of the engine are left out; so are the thresholds at which a collection starts:
  it may happen at any time.
* A root that returns to Go keeps the turn (`agent.go:187`), and agents it started wait until it runs again; that is the host's choice and
  no property is about it.
* Close during a RunLoop with operations in flight (`hostloop.go:137`) refuses their posts and leaves their refs; Close is the owner's
  last call by its contract, so the live run does not close a running loop.
* `gatherAsyncDeps` passes over a module that is already awaiting (`module.go:582`): the first read of its namespace is refused with a TypeError.
  That is an answer, and whether the importer should have waited is a question about the language.
* The async iterator helpers (`builtin_asynciterator.go:326`) keep accumulator, callback and result promise in Go closures that are not
  registered with the collector, which is the shape of the failure `PromiseJobs_keyed` shows. They are not modelled.
* A Go panic inside a coroutine's body is raised on the coroutine's goroutine (`generator.go:136`); panics of the interpreter are not modelled.
* A New callback of the pool that panics, rather than returning an error, is not modelled.
* HostLoop and AtomicsWait are separate models of the loop: `serviceAsyncWaits` blocks outside the loop's `select`, and
  what that does to an Interrupt or a posted job is not modelled yet. AtomicsWait has one timer per agent, which the script can set again from its callback.
* InlineCache leaves values and symbols out, and one site stands for all of them. The 32-bit epoch wraps after 2^32-1 bumps
  (`shapes.go:46`) and a way unvisited for that long would match again; the model takes a bump to retire a way for good.
* ModuleEval starts from a linked graph; JSON modules have no body and are left out.
* PromiseJobs takes Promise itself for the constructor. With a subclass the capability's functions are the script's. `finally` is two
  ordinary reactions. A drain that a job starts is not modelled. Collections do not happen inside built-ins, as in the code.
* Coroutines creates generators suspended at the start of their body: binding the parameters, which can throw, is a drive and a return like any other.
  A generator that is dropped keeps its goroutine (`generator.go:194`); nothing in the code ends it.


## 7. Plan

Done: the turn (first, since everything concurrent in the engine rests on it), the wait list over the abstract turn,
the host loop, the pool, the invocations; then inline caches, module evaluation, promises and coroutines.
Proved since: all invariants of AtomicsWait, HostLoop, Pool, InlineCache, Coroutines and PromiseJobs.
To be proved next: ModuleEval, whose RECURSIVE operators would first become recursive functions; `BodyOnce` and `DepsFirst` are the ones to
begin with.

To be modelled, were the project to grow: HostLoop and AtomicsWait together, for what Interrupt, Post and timers do to a loop inside
`serviceAsyncWaits`; weak tables, finalization and the thresholds of `collect.go`; iterator closing and disposal when several
steps fail; the async iterator helpers; reclamation of JIT code under running frames.
