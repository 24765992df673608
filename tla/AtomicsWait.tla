---------------------------- MODULE AtomicsWait -----------------------------
(***************************************************************************)
(* Atomics.wait, waitAsync and notify between the agents of a cluster      *)
(* (internal/engine/agent.go, builtin_atomics.go, builtin_atomics_ops.go), *)
(* with the part of the event loop that settles waitAsync promises         *)
(* (runEventLoop in builtin_promise.go, under the virtual clock).          *)
(*                                                                         *)
(* The turn is the one of TurnSpec, which AgentTurn is proved to implement. *)
(* An agent executes only while turn is its own; what it does without the  *)
(* turn is to sleep in atomicsPark or serviceAsyncWaits until its waiter   *)
(* is woken or its timer fires, and then to ask for the turn again.        *)
(*                                                                         *)
(* A waiter is named by its agent and a number; deadlines are ticks of a   *)
(* clock that advances whenever it likes.                                  *)
(***************************************************************************)
EXTENDS Naturals, Sequences, SequencesExt, FiniteSets, Subsequences

CONSTANTS Agents, Root, Nobody,
          Locs,        \* shared cells, each holding 0 or 1
          MaxWaits,    \* waits an agent performs (bound)
          MaxTime,     \* ticks of the clock (bound)
          Counts,      \* counts a notify may ask for; MaxWaiters is +Infinity
          MaxAgents,   \* maxAgents: how many agents a cluster may start
          MaxMacrotasks, \* maxMacrotasks: turns of one run of the event loop
          Programs     \* what the scripts may do: one program is chosen in Init

Forever == MaxTime + 1
MaxWaiters == Cardinality(Agents) * MaxWaits

ASSUME ShapeAssumption ==
  /\ IsFiniteSet(Agents) /\ Root \in Agents /\ Nobody \notin Agents
  /\ MaxWaits \in Nat /\ MaxTime \in Nat /\ MaxAgents \in Nat
  /\ Counts \subseteq 1..MaxWaiters
  /\ MaxMacrotasks \in Nat

Waiters == Agents \X (1..MaxWaits)
Plans == [loc : Locs, want : {0, 1}, timeout : 0..Forever, async : BOOLEAN]

(* The agents whose scripts store and notify, use waitAsync besides wait, use *)
(* timers and process.exit, have a timeout with a valueOf that runs code, or  *)
(* wait more than once; and the ticks a wait asks for, Forever being          *)
(* +Infinity (bounds).                                                        *)
ASSUME ProgramAssumption ==
  Programs \subseteq [writes : SUBSET Agents, waitsAsync : SUBSET Agents, timed : SUBSET Agents,
                     coerces : SUBSET Agents, repeats : SUBSET Agents, timeouts : SUBSET (0..Forever)]

VARIABLES
  program,      \* the one of Programs that runs
  turn, line,   \* the turn of the cluster, see TurnSpec
  mem,          \* the shared cells
  waiters,      \* agentCluster.waiters, in arrival order
  woken,        \* waiters whose woken is set and whose wake channel is closed
  started,      \* agentCluster.started
  st,           \* what each agent is doing
  ret,          \* where the event loop goes on when the code it called returns
  cur,          \* the wait an agent is performing or servicing
  plan,         \* atomicsWaitPlan of each wait
  deadline,     \* when its timer fires
  used,         \* waits each agent has begun
  local,        \* the local result of atomicsPark and serviceAsyncWaits
  asyncWaits,   \* Runtime.asyncWaits
  result,       \* what each wait answered
  timer,        \* Runtime.macrotasks, one timer at a time (bound)
  exiting,      \* whether Runtime.exitCode is set
  fired,        \* the local fired of runEventLoop
  owed,         \* cells changed since the last notify that wakes everybody
  missed,       \* waits that such a notify came too early for: compared, not listed
  now           \* the clock

loopVars == <<program, timer, exiting, fired>>
waitVars == <<waiters, woken, started, ret, cur, plan, deadline, used, local,
              asyncWaits, result, missed>>
vars == <<program, turn, line, mem, waiters, woken, started, st, ret, cur, plan, deadline,
          used, local, asyncWaits, result, timer, exiting, fired, owed, missed, now>>

Turn == INSTANCE TurnSpec

States == {"unborn", "born", "run", "plan", "parked", "unpark", "loop", "pick",
           "service", "finish", "idle", "dead"}
NoPlan == [loc |-> CHOOSE l \in Locs : TRUE, want |-> 0, timeout |-> 0, async |-> FALSE]

LoopTypes ==
  /\ program \in Programs
  /\ timer \in [Agents -> {"none", "once", "interval"}]
  /\ exiting \in [Agents -> BOOLEAN]
  /\ fired \in [Agents -> 0..MaxMacrotasks]

TypeOK ==
  /\ LoopTypes
  /\ turn \in Agents \cup {Nobody} /\ line \in Seq(Agents)
  /\ mem \in [Locs -> {0, 1}]
  /\ waiters \in Seq(Waiters) /\ woken \subseteq Waiters
  /\ started \in 0..MaxAgents
  /\ st \in [Agents -> States] /\ ret \in [Agents -> {"loop", "pick"}]
  /\ cur \in [Agents -> 0..MaxWaits] /\ used \in [Agents -> 0..MaxWaits]
  /\ \A w \in Waiters : plan[w] = NoPlan \/ plan[w] \in Plans
  /\ deadline \in [Waiters -> 0..Forever]
  /\ local \in [Agents -> {"ok", "timed-out"}]
  /\ asyncWaits \in [Agents -> Seq(Waiters)]
  /\ result \in [Waiters -> {"none", "ok", "timed-out"}]
  /\ owed \subseteq Locs /\ missed \subseteq Waiters
  /\ now \in 0..MaxTime

(* A cluster with one agent, running its script. *)
Init ==
  /\ program \in Programs
  /\ turn = Root /\ line = <<>>
  /\ mem = [l \in Locs |-> 0]
  /\ waiters = <<>> /\ woken = {} /\ started = 0
  /\ st = [a \in Agents |-> IF a = Root THEN "run" ELSE "unborn"]
  /\ ret = [a \in Agents |-> "loop"]
  /\ cur = [a \in Agents |-> 0] /\ used = [a \in Agents |-> 0]
  /\ plan = [w \in Waiters |-> NoPlan] /\ deadline = [w \in Waiters |-> 0]
  /\ local = [a \in Agents |-> "ok"]
  /\ asyncWaits = [a \in Agents |-> <<>>]
  /\ result = [w \in Waiters |-> "none"]
  /\ timer = [a \in Agents |-> "none"] /\ exiting = [a \in Agents |-> FALSE]
  /\ fired = [a \in Agents |-> 0]
  /\ owed = {} /\ missed = {}
  /\ now = 0

At(a, s) == st[a] = s
Does(a, s) == turn = a /\ At(a, s)
(* Script code runs: a script or a job, or the valueOf of a timeout.  One that *)
(* throws ends its wait as if it had run before it; one that waits is left out *)
(* (bound).                                                                    *)
Runs(a) == Does(a, "run") \/ (a \in program.coerces /\ Does(a, "plan"))
Goto(a, s) == st' = [st EXCEPT ![a] = s]
Current(a) == <<a, cur[a]>>
Without(s, w) == Kept(s, ToSet(s) \ {w})
Expired(w) == deadline[w] # Forever /\ deadline[w] <= now
Least(m, n) == IF m < n THEN m ELSE n
KeepTurn == UNCHANGED <<turn, line>>

-----------------------------------------------------------------------------
(* The turn as the scripts see it. *)

(* Mutant: a wait has a safepoint between the comparison and the wait list.  *)
PreemptInWait(a) ==
  /\ Does(a, "run") \/ Does(a, "plan")
  /\ line # <<>>
  /\ turn' = Head(line)
  /\ line' = Append(Tail(line), a)
  /\ UNCHANGED <<mem, waitVars, loopVars, st, owed, now>>

(* A safepoint at which somebody waits: yieldTurn gives the turn and asks    *)
(* for it again.                                                             *)
Preempt(a) ==
  /\ Runs(a)
  /\ line # <<>>
  /\ turn' = Head(line)
  /\ line' = Append(Tail(line), a)
  /\ UNCHANGED <<mem, waitVars, loopVars, st, owed, now>>

Tick ==
  /\ now < MaxTime
  /\ now' = now + 1
  /\ UNCHANGED <<turn, line, mem, waitVars, loopVars, st, owed>>

(* agentStart, and the first thing the new goroutine does. *)
Start(c) ==
  /\ Does(Root, "run") /\ At(c, "unborn")
  /\ started < MaxAgents
  /\ started' = started + 1
  /\ Goto(c, "born")
  /\ KeepTurn
  /\ UNCHANGED <<mem, waiters, woken, ret, cur, plan, deadline, used, local,
                 asyncWaits, result, missed, loopVars, owed, now>>

Enter(c) ==
  /\ At(c, "born")
  /\ Turn!Ask(c)
  /\ Goto(c, "run")
  /\ UNCHANGED <<mem, waitVars, loopVars, owed, now>>

Store(a, l) ==
  /\ Runs(a)
  /\ mem' = [mem EXCEPT ![l] = 1 - @]
  /\ owed' = owed \cup {l}
  /\ KeepTurn
  /\ UNCHANGED <<waitVars, loopVars, st, now>>

(* setTimeout, setInterval and what clears them. *)
SetTimer(a, t) ==
  /\ Runs(a)
  /\ timer' = [timer EXCEPT ![a] = t]
  /\ KeepTurn
  /\ UNCHANGED <<program, mem, waitVars, exiting, fired, st, owed, now>>

(* process.exit: the script is unwound; the jobs that are queued still run.  *)
Exit(a) ==
  /\ Does(a, "run")
  /\ exiting' = [exiting EXCEPT ![a] = TRUE]
  /\ KeepTurn
  /\ UNCHANGED <<program, mem, waitVars, timer, fired, st, owed, now>>

-----------------------------------------------------------------------------
(* Atomics.wait and waitAsync. *)

(* atomicsWaitCheck: the value is compared, and then the timeout is coerced. *)
(* A wait that does not match, or a waitAsync with no time, changes nothing. *)
WaitCheck(a, p) ==
  /\ Does(a, "run")
  /\ used[a] < MaxWaits /\ (a \in program.repeats \/ used[a] = 0)
  /\ mem[p.loc] = p.want
  /\ p.async => p.timeout > 0 /\ a \in program.waitsAsync
  /\ p.timeout \in program.timeouts
  /\ used' = [used EXCEPT ![a] = @ + 1]
  /\ cur' = [cur EXCEPT ![a] = used[a] + 1]
  /\ plan' = [plan EXCEPT ![<<a, used[a] + 1>>] = p]
  /\ Goto(a, "plan")
  /\ KeepTurn
  /\ UNCHANGED <<mem, waiters, woken, started, ret, deadline, local, asyncWaits,
                 result, missed, loopVars, owed, now>>

(* When the timer of a wait fires; the last tick fires them all (bound).     *)
SetDeadline(w) ==
  deadline' = [deadline EXCEPT ![w] = IF plan[w].timeout = Forever THEN Forever
                                      ELSE Least(now + plan[w].timeout, MaxTime)]

(* atomicsPark: join the wait list, then give the turn up. *)
Park(a) ==
  LET w == Current(a) IN
  /\ Does(a, "plan") /\ ~plan[w].async
  /\ waiters' = Append(waiters, w)
  /\ SetDeadline(w)
  /\ local' = [local EXCEPT ![a] = "ok"]
  /\ Turn!Pass
  /\ Goto(a, "parked")
  /\ UNCHANGED <<mem, woken, started, ret, cur, plan, used, asyncWaits, result, missed, loopVars, owed, now>>

(* Mutant: only the timer ends the sleep, whoever has been notified. *)
ParkEndsByTimer(a, s, r) ==
  /\ At(a, s)
  /\ r = "timed-out" /\ Expired(Current(a))
  /\ local' = [local EXCEPT ![a] = r]
  /\ Turn!Ask(a)
  /\ UNCHANGED <<mem, waiters, woken, started, ret, cur, plan, deadline, used,
                 asyncWaits, result, missed, loopVars, owed, now>>

(* The wake channel is closed, or the timer fires: a select takes either.    *)
ParkEnds(a, s, r) ==
  /\ At(a, s)
  /\ \/ r = "ok" /\ Current(a) \in woken
     \/ r = "timed-out" /\ Expired(Current(a))
  /\ local' = [local EXCEPT ![a] = r]
  /\ Turn!Ask(a)
  /\ UNCHANGED <<mem, waiters, woken, started, ret, cur, plan, deadline, used,
                 asyncWaits, result, missed, loopVars, owed, now>>

Unpark(a, r) == ParkEnds(a, "parked", r) /\ Goto(a, "unpark")

(* Mutant: whichever the select took is the answer. *)
AnswerSelected(a, r) ==
  LET w == Current(a) IN
  /\ waiters' = Without(waiters, w)
  /\ result' = [result EXCEPT ![w] = r]
  /\ cur' = [cur EXCEPT ![a] = 0]
  /\ plan' = [plan EXCEPT ![w] = NoPlan] /\ deadline' = [deadline EXCEPT ![w] = 0]
  /\ local' = [local EXCEPT ![a] = "ok"]

(* Leave the wait list; a notify that counted this waiter decides the answer *)
(* (the end of atomicsPark, and finishAsyncWait).                            *)
Answer(a, r) ==
  LET w == Current(a) IN
  /\ waiters' = Without(waiters, w)
  /\ result' = [result EXCEPT ![w] = IF w \in woken THEN "ok" ELSE r]
  /\ cur' = [cur EXCEPT ![a] = 0]
  /\ plan' = [plan EXCEPT ![w] = NoPlan] /\ deadline' = [deadline EXCEPT ![w] = 0]
  /\ local' = [local EXCEPT ![a] = "ok"]

ParkReturn(a) ==
  /\ Does(a, "unpark")
  /\ Answer(a, local[a])
  /\ Goto(a, "run")
  /\ KeepTurn
  /\ UNCHANGED <<mem, woken, started, ret, used, asyncWaits, missed, loopVars, owed, now>>

(* parkAsync: the same entry on the wait list, and the agent runs on. *)
ParkAsync(a) ==
  LET w == Current(a) IN
  /\ Does(a, "plan") /\ plan[w].async
  /\ waiters' = Append(waiters, w)
  /\ SetDeadline(w)
  /\ asyncWaits' = [asyncWaits EXCEPT ![a] = Append(@, w)]
  /\ cur' = [cur EXCEPT ![a] = 0]
  /\ Goto(a, "run")
  /\ KeepTurn
  /\ UNCHANGED <<mem, woken, started, ret, plan, used, local, result, missed, loopVars, owed, now>>

(* atomicsWake: the k oldest waiters of the cell that nobody has woken yet.  *)
Sleeping(l) == Kept(waiters, {w \in ToSet(waiters) \ woken : plan[w].loc = l})

(* The waits on a cell that have been compared and are not on the list yet.  *)
Planned(l) == {Current(b) : b \in {c \in Agents : At(c, "plan") /\ plan[Current(c)].loc = l}}

(* Whoever notifies everybody has done its duty to the cell. *)
Discharge(l, k) ==
  IF k = MaxWaiters
  THEN owed' = owed \ {l} /\ missed' = missed \cup Planned(l)
  ELSE UNCHANGED <<owed, missed>>

(* Mutant: the youngest waiters are woken first. *)
NotifyYoungest(a, l, k) ==
  LET s == Reverse(Sleeping(l)) IN
  /\ Runs(a)
  /\ woken' = woken \cup ToSet(SubSeq(s, 1, Least(k, Len(s))))
  /\ Discharge(l, k)
  /\ KeepTurn
  /\ UNCHANGED <<mem, waiters, started, st, ret, cur, plan, deadline, used, local,
                 asyncWaits, result, loopVars, now>>

Notify(a, l, k) ==
  LET s == Sleeping(l) IN
  /\ Runs(a)
  /\ woken' = woken \cup ToSet(SubSeq(s, 1, Least(k, Len(s))))
  /\ Discharge(l, k)
  /\ KeepTurn
  /\ UNCHANGED <<mem, waiters, started, st, ret, cur, plan, deadline, used, local,
                 asyncWaits, result, loopVars, now>>

-----------------------------------------------------------------------------
(* The event loop of an agent whose script has ended (DrainJobs). *)

(* The code the loop called, or the script itself, returns. *)
ScriptEnd(a) ==
  /\ Does(a, "run")
  /\ Goto(a, ret[a])
  /\ ret' = [ret EXCEPT ![a] = "loop"]
  /\ KeepTurn
  /\ UNCHANGED <<mem, waiters, woken, started, cur, plan, deadline, used, local,
                 asyncWaits, result, missed, loopVars, owed, now>>

(* A turn of the loop begins.  settleReadyAsyncWaits: everything that can be *)
(* answered without waiting; the reactions run before the loop goes on to    *)
(* look for something to do.                                                 *)
SettleReady(a) ==
  LET Ready(w) == w \in woken \/ Expired(w)
      ready == {w \in ToSet(asyncWaits[a]) : Ready(w)} IN
  /\ Does(a, "loop")
  /\ fired[a] < MaxMacrotasks
  /\ fired' = [fired EXCEPT ![a] = @ + 1]
  /\ asyncWaits' = [asyncWaits EXCEPT ![a] = Kept(@, ToSet(@) \ ready)]
  /\ waiters' = Kept(waiters, ToSet(waiters) \ ready)
  /\ result' = [w \in Waiters |-> CASE w \notin ready -> result[w]
                                    [] w \in ready /\ w \in woken -> "ok"
                                    [] OTHER -> "timed-out"]
  /\ plan' = [w \in Waiters |-> IF w \in ready THEN NoPlan ELSE plan[w]]
  /\ deadline' = [w \in Waiters |-> IF w \in ready THEN 0 ELSE deadline[w]]
  /\ IF ready = {} THEN Goto(a, "pick") /\ UNCHANGED ret
     ELSE Goto(a, "run") /\ ret' = [ret EXCEPT ![a] = "pick"]
  /\ KeepTurn
  /\ UNCHANGED <<program, mem, woken, started, cur, used, local, timer, exiting, missed, owed, now>>

(* settleable: waiting on this entry can end. *)
Settleable(w) == deadline[w] # Forever \/ w \in woken \/ started > 0

(* The entry serviceAsyncWaits picks: the earliest deadline, the first of    *)
(* them on the list, and one without a deadline only if there is no other.   *)
Best(s, w) ==
  \E i \in DOMAIN s : /\ s[i] = w
                      /\ \A j \in DOMAIN s : /\ deadline[w] <= deadline[s[j]]
                                             /\ deadline[w] = deadline[s[j]] => i <= j

Candidates(a) == Kept(asyncWaits[a], {w \in ToSet(asyncWaits[a]) : Settleable(w)})

(* A timer is due, since the clock it goes by is virtual, and its callback   *)
(* runs; an interval is armed again.                                         *)
AfterFiring(a) == timer' = [timer EXCEPT ![a] = IF @ = "once" THEN "none" ELSE @]

FireTimer(a) ==
  /\ Does(a, "pick")
  /\ timer[a] # "none" /\ ~exiting[a]
  /\ AfterFiring(a)
  /\ Goto(a, "run")
  /\ KeepTurn
  /\ UNCHANGED <<program, mem, waitVars, exiting, fired, owed, now>>

(* serviceAsyncWaits, up to its select. *)
Service(a, n) ==
  /\ Does(a, "pick")
  /\ timer[a] = "none"
  /\ Best(Candidates(a), <<a, n>>)
  /\ asyncWaits' = [asyncWaits EXCEPT ![a] = Without(@, <<a, n>>)]
  /\ cur' = [cur EXCEPT ![a] = n]
  /\ local' = [local EXCEPT ![a] = "ok"]
  /\ Turn!Pass
  /\ Goto(a, "service")
  /\ UNCHANGED <<mem, waiters, woken, started, ret, plan, deadline, used, result, missed, loopVars, owed, now>>

ServiceEnds(a, r) == ParkEnds(a, "service", r) /\ Goto(a, "finish")

(* finishAsyncWait, and the reactions of the promise it resolved. *)
FinishAsyncWait(a) ==
  /\ Does(a, "finish")
  /\ Answer(a, local[a])
  /\ Goto(a, "run")
  /\ KeepTurn
  /\ UNCHANGED <<mem, woken, started, ret, used, asyncWaits, missed, loopVars, owed, now>>

(* The root returns to its host; a started agent ends and gives the turn up. *)
Leave(a) == IF a = Root THEN KeepTurn /\ Goto(a, "idle") ELSE Turn!Pass /\ Goto(a, "dead")

(* Mutant: the loop is out of work as soon as it is out of timers. *)
LoopEndForgets(a) ==
  /\ Does(a, "pick")
  /\ timer[a] = "none"
  /\ Leave(a)
  /\ UNCHANGED <<mem, waitVars, loopVars, owed, now>>

(* No timer, and no promise that waiting could settle. *)
LoopEnd(a) ==
  /\ Does(a, "pick")
  /\ timer[a] = "none" /\ Candidates(a) = <<>>
  /\ Leave(a)
  /\ UNCHANGED <<mem, waitVars, loopVars, owed, now>>

(* The loop has turned as often as it may, whatever is left to do. *)
LoopCapped(a) ==
  /\ Does(a, "loop")
  /\ fired[a] = MaxMacrotasks
  /\ Leave(a)
  /\ UNCHANGED <<mem, waitVars, loopVars, owed, now>>

(* After process.exit the loop ends instead of calling the timer it took. *)
LoopExits(a) ==
  /\ Does(a, "pick")
  /\ timer[a] # "none" /\ exiting[a]
  /\ AfterFiring(a)
  /\ Leave(a)
  /\ UNCHANGED <<program, mem, waitVars, exiting, fired, owed, now>>

(* The host runs another script on the root, and then its loop once more. *)
RunScript ==
  /\ Does(Root, "idle")
  /\ Goto(Root, "run")
  /\ fired' = [fired EXCEPT ![Root] = 0]
  /\ KeepTurn
  /\ UNCHANGED <<program, mem, waitVars, timer, exiting, owed, now>>

-----------------------------------------------------------------------------
(* What a script decides, and what happens on its own. *)
Script(a) ==
  \/ /\ a \in program.writes
     /\ \E l \in Locs : Store(a, l) \/ \E k \in Counts : Notify(a, l, k)
  \/ \E p \in Plans : WaitCheck(a, p)
  \/ /\ a \in program.timed
     /\ Exit(a) \/ \E t \in {"none", "once", "interval"} : SetTimer(a, t)
  \/ ScriptEnd(a) \/ Start(a)

Engine(a) ==
  \/ Preempt(a) \/ Enter(a)
  \/ Park(a) \/ ParkReturn(a) \/ ParkAsync(a)
  \/ \E r \in {"ok", "timed-out"} : Unpark(a, r) \/ ServiceEnds(a, r)
  \/ SettleReady(a) \/ FireTimer(a) \/ FinishAsyncWait(a)
  \/ LoopEnd(a) \/ LoopCapped(a) \/ LoopExits(a)
  \/ \E n \in 1..MaxWaits : Service(a, n)

Next == Tick \/ RunScript \/ \E a \in Agents : Script(a) \/ Engine(a)

Spec == Init /\ [][Next]_vars
FairSpec == Spec /\ WF_vars(Tick) /\ \A a \in Agents : WF_vars(Engine(a))

-----------------------------------------------------------------------------
(* A notify that counted a waiter is believed by it, and only that: a wait   *)
(* answers "ok" exactly when a notify claimed it, also when its timer fired  *)
(* in the same instant (atomicsPark's last lines, finishAsyncWait).          *)
CountedMeansOk ==
  \A w \in Waiters : result[w] # "none" => (result[w] = "ok" <=> w \in woken)

Heard(w) ==
  \/ w \in woken \/ mem[plan[w].loc] = plan[w].want \/ plan[w].loc \in owed
  \/ w \in missed

(* No wakeup is lost: somebody sleeping on a cell that no longer holds what  *)
(* it waited for is about to be notified, because whoever changed the cell   *)
(* has not notified yet.  The exception is a wait during whose coercion of   *)
(* the timeout, after the comparison, everybody on the cell was notified.    *)
(* Where no coercion runs code there is none: the comparison and the entry   *)
(* on the wait list are one step to the other agents, also to those whose    *)
(* coercions do (atomicsWaitCheck, atomicsPark, parkAsync).                  *)
NoLostWakeup ==
  /\ \A w \in ToSet(waiters) : Heard(w)
  /\ \A w \in missed : w[1] \in program.coerces

(* notify wakes the oldest first: on one cell nobody sleeps before a waiter  *)
(* that has been woken (README, "FIFO waiter list").                         *)
WokenInArrivalOrder ==
  \A i, j \in DOMAIN waiters :
    /\ i < j /\ plan[waiters[i]].loc = plan[waiters[j]].loc
    /\ waiters[j] \in woken
    => waiters[i] \in woken

(* An agent has its own entries in hand: it is blocked on one, and holds the *)
(* others as promises (atomicsPark, serviceAsyncWaits, Runtime.asyncWaits).  *)
Blocking == {"parked", "unpark", "service", "finish"}
Tended(w) ==
  \/ st[w[1]] \in Blocking /\ Current(w[1]) = w
  \/ w \in ToSet(asyncWaits[w[1]])
Owned == \A w \in ToSet(waiters) : Tended(w)

(* An agent leaves entries behind, which a notify will count and nobody      *)
(* answer, only if its loop did not end for lack of work.                    *)
CutShort(a) == exiting[a] \/ fired[a] = MaxMacrotasks
LeftOnlyIfCutShort ==
  \A w \in ToSet(waiters) : At(w[1], "dead") => CutShort(w[1])

Blocked(w) == w \in ToSet(waiters) /\ (~plan[w].async \/ (At(w[1], "service") /\ Current(w[1]) = w))

(* Blocking in the engine ends: a wait, or the event loop at a waitAsync,     *)
(* that was notified or has a timeout returns, whatever the other agents do,  *)
(* unless the root went back to its host with the turn (atomicsPark,          *)
(* serviceAsyncWaits).                                                        *)
WaitReturns ==
  \A w \in Waiters :
    (Blocked(w) /\ (w \in woken \/ deadline[w] # Forever))
    ~> (result[w] # "none" \/ At(Root, "idle"))
(* The wait list: in order of arrival on each cell, the woken before the      *)
(* others; every entry tended by its agent; and none of an agent whose event *)
(* loop ran out of work, though process.exit and the cap on its turns make   *)
(* it end with some (atomicsWake, atomicsPark, runEventLoop, agentStart).    *)
WaitListSound == TypeOK /\ WokenInArrivalOrder /\ Owned /\ LeftOnlyIfCutShort
=============================================================================
