----------------------------- MODULE Coroutines -----------------------------
(***************************************************************************)
(* Generators, async functions and async generators (generator.go, the     *)
(* drive functions of builtin_asynciterator.go): bodies that hand the      *)
(* engine to each other, what the engine is made to point at meanwhile,    *)
(* the request queue of an async generator, and what keeps a suspended     *)
(* body's frames in the collector's sight.                                 *)
(*                                                                         *)
(* A body runs on a goroutine of its own, but one side of the two channels *)
(* is always waiting: the stack of genDrive calls is the variable calls.   *)
(* The frames, slabs and compiled frames of a body, and the depths that go *)
(* with them, travel together and are one context here, named by whose it  *)
(* is.  A generator is created suspended at the start of its body; the     *)
(* collector looks at whatever moment the script runs.                     *)
(***************************************************************************)
EXTENDS Integers, Sequences, FiniteSets, SequencesExt

CONSTANTS Gens, Asyncs, AsyncGens,  \* coroutines, by kind
          MaxRequests,              \* bound: calls of next, return, throw on each async generator
          MaxResumes                \* bound: times each body is resumed

Co   == Gens \cup Asyncs \cup AsyncGens
Main == "main"   \* what runs outside every coroutine
None == "none"

ASSUME CoroutineAssumption ==
  /\ Gens \cap Asyncs = {} /\ Gens \cap AsyncGens = {} /\ Asyncs \cap AsyncGens = {}
  /\ Main \notin Co /\ None \notin Co
  /\ MaxRequests \in Nat /\ MaxResumes \in Nat \ {0}

VARIABLES
  state,       \* "fresh", "suspended" or "completed"; running says the rest
  running,     \* genState.running
  saved,       \* the context kept in the genState
  rtCtx,       \* the context the Runtime points at (rt.frames, rt.slabs, rt.jitFrames, depths)
  curGen,      \* rt.curGen
  parked,      \* rt.parked
  calls,       \* the genDrive calls under way, with the locals they restore from
  asyncFrames, \* rt.asyncFrames
  held,        \* generator objects the script can reach
  reqs,        \* genState.asyncReqs: [id, kind]
  active,      \* genState.asyncActive
  finishing,   \* the async generator whose front request has just been settled
  waiting,     \* reactions on promises that have not settled: [g, then, id]
  jobs,        \* reactions queued, with how the promise settled
  asked,       \* history: requests made so far
  answers,     \* history: the requests answered, in order
  resumes      \* times a body has been resumed

engine == <<running, saved, rtCtx, curGen, parked, calls>>
vars   == <<engine, state, asyncFrames, held, reqs, active, finishing, waiting, jobs, asked,
            answers, resumes>>

Init ==
  /\ state = [g \in Co |-> IF g \in Asyncs THEN "fresh" ELSE "suspended"]
  /\ running = [g \in Co |-> FALSE]
  /\ saved = [g \in Co |-> g]
  /\ rtCtx = Main /\ curGen = None /\ parked = <<>> /\ calls = <<>>
  /\ asyncFrames = {}
  /\ held = Gens \cup AsyncGens
  /\ reqs = [g \in AsyncGens |-> <<>>]
  /\ active = [g \in AsyncGens |-> FALSE]
  /\ finishing = None
  /\ waiting = {} /\ jobs = <<>>
  /\ asked = [g \in AsyncGens |-> 0]
  /\ answers = [g \in AsyncGens |-> <<>>]
  /\ resumes = [g \in Co |-> 0]

-----------------------------------------------------------------------------
(* The handoff *)

Top     == Last(calls)
Runner  == IF calls = <<>> THEN Main ELSE Top.g
Script  == finishing = None   \* script runs, rather than the code between two of its steps

(* The driver's frames are kept in Go locals alone. *)
DriveUnparked(g) ==
  /\ ~ running[g] /\ state[g] # "completed"
  /\ calls' = Append(calls, [g |-> g, prevGen |-> curGen, main |-> rtCtx])
  /\ curGen' = g
  /\ rtCtx' = saved[g]
  /\ running' = [running EXCEPT ![g] = TRUE]
  /\ resumes' = [resumes EXCEPT ![g] = @ + 1]
  /\ UNCHANGED <<saved, parked>>

(* genDrive up to its wait for the coroutine. *)
Drive(g) ==
  /\ ~ running[g] /\ state[g] # "completed"
  /\ calls' = Append(calls, [g |-> g, prevGen |-> curGen, main |-> rtCtx])
  /\ curGen' = g
  /\ parked' = Append(parked, rtCtx)
  /\ rtCtx' = saved[g]
  /\ running' = [running EXCEPT ![g] = TRUE]
  /\ resumes' = [resumes EXCEPT ![g] = @ + 1]
  /\ UNCHANGED saved

(* The driver goes on without its own curGen. *)
BackToNobody ==
  /\ calls' = Front(calls)
  /\ running' = [running EXCEPT ![Top.g] = FALSE]
  /\ parked' = Front(parked)
  /\ saved' = [saved EXCEPT ![Top.g] = rtCtx]
  /\ rtCtx' = Top.main
  /\ curGen' = None
  /\ UNCHANGED resumes

(* The rest of it, when the coroutine curGen has sent its message. *)
Back ==
  /\ calls' = Front(calls)
  /\ running' = [running EXCEPT ![Top.g] = FALSE]
  /\ parked' = Front(parked)
  /\ saved' = [saved EXCEPT ![Top.g] = rtCtx]
  /\ rtCtx' = Top.main
  /\ curGen' = Top.prevGen
  /\ UNCHANGED resumes

Stay == UNCHANGED <<engine, resumes>>

-----------------------------------------------------------------------------
(* Generators and async functions *)

(* next, return or throw on a generator.  One that is running is refused    *)
(* and one that is completed answers at once: neither changes anything.     *)
GenNext(g) ==
  /\ Script /\ g \in Gens \cap held
  /\ Drive(g)
  /\ UNCHANGED <<state, asyncFrames, held, reqs, active, finishing, waiting, jobs, asked, answers>>

Yield ==
  /\ Script /\ Runner \in Gens /\ resumes[Runner] < MaxResumes
  /\ Back
  /\ UNCHANGED <<state, asyncFrames, held, reqs, active, finishing, waiting, jobs, asked, answers>>

(* runAsync: the body runs in the caller up to its first await. *)
runAsync(f) ==
  /\ Script /\ f \in Asyncs /\ state[f] = "fresh"
  /\ asyncFrames' = asyncFrames \cup {f}
  /\ state' = [state EXCEPT ![f] = "suspended"]
  /\ Drive(f)
  /\ UNCHANGED <<held, reqs, active, finishing, waiting, jobs, asked, answers>>

(* A generator's or an async function's body returns or throws. *)
Finish ==
  /\ Script /\ Runner \in Gens \cup Asyncs
  /\ state' = [state EXCEPT ![Runner] = "completed"]
  /\ asyncFrames' = asyncFrames \ {Runner}
  /\ Back
  /\ UNCHANGED <<held, reqs, active, finishing, waiting, jobs, asked, answers>>

(* await in an async function or in an async generator.  When the operand's *)
(* constructor cannot be read the body goes on at once, with a throw.       *)
Await ==
  /\ Script /\ Runner \in Asyncs \cup AsyncGens /\ resumes[Runner] < MaxResumes
  /\ waiting' = waiting \cup
       {[g |-> Runner, then |-> "step", id |-> IF Runner \in Asyncs THEN 0 ELSE Head(reqs[Runner]).id]}
  /\ Back
  /\ UNCHANGED <<state, asyncFrames, held, reqs, active, finishing, jobs, asked, answers>>

-----------------------------------------------------------------------------
(* Async generators *)

(* Settle the promise of request id; the rest of asyncGenFinishReq follows. *)
Answer(g, id) ==
  /\ answers' = [answers EXCEPT ![g] = Append(@, id)]
  /\ finishing' = g

(* asyncGenStep on the front request r of queue q: a return value is awaited *)
(* first, a completed generator answers for itself, and otherwise the body   *)
(* goes on.                                                                  *)
Serve(g, r) ==
  \/ /\ r.kind = "return"
     /\ waiting' = waiting \cup {[g |-> g, then |-> "return", id |-> r.id]}
     /\ finishing' = None /\ Stay /\ UNCHANGED answers
  \/ /\ r.kind = "next" /\ state[g] # "completed" /\ ~ running[g]
     /\ Drive(g)
     /\ finishing' = None /\ UNCHANGED <<waiting, answers>>
  \/ /\ r.kind = "next" /\ (state[g] = "completed" \/ running[g])
     /\ Answer(g, r.id)
     /\ Stay /\ UNCHANGED waiting

(* A request is served without marking the generator busy. *)
DrainUnmarked(g, q) ==
  /\ reqs' = [reqs EXCEPT ![g] = q]
  /\ asyncFrames' = asyncFrames \cup {g}
  /\ UNCHANGED active
  /\ Serve(g, Head(q))

(* asyncGenDrain with the queue q. *)
Drain(g, q) ==
  /\ reqs' = [reqs EXCEPT ![g] = q]
  /\ active' = [active EXCEPT ![g] = TRUE]
  /\ asyncFrames' = asyncFrames \cup {g}
  /\ Serve(g, Head(q))

(* next or throw ("next"), or return, on an async generator; a return whose *)
(* value cannot be awaited is a throw.  It can come while the front request *)
(* is being settled: reading the then of the result object may run a getter. *)
Request(g, kind) ==
  LET q == Append(reqs[g], [id |-> asked[g] + 1, kind |-> kind])
  IN  /\ g \in AsyncGens \cap held /\ asked[g] < MaxRequests
      /\ asked' = [asked EXCEPT ![g] = @ + 1]
      /\ IF active[g] THEN /\ reqs' = [reqs EXCEPT ![g] = q]
                           /\ Stay /\ UNCHANGED <<active, asyncFrames, finishing, waiting, answers>>
         ELSE Script /\ Drain(g, q)
      /\ UNCHANGED <<state, held, jobs>>

(* What queued up meanwhile is left for the next request to find. *)
FinishReqOnly(g) ==
  /\ finishing = g
  /\ reqs' = [reqs EXCEPT ![g] = Tail(@)]
  /\ active' = [active EXCEPT ![g] = FALSE]
  /\ finishing' = None
  /\ Stay
  /\ UNCHANGED <<state, asyncFrames, held, waiting, jobs, asked, answers>>

(* asyncGenFinishReq *)
asyncGenFinishReq(g) ==
  LET q == Tail(reqs[g])
  IN  /\ finishing = g
      /\ IF q # <<>> THEN Drain(g, q)
         ELSE /\ reqs' = [reqs EXCEPT ![g] = q]
              /\ active' = [active EXCEPT ![g] = FALSE]
              /\ asyncFrames' = asyncFrames \ {g}
              /\ finishing' = None
              /\ Stay /\ UNCHANGED <<waiting, answers>>
      /\ UNCHANGED <<state, held, jobs, asked>>

(* yield: the operand is awaited before it is delivered. *)
AsyncYield ==
  /\ Script /\ Runner \in AsyncGens /\ resumes[Runner] < MaxResumes
  /\ waiting' = waiting \cup {[g |-> Runner, then |-> "deliver", id |-> Head(reqs[Runner]).id]}
  /\ Back
  /\ UNCHANGED <<state, asyncFrames, held, reqs, active, finishing, jobs, asked, answers>>

(* yield* delivers without waiting; so do return and throw of the body. *)
AsyncYieldStar ==
  /\ Script /\ Runner \in AsyncGens /\ resumes[Runner] < MaxResumes
  /\ Answer(Runner, Head(reqs[Runner]).id)
  /\ Back
  /\ UNCHANGED <<state, asyncFrames, held, reqs, active, waiting, jobs, asked>>

AsyncFinish ==
  /\ Script /\ Runner \in AsyncGens
  /\ state' = [state EXCEPT ![Runner] = "completed"]
  /\ Answer(Runner, Head(reqs[Runner]).id)
  /\ Back
  /\ UNCHANGED <<asyncFrames, held, reqs, active, waiting, jobs, asked>>

-----------------------------------------------------------------------------
(* Reactions *)

(* The promise a reaction waits for settles. *)
Settle(w, ok) ==
  /\ w \in waiting
  /\ waiting' = waiting \ {w}
  /\ jobs' = Append(jobs, [w |-> w, ok |-> ok])
  /\ UNCHANGED <<engine, state, asyncFrames, held, reqs, active, finishing, asked, answers, resumes>>

Turn == calls = <<>> /\ Script /\ jobs # <<>> /\ jobs' = Tail(jobs)

(* A body is resumed with a value, or with a throw at its suspension. *)
JobResume ==
  LET j == Head(jobs)
      g == j.w.g
  IN  /\ Turn
      /\ \/ j.w.then = "step"
         \/ j.w.then = "deliver" /\ ~ j.ok
         \/ j.w.then = "return" /\ state[g] # "completed"
      /\ Drive(g)
      /\ UNCHANGED <<state, asyncFrames, held, reqs, active, finishing, waiting, asked, answers>>

(* The consumer is given the yielded value, or the value of return on a     *)
(* generator that had completed.                                            *)
JobDeliver ==
  LET j == Head(jobs)
      g == j.w.g
  IN  /\ Turn
      /\ \/ j.w.then = "deliver" /\ j.ok
         \/ j.w.then = "return" /\ state[g] = "completed"
      /\ Answer(g, j.w.id)
      /\ UNCHANGED <<engine, state, asyncFrames, held, reqs, active, waiting, asked, resumes>>

Drop(g) ==
  /\ Script /\ g \in held
  /\ held' = held \ {g}
  /\ UNCHANGED <<engine, state, asyncFrames, reqs, active, finishing, waiting, jobs, asked, answers, resumes>>

Next ==
  \/ \E g \in Gens : GenNext(g)
  \/ \E f \in Asyncs : runAsync(f)
  \/ \E g \in AsyncGens : Request(g, "next") \/ Request(g, "return") \/ asyncGenFinishReq(g)
  \/ Yield \/ Finish \/ Await \/ AsyncYield \/ AsyncYieldStar \/ AsyncFinish
  \/ \E w \in waiting, ok \in BOOLEAN : Settle(w, ok)
  \/ JobResume \/ JobDeliver
  \/ \E g \in Co : Drop(g)

(* Bodies end (or suspend), the jobs are run, and what is awaited settles. *)
Fairness ==
  /\ WF_vars(Finish) /\ WF_vars(AsyncFinish)
  /\ WF_vars(\E g \in AsyncGens : asyncGenFinishReq(g))
  /\ WF_vars(\E w \in waiting, ok \in BOOLEAN : Settle(w, ok))
  /\ WF_vars(JobResume) /\ WF_vars(JobDeliver)

Spec     == Init /\ [][Next]_vars
FairSpec == Spec /\ Fairness

-----------------------------------------------------------------------------
(* Properties *)

TypeOK ==
  /\ state \in [Co -> {"fresh", "suspended", "completed"}]
  /\ running \in [Co -> BOOLEAN]
  /\ saved \in [Co -> Co \cup {Main}] /\ rtCtx \in Co \cup {Main}
  /\ curGen \in Co \cup {None} /\ finishing \in AsyncGens \cup {None}
  /\ asyncFrames \subseteq Asyncs \cup AsyncGens /\ held \subseteq Co
  /\ \A g \in AsyncGens : /\ reqs[g] \in Seq([id : 1 .. MaxRequests, kind : {"next", "return"}])
                          /\ answers[g] \in Seq(1 .. MaxRequests)
  /\ active \in [AsyncGens -> BOOLEAN]
  /\ asked \in [AsyncGens -> 0 .. MaxRequests] /\ resumes \in [Co -> Nat]

(* Whoever has the engine finds its own frames there and is the coroutine   *)
(* that a yield would suspend; whoever has not finds them where it left     *)
(* them, however the bodies drove each other (genDrive).                    *)
ContextIsOwn ==
  /\ rtCtx = Runner
  /\ curGen = IF Runner = Main THEN None ELSE Runner
  /\ \A g \in Co : ~ running[g] => saved[g] = g

InChain  == {Main} \cup {calls[i].g : i \in DOMAIN calls}
Awaited  == {w.g : w \in waiting} \cup {jobs[i].w.g : i \in DOMAIN jobs}
Resumable(g) == state[g] = "suspended" /\ ~ running[g] /\ (g \in held \/ g \in Awaited)

(* Those that wait for a coroutine they drove. *)
ChainFound == InChain \subseteq {rtCtx} \cup Range(parked)

(* The collector finds the frames of everyone who will run again: those     *)
(* that wait for a coroutine they drove, and those a reaction or the script *)
(* will resume (markRoots: rt.frames, rt.parked, rt.asyncFrames).           *)
FramesFound ==
  /\ ChainFound
  /\ \A g \in Co : Resumable(g) => g \in held \cup asyncFrames
  /\ \A g \in AsyncGens : reqs[g] # <<>> => g \in asyncFrames

(* The requests of an async generator are answered once each, in the order  *)
(* they were made, and each by the step that served it.                     *)
AnsweredInOrder ==
  \A g \in AsyncGens :
    LET n == Len(answers[g])
        left == IF finishing = g THEN n - 1 ELSE n
    IN  /\ answers[g] = [i \in 1 .. n |-> i]
        /\ [i \in DOMAIN reqs[g] |-> reqs[g][i].id] = [i \in 1 .. asked[g] - left |-> left + i]

(* An async generator that has requests is on its way: its body runs, or    *)
(* one reaction will go on with it, and never two.                          *)
OneStepAtATime ==
  \A g \in AsyncGens :
      Cardinality({w \in waiting : w.g = g}) + Cardinality({i \in DOMAIN jobs : jobs[i].w.g = g})
    + (IF running[g] THEN 1 ELSE 0) + (IF finishing = g THEN 1 ELSE 0)
    = (IF reqs[g] = <<>> THEN 0 ELSE 1)

(* Every request is answered in the end, with whatever came in meanwhile. *)
EveryRequestIsAnswered ==
  \A g \in AsyncGens : reqs[g] # <<>> ~> reqs[g] = <<>>
(* The requests of an async generator are served one at a time and answered  *)
(* once each, in order, by the step that served them (asyncGenDrain,         *)
(* asyncGenFinishReq).                                                       *)
RequestsInOrder == TypeOK /\ AnsweredInOrder /\ OneStepAtATime
=============================================================================
