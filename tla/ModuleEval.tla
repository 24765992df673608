----------------------------- MODULE ModuleEval -----------------------------
(***************************************************************************)
(* Evaluation of linked ES modules (module.go, module_defer.go): the       *)
(* depth-first walk of Evaluate() that groups the graph into strongly      *)
(* connected components, top-level await, the bookkeeping of who waits for *)
(* whom, and deferred modules, which the first property read runs.         *)
(*                                                                         *)
(* The Go call stack is the variable stack, so that a body may, in its     *)
(* middle, read a deferred namespace and start another walk.  A body is    *)
(* what it does to the graph: it reads namespaces it imported deferred,    *)
(* and returns, throws or (with top-level await) suspends.  Errors carry   *)
(* no value.  Synthetic (JSON) modules have no body and are left out.      *)
(***************************************************************************)
EXTENDS Integers, Sequences, FiniteSets, SequencesExt

CONSTANTS N,           \* modules 1 .. N; a module requests others in this order
          MaxImports,  \* bound: calls of Evaluate()
          MaxThrows    \* bound: bodies that throw

ASSUME ModuleAssumption == N \in Nat \ {0} /\ MaxImports \in Nat /\ MaxThrows \in Nat

Mods == 1 .. N
None == 0

VARIABLES
  req,       \* req[m][d]: how m requests d, "eager", "defer" or "no"
  tla,       \* the modules with a top-level await (fn.usesAwait)
  status,    \* moduleRecord.status
  cap,       \* the promise of evalCap: "none", "pending", "ok" or "fail"
  dfs, anc,  \* dfsIndex, dfsAncestorIndex
  cycleRoot, \* cycleRoot, None before the component is published
  order,     \* asyncEvalOrder, 0 while asyncEvaluation is false
  asyncEvalOrder,
  parents,   \* asyncParents
  pend,      \* pendingAsyncDeps
  stack,     \* the Go call stack, innermost frame last
  awaiting,  \* bodies suspended at a top-level await
  jobs,      \* microtasks: async bodies whose promise has settled
  body,      \* history: what became of each body
  asked,     \* history: <<m, t>>: an importer of m waits for t's promise
  parked,    \* history: read without an error, and not run when it returned
  throws     \* bodies that threw

graph  == <<req, tla>>
record == <<cap, dfs, anc, cycleRoot, order, asyncEvalOrder, parents, pend>>
vars   == <<graph, status, record, stack, awaiting, jobs, body, asked, parked, throws>>

-----------------------------------------------------------------------------
(* Graph *)

Requests(m)    == SelectSeq([d \in Mods |-> d], LAMBDA d : req[m][d] # "no")
settled(m)     == status[m] \in {"async", "evaluated", "errored"}
finished(m)    == status[m] \in {"evaluated", "errored"}
root(m)        == IF cycleRoot[m] = None THEN m ELSE cycleRoot[m]
Async(m)       == order[m] # 0

(* gatherAsyncDeps: what cannot be left until a deferred module is read. *)
RECURSIVE gatherAsyncDeps(_, _)
gatherAsyncDeps(m, acc) ==
  IF m \in acc.seen \/ settled(m) THEN acc
  ELSE LET a == [acc EXCEPT !.seen = @ \cup {m}]
       IN  IF m \in tla THEN [a EXCEPT !.out = Append(@, m)]
           ELSE FoldLeft(LAMBDA b, d : gatherAsyncDeps(d, b), a, Requests(m))

(* evaluationList: eager requests, and the async modules under deferred ones. *)
evaluationList(m) ==
  LET add(out, d) == IF Contains(out, d) THEN out ELSE Append(out, d)
      under(d)    == IF req[m][d] = "eager" THEN <<d>>
                     ELSE gatherAsyncDeps(d, [seen |-> {}, out |-> <<>>]).out
  IN  FoldLeft(LAMBDA out, d : FoldLeft(add, out, under(d)), <<>>, Requests(m))

(* A deferred module is run whatever is running already. *)
WithinNothing(m, seen) == FALSE

(* evaluatingWithin: something m would have to run is running already. *)
RECURSIVE evaluatingWithin(_, _)
evaluatingWithin(m, seen) ==
  /\ m \notin seen
  /\ \/ status[m] \in {"evaluating", "async"}
     \/ /\ ~settled(m)
        /\ \E d \in Mods : req[m][d] = "eager" /\ evaluatingWithin(d, seen \cup {m})

(* A parent is unblocked by the first dependency that finishes. *)
GatherEager(m, acc) ==
  FoldLeft(LAMBDA a, p :
             IF status[root(p)] = "errored" \/ Contains(a.list, p) THEN a
             ELSE [a EXCEPT !.pend[p] = @ - 1, !.list = Append(@, p)],
           acc, parents[m])

(* gatherAvailableAncestors: who m's completion unblocks. *)
RECURSIVE gatherAvailableAncestors(_, _)
gatherAvailableAncestors(m, acc) ==
  FoldLeft(LAMBDA a, p :
             IF status[root(p)] = "errored" \/ Contains(a.list, p) THEN a
             ELSE LET b == [a EXCEPT !.pend[p] = @ - 1]
                  IN  IF b.pend[p] # 0 THEN b
                      ELSE LET c == [b EXCEPT !.list = Append(@, p)]
                           IN  IF p \in tla THEN c ELSE gatherAvailableAncestors(p, c),
           acc, parents[m])

(* The modules asyncModuleExecutionRejected fails, m and what waits for it. *)
RECURSIVE Failing(_, _)
Failing(m, acc) ==
  IF finished(m) \/ m \in acc THEN acc
  ELSE FoldLeft(LAMBDA a, p : Failing(p, a), acc \cup {m}, parents[m])

-----------------------------------------------------------------------------
(* The call stack *)

Top       == Last(stack)
Below     == Front(stack)
Is(kind)  == stack # <<>> /\ Top.kind = kind
Walk(m)   == [kind |-> "walk", m |-> m, todo |-> evaluationList(m), ran |-> FALSE]
Run(m)    == [kind |-> "body", m |-> m]
Base(k, m)== [kind |-> k, m |-> m, comp |-> <<m>>, index |-> 1]

(* The innermost Evaluate() or runDeferred: it holds the component stack. *)
BaseAt == CHOOSE i \in DOMAIN stack :
            /\ stack[i].kind \in {"eval", "defer"}
            /\ \A j \in i + 1 .. Len(stack) : stack[j].kind \notin {"eval", "defer"}

Idle == stack = <<>>

Begin(m) == [body EXCEPT ![m] = IF @ = "unrun" THEN "running" ELSE "again"]

(* The entry of innerModuleEvaluation, index being the one m gets. *)
Enter(m, index) ==
  /\ status' = [status EXCEPT ![m] = "evaluating"]
  /\ dfs' = [dfs EXCEPT ![m] = index]
  /\ anc' = [anc EXCEPT ![m] = index]
  /\ pend' = [pend EXCEPT ![m] = 0]

Init ==
  /\ req \in [Mods -> [Mods -> {"no", "eager", "defer"}]]
  /\ \A m \in Mods : req[m][m] = "no"
  /\ tla \in SUBSET Mods
  /\ status = [m \in Mods |-> "new"]
  /\ cap = [m \in Mods |-> "none"]
  /\ dfs = [m \in Mods |-> 0] /\ anc = [m \in Mods |-> 0]
  /\ cycleRoot = [m \in Mods |-> None]
  /\ order = [m \in Mods |-> 0] /\ asyncEvalOrder = 0
  /\ parents = [m \in Mods |-> <<>>]
  /\ pend = [m \in Mods |-> 0]
  /\ stack = <<>> /\ awaiting = {} /\ jobs = <<>>
  /\ body = [m \in Mods |-> "unrun"]
  /\ asked = {} /\ parked = {}
  /\ throws = 0

(* A finished module answers for itself, not through its root. *)
OwnerIsSelf(m) == m

(* moduleEvaluate(m) with the stack under it: a finished module answers      *)
(* through its root; the first caller starts the walk.                       *)
Owner(m) == IF settled(m) THEN root(m) ELSE m

Evaluate(m, t, under) ==
  /\ asked' = asked \cup {<<m, t>>}
  /\ IF cap[t] = "none" /\ status[t] = "new"
     THEN /\ cap' = [cap EXCEPT ![t] = "pending"]
          /\ Enter(t, 0)
          /\ stack' = under \o <<Base("eval", t), Walk(t)>>
     ELSE /\ cap' = [cap EXCEPT ![t] = IF @ # "none" THEN @
                                         ELSE IF status[t] = "errored" THEN "fail"
                                         ELSE IF Async(t) THEN "pending" ELSE "ok"]
          /\ stack' = under
          /\ UNCHANGED <<status, dfs, anc, pend>>
  /\ UNCHANGED <<graph, cycleRoot, order, asyncEvalOrder, parents, awaiting, jobs, body, parked, throws>>

(* The microtask of an import(). *)
importModuleDynamic(m) ==
  /\ Idle /\ Cardinality(asked) < MaxImports
  /\ Evaluate(m, Owner(m), <<>>)

(* The microtask of an import.defer(): evaluate, one after the other, what   *)
(* cannot be left until the namespace is read.                               *)
importModuleDeferDynamic(m) ==
  LET list == gatherAsyncDeps(m, [seen |-> {}, out |-> <<>>]).out
  IN  /\ Idle /\ Cardinality(asked) < MaxImports
      /\ list # <<>>
      /\ stack' = <<[kind |-> "pends", list |-> list]>>
      /\ UNCHANGED <<graph, status, record, awaiting, jobs, body, asked, parked, throws>>

EvaluateNext ==
  LET d    == Head(Top.list)
      rest == Tail(Top.list)
  IN  /\ Is("pends")
      /\ Evaluate(d, Owner(d), IF rest = <<>> THEN <<>> ELSE <<[Top EXCEPT !.list = rest]>>)

-----------------------------------------------------------------------------
(* innerModuleEvaluation *)

AtDep(d) == Is("walk") /\ ~ Top.ran /\ Top.todo # <<>> /\ d = Head(Top.todo)

(* The recursive call for a dependency nobody has started. *)
WalkInto(d) ==
  /\ AtDep(d) /\ status[d] = "new"
  /\ Enter(d, stack[BaseAt].index)
  /\ stack' = Append([stack EXCEPT ![BaseAt].index = @ + 1, ![BaseAt].comp = Append(@, d)],
                     Walk(d))
  /\ UNCHANGED <<graph, cap, cycleRoot, order, asyncEvalOrder, parents, awaiting, jobs, body, asked, parked, throws>>

(* A dependency that is done, in flight, or a back edge into the component. *)
WalkDep(d) ==
  LET m == Top.m
      e == IF status[d] = "evaluating" THEN d ELSE root(d)
  IN  /\ AtDep(d) /\ status[d] # "new" /\ status[d] # "errored" /\ status[e] # "errored"
      /\ anc' = [anc EXCEPT ![m] = IF status[d] = "evaluating" /\ anc[d] < @ THEN anc[d] ELSE @]
      /\ pend' = [pend EXCEPT ![m] = IF Async(e) THEN @ + 1 ELSE @]
      /\ parents' = [parents EXCEPT ![e] = IF Async(e) THEN Append(@, m) ELSE @]
      /\ stack' = [stack EXCEPT ![Len(stack)].todo = Tail(@)]
      /\ UNCHANGED <<graph, status, cap, dfs, cycleRoot, order, asyncEvalOrder, awaiting, jobs, body, asked, parked, throws>>

(* An error leaves the walk: Evaluate() fails everything left on the        *)
(* component stack, runDeferred the module that was read and no other.      *)
Unwind ==
  LET b    == stack[BaseAt]
      dead == {b.m} \cup (IF b.kind = "eval" THEN Range(b.comp) ELSE {})
  IN  /\ status' = [m \in Mods |-> IF m \in dead THEN "errored" ELSE status[m]]
      /\ cap' = IF b.kind = "eval" THEN [cap EXCEPT ![b.m] = "fail"] ELSE cap
      /\ stack' = SubSeq(stack, 1, BaseAt - 1)

WalkRaise(d) ==
  /\ AtDep(d)
  /\ status[d] = "errored" \/ (status[d] # "evaluating" /\ status[root(d)] = "errored")
  /\ Unwind
  /\ UNCHANGED <<graph, dfs, anc, cycleRoot, order, asyncEvalOrder, parents, pend, awaiting, jobs, body, asked, parked, throws>>

(* Every dependency is behind: run the body, or leave it to a later job. *)
WalkRun ==
  LET m == Top.m
      async == pend[m] > 0 \/ m \in tla
  IN  /\ Is("walk") /\ ~ Top.ran /\ Top.todo = <<>>
      /\ asyncEvalOrder' = IF async THEN asyncEvalOrder + 1 ELSE asyncEvalOrder
      /\ order' = IF async THEN [order EXCEPT ![m] = asyncEvalOrder'] ELSE order
      /\ stack' = LET s == [stack EXCEPT ![Len(stack)].ran = TRUE]
                  IN  IF pend[m] = 0 THEN Append(s, Run(m)) ELSE s
      /\ body' = IF pend[m] = 0 THEN Begin(m) ELSE body
      /\ UNCHANGED <<graph, status, cap, dfs, anc, cycleRoot, parents, pend, awaiting, jobs, asked, parked, throws>>

(* m roots its component: pop it and publish what its members are now. *)
WalkPop ==
  LET m    == Top.m
      comp == stack[BaseAt].comp
      at   == CHOOSE i \in DOMAIN comp : comp[i] = m
      done == {comp[i] : i \in at .. Len(comp)}
  IN  /\ Is("walk") /\ Top.ran
      /\ IF anc[m] # dfs[m]
         THEN UNCHANGED <<status, cycleRoot>> /\ stack' = Below
         ELSE /\ status' = [x \in Mods |-> IF x \notin done THEN status[x]
                                           ELSE IF Async(x) THEN "async" ELSE "evaluated"]
              /\ cycleRoot' = [x \in Mods |-> IF x \in done THEN m ELSE cycleRoot[x]]
              /\ stack' = [Below EXCEPT ![BaseAt].comp = SubSeq(@, 1, at - 1)]
      /\ UNCHANGED <<graph, cap, dfs, anc, order, asyncEvalOrder, parents, pend, awaiting, jobs, body, asked, parked, throws>>

(* The walk of Evaluate() or of runDeferred is over. *)
BaseReturn ==
  /\ Is("eval") \/ Is("defer")
  /\ cap' = IF Is("eval") /\ ~ Async(Top.m) THEN [cap EXCEPT ![Top.m] = "ok"] ELSE cap
  /\ parked' = IF Is("defer") /\ status[Top.m] # "evaluated" THEN parked \cup {Top.m} ELSE parked
  /\ stack' = Below
  /\ UNCHANGED <<graph, status, dfs, anc, cycleRoot, order, asyncEvalOrder, parents, pend, awaiting, jobs, body, asked, throws>>

-----------------------------------------------------------------------------
(* Bodies *)

(* A property read of a namespace imported deferred: runDeferred, when it   *)
(* neither has an answer nor refuses.                                       *)
Touch(d) ==
  /\ Is("body") /\ req[Top.m][d] = "defer"
  /\ ~ finished(d) /\ ~ evaluatingWithin(d, {})
  /\ Enter(d, 0)
  /\ stack' = stack \o <<Base("defer", d), Walk(d)>>
  /\ UNCHANGED <<graph, cap, cycleRoot, order, asyncEvalOrder, parents, awaiting, jobs, body, asked, parked, throws>>

(* An ancestor that ran after its dependencies tells nobody. *)
SyncEndSilently(m, failed) ==
  IF Last(Below).kind = "walk" /\ failed THEN Unwind
  ELSE /\ UNCHANGED cap
       /\ status' = IF Last(Below).kind = "walk" THEN status
                    ELSE [status EXCEPT ![m] = IF failed THEN "errored" ELSE "evaluated"]
       /\ stack' = Below

(* What the frame under a finished synchronous body does with its result. *)
SyncEnd(m, failed) ==
  LET under == Last(Below)
      lost  == Failing(m, {})
  IN  CASE under.kind = "walk" /\ failed -> Unwind
        [] under.kind = "exec" /\ failed ->
             /\ status' = [x \in Mods |-> IF x \in lost THEN "errored" ELSE status[x]]
             /\ cap' = [x \in Mods |-> IF x \in lost /\ cap[x] = "pending" THEN "fail" ELSE cap[x]]
             /\ stack' = Below
        [] under.kind = "exec" /\ ~ failed ->
             /\ status' = [status EXCEPT ![m] = "evaluated"]
             /\ cap' = [cap EXCEPT ![m] = IF @ = "pending" THEN "ok" ELSE @]
             /\ stack' = Below
        [] OTHER -> UNCHANGED <<status, cap>> /\ stack' = Below

Lowered(m, failed) ==
  IF Last(Below).kind # "exec" THEN order
  ELSE [x \in Mods |-> IF x \in (IF failed THEN Failing(m, {}) ELSE {m}) THEN 0 ELSE order[x]]

(* A body without top-level await returns or throws before genDrive does. *)
BodyEnd(failed) ==
  LET m == Top.m
  IN  /\ Is("body") /\ m \notin tla
      /\ failed => throws < MaxThrows
      /\ throws' = throws + (IF failed THEN 1 ELSE 0)
      /\ body' = [body EXCEPT ![m] = IF failed THEN "failed" ELSE "ok"]
      /\ SyncEnd(m, failed)
      /\ order' = Lowered(m, failed)
      /\ UNCHANGED <<graph, dfs, anc, cycleRoot, asyncEvalOrder, parents, pend, awaiting, jobs, asked, parked>>

(* A body with one suspends (bound: once), or settles its promise, whose    *)
(* reaction is a job.                                                       *)
AsyncBodySuspend ==
  /\ Is("body") /\ Top.m \in tla /\ body[Top.m] = "running"
  /\ awaiting' = awaiting \cup {Top.m}
  /\ stack' = Below
  /\ UNCHANGED <<graph, status, record, jobs, body, asked, parked, throws>>

AsyncBodyEnd(failed) ==
  LET m == Top.m
  IN  /\ Is("body") /\ m \in tla
      /\ failed => throws < MaxThrows
      /\ throws' = throws + (IF failed THEN 1 ELSE 0)
      /\ body' = [body EXCEPT ![m] = IF failed THEN "failed" ELSE "ok"]
      /\ jobs' = Append(jobs, m)
      /\ stack' = Below
      /\ UNCHANGED <<graph, status, record, awaiting, asked, parked>>

(* The awaited promise has settled: the body goes on in a job. *)
Resume(m) ==
  /\ Idle /\ m \in awaiting
  /\ awaiting' = awaiting \ {m}
  /\ body' = [body EXCEPT ![m] = "resumed"]
  /\ stack' = <<Run(m)>>
  /\ UNCHANGED <<graph, status, record, jobs, asked, parked, throws>>

-----------------------------------------------------------------------------
(* Completion of async modules *)

(* asyncModuleExecutionFulfilled up to its loop: settle m, and line up the  *)
(* ancestors this unblocks, oldest asyncEvalOrder first.                    *)
Fulfilled(m) ==
  LET g == gatherAvailableAncestors(m, [pend |-> pend, list |-> <<>>])
  IN  /\ status' = [status EXCEPT ![m] = "evaluated"]
      /\ order' = [order EXCEPT ![m] = 0]
      /\ cap' = [cap EXCEPT ![m] = IF @ = "pending" THEN "ok" ELSE @]
      /\ pend' = g.pend
      /\ stack' = <<[kind |-> "exec", list |-> SortSeq(g.list, LAMBDA a, b : order[a] < order[b])]>>

(* asyncModuleExecutionRejected *)
Rejected(m) ==
  LET lost == Failing(m, {})
  IN  /\ status' = [x \in Mods |-> IF x \in lost THEN "errored" ELSE status[x]]
      /\ order' = [x \in Mods |-> IF x \in lost THEN 0 ELSE order[x]]
      /\ cap' = [x \in Mods |-> IF x \in lost /\ cap[x] = "pending" THEN "fail" ELSE cap[x]]
      /\ UNCHANGED <<pend, stack>>

Job ==
  LET m == Head(jobs)
  IN  /\ Idle /\ jobs # <<>>
      /\ jobs' = Tail(jobs)
      /\ IF finished(m) THEN UNCHANGED <<status, order, cap, pend, stack>>
         ELSE IF body[m] = "ok" THEN Fulfilled(m) ELSE Rejected(m)
      /\ UNCHANGED <<graph, dfs, anc, cycleRoot, asyncEvalOrder, parents, awaiting, body, asked, parked, throws>>

(* The loop over the unblocked ancestors. *)
Exec ==
  LET p == Head(Top.list)
      s == [stack EXCEPT ![Len(stack)].list = Tail(@)]
  IN  /\ Is("exec")
      /\ stack' = IF Top.list = <<>> THEN Below
                  ELSE IF finished(p) THEN s ELSE Append(s, Run(p))
      /\ body' = IF Top.list # <<>> /\ ~ finished(p) THEN Begin(p) ELSE body
      /\ UNCHANGED <<graph, status, record, awaiting, jobs, asked, parked, throws>>

Next ==
  \/ \E m \in Mods : importModuleDynamic(m) \/ importModuleDeferDynamic(m) \/ Resume(m)
  \/ \E d \in Mods : WalkInto(d) \/ WalkDep(d) \/ WalkRaise(d) \/ Touch(d)
  \/ EvaluateNext \/ WalkRun \/ WalkPop \/ BaseReturn
  \/ \E failed \in BOOLEAN : BodyEnd(failed) \/ AsyncBodyEnd(failed)
  \/ AsyncBodySuspend \/ Job \/ Exec

Spec == Init /\ [][Next]_vars

-----------------------------------------------------------------------------
(* Properties *)

TypeOK ==
  /\ status \in [Mods -> {"new", "evaluating", "async", "evaluated", "errored"}]
  /\ cap \in [Mods -> {"none", "pending", "ok", "fail"}]
  /\ cycleRoot \in [Mods -> 0 .. N] /\ pend \in [Mods -> Nat]
  /\ order \in [Mods -> 0 .. asyncEvalOrder]
  /\ awaiting \subseteq tla /\ Range(jobs) \subseteq tla
  /\ body \in [Mods -> {"unrun", "running", "resumed", "ok", "failed", "again"}]
  /\ asked \subseteq Mods \X Mods

RECURSIVE Closure(_, _)
Closure(S, kinds) ==
  LET T == S \cup {d \in Mods : \E m \in S : req[m][d] \in kinds}
  IN  IF T = S THEN S ELSE Closure(T, kinds)

Needs(m)   == Closure({m}, {"eager"})
Reaches(m) == Closure({m}, {"eager", "defer"})

(* Modules a walk has left in the middle, that no walk will come back to. *)
OnStack  == UNION {Range(stack[i].comp) : i \in {j \in DOMAIN stack : stack[j].kind \in {"eval", "defer"}}}
Stranded == {m \in Mods : status[m] = "evaluating"} \ OnStack

(* m stands on something a property read has left unfinished: a module its *)
(* failure stranded, or one it parked behind a top-level await.            *)
LeftOver(m) == Needs(m) \cap (Stranded \cup parked) # {}

Quiet    == Idle /\ jobs = <<>> /\ awaiting = {}

(* No module body is ever entered twice, whoever imports, awaits, rejects  *)
(* or reads a deferred namespace in the middle of what                     *)
(* (module.go executeModuleBody, executeAsyncModule).                      *)
BodyOnce == \A m \in Mods : body[m] # "again"

(* A body starts only when every module it requests eagerly has run to its *)
(* end, top-level await included, unless that module reaches it in turn    *)
(* (module.go innerModuleEvaluation, gatherAvailableAncestors).            *)
DepsFirst ==
  \A m, d \in Mods : body[m] # "unrun" /\ req[m][d] = "eager"
                        => body[d] = "ok" \/ m \in Reaches(d) \/ LeftOver(d)

(* An import that fulfils has run everything the module needs, and one that *)
(* rejects has something that threw behind it; what a failed property read  *)
(* has stranded is the subject of FailureRemembered.                        *)
OutcomeIsEarned ==
  \A a \in asked :
    /\ cap[a[2]] = "ok" => \A x \in Needs(a[1]) : body[x] = "ok" \/ LeftOver(x)
    /\ cap[a[2]] = "fail" => \E x \in Reaches(a[1]) : body[x] = "failed"

(* An import of a module whose body threw does not fulfil: a failed module  *)
(* is remembered and rethrown to every later importer (module.go:23).       *)
FailureRemembered ==
  \A a \in asked : body[a[1]] = "failed" => cap[a[2]] # "ok"

Count(m, d) == Cardinality({i \in DOMAIN parents[d] : parents[d][i] = m})

(* Between jobs, a waiting module's count is the number of unfinished async *)
(* modules that have it for a parent: none is counted twice or forgotten    *)
(* (module.go pendingAsyncDeps).                                            *)
PendingExact ==
  Idle => \A m \in Mods : status[m] = "async" /\ ~ LeftOver(m) =>
            pend[m] = FoldSet(LAMBDA d, n : n + Count(m, d), 0, {d \in Mods : Async(d)})

(* When nothing is left to run, nothing is left waiting. *)
NothingLeftWaiting ==
  Quiet => /\ \A a \in asked : cap[a[2]] \in {"ok", "fail"} \/ LeftOver(a[1])
           /\ \A m \in Mods : status[m] \in {"evaluating", "async"} => LeftOver(m)
(* Whoever waits has something to wait for: the counts are exact between     *)
(* jobs, and when nothing is left to run nobody is left waiting              *)
(* (pendingAsyncDeps, asyncModuleExecutionFulfilled).                        *)
WaitsAreExact == TypeOK /\ PendingExact /\ NothingLeftWaiting
=============================================================================
