----------------------------- MODULE PromiseJobs -----------------------------
(***************************************************************************)
(* Promises (builtin_promise.go): resolving functions, adoption of         *)
(* thenables, reactions and the microtask queue, the combinators, and what *)
(* the collector (collect.go) can see of all that, most of which lives in  *)
(* Go closures it cannot look into.                                        *)
(*                                                                         *)
(* The script is what it does to promises: it makes them, calls the        *)
(* functions it was given, registers handlers, returns or throws from      *)
(* them, and forgets references.  The constructor is Promise itself, not a *)
(* subclass.  Collections happen while it runs and no built-in does.       *)
(***************************************************************************)
EXTENDS Integers, Sequences, FiniteSets, SequencesExt

CONSTANTS Promise,   \* cells for promises
          Kinds,     \* the combinators the script may call (once, over two elements)
          MaxOps     \* bound: what the script does

AllKinds == {"all", "allSettled", "any", "race", "allKeyed", "allSettledKeyed"}

ASSUME PromiseAssumption == IsFiniteSet(Promise) /\ Kinds \subseteq AllKinds /\ MaxOps \in Nat

(* References and values *)
Prom(p)    == [k |-> "promise", p |-> p]
Pair(p, n) == [k |-> "pair", p |-> p, n |-> n]   \* the n-th resolve and reject of p
Elem(i)    == [k |-> "elem", i |-> i]            \* an element function of the combinator
Arr        == [k |-> "arr"]                      \* its results array, object or error
Js         == [k |-> "js"]                       \* a function of the script
Nothing    == [k |-> "none"]
Data(x)    == [k |-> x]                          \* "a", "err": no then
Thenable   == [k |-> "thenable"]                 \* an object with a then of its own
BadThen    == [k |-> "bad"]                      \* an object whose then cannot be read

VARIABLES
  st,       \* p -> promiseState: state, value and handlers
  jobs,     \* rt.microtasks
  open,     \* pairs whose done is still false
  gen,      \* p -> pairs made for p so far
  comb,     \* the combinator call: its captured variables and how far it is
  run,      \* the job whose script is running: it is in rt.inFlight
  held,     \* what the script has a reference to
  ops,
  cnt, ran, \* history: p -> reactions registered on p, reactions of p started
  follows   \* history: p -> the promise p was last resolved with

world == <<st, jobs, open, gen, comb, cnt, follows>>
vars  == <<world, run, held, ops, ran>>

Fresh   == [state |-> "pending", val |-> Nothing, handlers |-> <<>>]
Free    == [state |-> "free", val |-> Nothing, handlers |-> <<>>]
NoComb  == [kind |-> "none", result |-> Nothing, elems |-> <<>>, at |-> 0, remaining |-> 0,
            called |-> {}, res |-> <<>>, phase |-> "none"]
W == [st |-> st, jobs |-> jobs, open |-> open, gen |-> gen, comb |-> comb, cnt |-> cnt,
      follows |-> follows]
Becomes(w) ==
  /\ st' = w.st /\ jobs' = w.jobs /\ open' = w.open /\ gen' = w.gen
  /\ comb' = w.comb /\ cnt' = w.cnt /\ follows' = w.follows

-----------------------------------------------------------------------------
(* Settlement *)

(* The last handler registered goes first. *)
ReactsBackwards(handlers, s, v) ==
  [i \in DOMAIN handlers |-> [kind |-> "react", r |-> handlers[Len(handlers) + 1 - i], s |-> s, v |-> v]]

Reacts(handlers, s, v) ==
  [i \in DOMAIN handlers |-> [kind |-> "react", r |-> handlers[i], s |-> s, v |-> v]]

(* fulfillPromise, rejectPromise: the first settlement counts, and queues    *)
(* the reactions.                                                            *)
Settle(w, p, s, v) ==
  IF w.st[p].state # "pending" THEN w
  ELSE [w EXCEPT !.st[p] = [state |-> s, val |-> v, handlers |-> <<>>],
                 !.jobs = @ \o Reacts(w.st[p].handlers, s, v)]

(* resolvePromise: a thenable is adopted in a job of its own. *)
Resolve(w, p, v) ==
  IF w.st[p].state # "pending" THEN w
  ELSE IF v \in {Prom(p), BadThen} THEN Settle(w, p, "rej", Data("err"))
  ELSE IF v.k \in {"promise", "thenable"}
       THEN [w EXCEPT !.jobs = Append(@, [kind |-> "adopt", p |-> p, v |-> v]),
                      !.follows[p] = v]
       ELSE Settle(w, p, "ful", v)

(* A resolve function that does not remember having been called. *)
CallPairAgain(w, f, ok, v) ==
  IF ok THEN Resolve(w, f.p, v) ELSE Settle([w EXCEPT !.open = @ \ {f}], f.p, "rej", v)

(* A call of a resolve (ok) or reject function. *)
CallPair(w, f, ok, v) ==
  IF f \notin w.open THEN w
  ELSE LET u == [w EXCEPT !.open = @ \ {f}]
       IN  IF ok THEN Resolve(u, f.p, v) ELSE Settle(u, f.p, "rej", v)

(* A reaction on a settled promise is told that it was fulfilled. *)
ThenCapFulfilled(w, p, onF, onR, result) ==
  LET r == [onF |-> onF, onR |-> onR, result |-> result, src |-> p, at |-> w.cnt[p] + 1]
      u == [w EXCEPT !.cnt[p] = @ + 1]
  IN  IF w.st[p].state = "pending" THEN [u EXCEPT !.st[p].handlers = Append(@, r)]
      ELSE [u EXCEPT !.jobs = @ \o Reacts(<<r>>, "ful", w.st[p].val)]

(* promiseThenCap: register a reaction, or queue it when p is settled. *)
promiseThenCap(w, p, onF, onR, result) ==
  LET r == [onF |-> onF, onR |-> onR, result |-> result, src |-> p, at |-> w.cnt[p] + 1]
      u == [w EXCEPT !.cnt[p] = @ + 1]
  IN  IF w.st[p].state = "pending" THEN [u EXCEPT !.st[p].handlers = Append(@, r)]
      ELSE [u EXCEPT !.jobs = @ \o Reacts(<<r>>, w.st[p].state, w.st[p].val)]

(* A fresh pair of resolving functions for p. *)
NewPair(w, p) == [w EXCEPT !.gen[p] = @ + 1, !.open = @ \cup {Pair(p, w.gen[p] + 1)}]

-----------------------------------------------------------------------------
(* Combinators *)

CapPair(c) == Pair(c.result, 1)
Settled(c) == c.kind \in {"allSettled", "allSettledKeyed"}
Counted(c) == c.kind # "race"

(* The two functions element i is given. *)
OnF(c, i) == IF c.kind \in {"any", "race"} THEN CapPair(c) ELSE Elem(i)
OnR(c, i) == IF Settled(c) \/ c.kind = "any" THEN Elem(i) ELSE CapPair(c)

(* The last but one finishes. *)
TryFinishEarly(w) ==
  LET u == [w EXCEPT !.comb.remaining = @ - 1]
  IN  IF u.comb.remaining > 1 THEN u
      ELSE CallPair(u, CapPair(u.comb), u.comb.kind # "any", Arr)

(* tryFinish, and the end of any: one less to wait for. *)
tryFinish(w) ==
  LET u == [w EXCEPT !.comb.remaining = @ - 1]
  IN  IF u.comb.remaining # 0 THEN u
      ELSE CallPair(u, CapPair(u.comb), u.comb.kind # "any", Arr)

(* A call of the element function i. *)
CallElem(w, i, ok, v) ==
  IF i \in w.comb.called THEN w
  ELSE tryFinish([w EXCEPT !.comb.called = @ \cup {i},
                           !.comb.res[i] = [ok |-> ok, v |-> v]])

(* The native function f is called with v by a reaction, or by the script. *)
CallNative(w, f, ok, v) ==
  IF f.k = "pair" THEN CallPair(w, f, ok, v) ELSE CallElem(w, f.i, ok, v)

-----------------------------------------------------------------------------
(* What holds what *)

(* job.roots *)
JobRoots(j) ==
  IF j.kind = "react" THEN {j.r.onF, j.r.onR, j.r.result, j.v} ELSE {Prom(j.p), j.v}

(* What the job's closure works with. *)
JobUses(j) ==
  IF j.kind = "react" THEN {IF j.s = "ful" THEN j.r.onF ELSE j.r.onR, j.r.result, j.v}
  ELSE {Prom(j.p), j.v}

(* The slice the combinators give holdCaptures. *)
Held(c) ==
  {Prom(c.result), CapPair(c)} \cup (IF c.kind \in {"allKeyed", "allSettledKeyed"} THEN {} ELSE {Arr})

(* traceObject, and the captures registered with holdCaptures. *)
Traces(x) ==
  CASE x.k = "promise" -> {st[x.p].val} \cup UNION {{h.onF, h.onR, h.result} : h \in Range(st[x.p].handlers)}
    [] x.k = "pair"    -> {Prom(x.p)} \cup (IF comb.at > 0 /\ x = CapPair(comb) /\ ~ Settled(comb)
                                            THEN Held(comb) ELSE {})
    [] x.k = "elem" /\ comb.kind # "none" -> Held(comb)
    [] x.k = "arr"     -> {comb.res[i].v : i \in DOMAIN comb.res}
    [] OTHER           -> {}

(* What calling or reading x leads to. *)
Uses(x) ==
  CASE x.k = "elem" /\ comb.kind # "none" -> {Arr, CapPair(comb)}
    [] x.k = "pair"    -> {Prom(x.p)}
    [] OTHER           -> Traces(x)

(* What there is to refer to. *)
Refs == {Prom(p) : p \in Promise} \cup (UNION {{Pair(p, n) : n \in 1 .. gen[p]} : p \in Promise})
          \cup {Elem(1), Elem(2), Arr, Js, Nothing, Data("a"), Data("err"), Thenable, BadThen}

(* What is reached from X along e. *)
Close(X, e) ==
  LET f[S \in SUBSET Refs] == LET T == S \cup UNION {e[x] : x \in S}
                              IN  IF T = S THEN S ELSE f[T]
  IN  f[X]

(* A job off the queue is not rooted. *)
NoneInFlight == {}

(* holdInFlight *)
InFlight == IF run.kind = "none" THEN {} ELSE JobRoots(run)
Roots    == held \cup InFlight \cup UNION {JobRoots(j) : j \in Range(jobs)}
InUse    == held \cup (IF run.kind = "none" THEN {} ELSE JobUses(run))
                 \cup UNION {JobUses(j) : j \in Range(jobs)}
Marked   == Close(Roots, [x \in Refs |-> Traces(x)])
Used     == Close(InUse, [x \in Refs |-> Uses(x)])

-----------------------------------------------------------------------------
(* The script *)

NoRun == [kind |-> "none"]
FreeCells == {p \in Promise : st[p].state = "free" /\ \A j \in Range(jobs) : j.kind = "react" => j.r.src # p}
Op    == ops < MaxOps /\ ops' = ops + 1
Vals  == {Data("a"), Thenable} \cup {x \in held : x.k = "promise"}

Init ==
  /\ st = [p \in Promise |-> Free]
  /\ jobs = <<>> /\ open = {} /\ gen = [p \in Promise |-> 0]
  /\ comb = NoComb
  /\ run = NoRun /\ held = {} /\ ops = 0
  /\ cnt = [p \in Promise |-> 0] /\ ran = [p \in Promise |-> 0]
  /\ follows = [p \in Promise |-> Nothing]

(* new Promise(executor), Promise.withResolvers *)
NewPromise ==
  \E p \in FreeCells :
    /\ Op
    /\ Becomes(NewPair([W EXCEPT !.st[p] = Fresh], p))
    /\ held' = held \cup {Prom(p), Pair(p, 1)}
    /\ UNCHANGED <<run, ran>>

(* A then the script wrote is given one function to resolve with and one to *)
(* reject with, which may be an element function or the result's own.       *)
Given(f, ok) ==
  \/ f.k = "pair" /\ (comb.kind # "none" => f # CapPair(comb))
  \/ comb.kind # "none" /\ \E i \in 1 .. comb.at : f = IF ok THEN OnF(comb, i) ELSE OnR(comb, i)

(* The script calls a function it was given. *)
Call ==
  \E f \in held, ok \in BOOLEAN :
    /\ f.k \in {"pair", "elem"} /\ Given(f, ok) /\ Op
    /\ \E v \in IF ok THEN Vals ELSE {Data("err")} : Becomes(CallNative(W, f, ok, v))
    /\ UNCHANGED <<run, held, ran>>

(* Promise.prototype.then with one handler (a reaction uses one). *)
Then ==
  \E x \in held, d \in FreeCells, hs \in {<<Js, Nothing>>, <<Nothing, Js>>} :
    /\ x.k = "promise" /\ Op
    /\ Becomes(promiseThenCap([W EXCEPT !.st[d] = Fresh], x.p, hs[1], hs[2], Prom(d)))
    /\ held' = held \cup {Prom(d)}
    /\ UNCHANGED <<run, ran>>

Drop ==
  \E x \in held :
    /\ Op
    /\ held' = held \ {x}
    /\ UNCHANGED <<world, run, ran>>

(* promiseAll, promiseAllKeyed, promiseRace up to their loop.  An element is *)
(* a promise, or (Nothing) an object whose then keeps what it is given.      *)
CombStart(kind) ==
  \E p \in FreeCells, es \in [1 .. 2 -> {x \in held : x.k = "promise"} \cup {Nothing}] :
    /\ comb.phase = "none" /\ Op
    /\ Becomes(NewPair([W EXCEPT !.st[p] = Fresh,
                                 !.comb = [NoComb EXCEPT !.kind = kind, !.result = p, !.elems = es,
                                                         !.remaining = 1, !.phase = "iter"]], p))
    /\ held' = held \cup {Prom(p)}
    /\ UNCHANGED <<run, ran>>

(* The loop: the next element is given its functions. *)
CombNext ==
  LET c == comb
      i == c.at + 1
      e == c.elems[i]
      w == [W EXCEPT !.comb.at = i, !.comb.res = Append(@, [ok |-> FALSE, v |-> Nothing]),
                     !.comb.remaining = IF Counted(c) THEN @ + 1 ELSE @]
  IN  /\ c.phase = "iter" /\ c.at < Len(c.elems)
      /\ IF e = Nothing
         THEN Becomes(w) /\ held' = held \cup {OnF(c, i), OnR(c, i)}
         ELSE Becomes(promiseThenCap(w, e.p, OnF(c, i), OnR(c, i), Nothing)) /\ UNCHANGED held
      /\ UNCHANGED <<run, ops, ran>>

(* The iterator, or the then of an element, throws. *)
CombThrow ==
  /\ comb.phase = "iter" /\ Op
  /\ Becomes(CallPair([W EXCEPT !.comb.phase = "thrown"], CapPair(comb), FALSE, Data("err")))
  /\ UNCHANGED <<run, held, ran>>

CombEnd ==
  /\ comb.phase = "iter" /\ comb.at = Len(comb.elems)
  /\ LET w == [W EXCEPT !.comb.phase = "done"]
     IN  Becomes(IF Counted(comb) THEN tryFinish(w) ELSE w)
  /\ UNCHANGED <<run, held, ops, ran>>

-----------------------------------------------------------------------------
(* drainMicrotasks *)

Draining == run = NoRun /\ comb.phase # "iter" /\ jobs # <<>>
Took     == [W EXCEPT !.jobs = Tail(@)]
Started(j) == ran' = [ran EXCEPT ![j.r.src] = IF st[j.r.src].state = "free" THEN 0 ELSE @ + 1]
Handler(j) == IF j.s = "ful" THEN j.r.onF ELSE j.r.onR

(* runReaction without a handler: the outcome passes through. *)
Pass(j) ==
  /\ Draining /\ j.kind = "react" /\ Handler(j) = Nothing
  /\ Becomes(IF j.s = "ful" THEN Resolve(Took, j.r.result.p, j.v)
             ELSE Settle(Took, j.r.result.p, "rej", j.v))
  /\ Started(j)
  /\ UNCHANGED <<run, held, ops>>

(* runReaction with a built-in for a handler. *)
React(j) ==
  /\ Draining /\ j.kind = "react" /\ Handler(j).k \in {"pair", "elem"}
  /\ Becomes(CallNative(Took, Handler(j), j.s = "ful", j.v))
  /\ Started(j)
  /\ UNCHANGED <<run, held, ops>>

(* runReaction calls the script. *)
ReactJs(j) ==
  /\ Draining /\ j.kind = "react" /\ Handler(j) = Js
  /\ Becomes(Took)
  /\ run' = j
  /\ Started(j)
  /\ UNCHANGED <<held, ops>>

(* runThenableJob of a promise: its then registers the new pair. *)
Adopt(j) ==
  LET w == NewPair(Took, j.p)
      f == Pair(j.p, w.gen[j.p])
  IN  /\ Draining /\ j.kind = "adopt" /\ j.v.k = "promise"
      /\ Becomes(promiseThenCap(w, j.v.p, f, f, Nothing))
      /\ UNCHANGED <<run, held, ops, ran>>

(* runThenableJob of an object whose then is the script's. *)
AdoptJs(j) ==
  LET w == NewPair(Took, j.p)
  IN  /\ Draining /\ j.kind = "adopt" /\ j.v = Thenable
      /\ Becomes(w)
      /\ held' = held \cup {Pair(j.p, w.gen[j.p])}
      /\ run' = j
      /\ UNCHANGED <<ops, ran>>

(* The script a job called returns v, or throws. *)
Return ==
  /\ run # NoRun /\ comb.phase # "iter"
  /\ IF run.kind = "react" THEN \E v \in Vals \cup {BadThen} : Becomes(Resolve(W, run.r.result.p, v))
     ELSE UNCHANGED world
  /\ run' = NoRun
  /\ UNCHANGED <<held, ops, ran>>

Throw ==
  /\ run # NoRun /\ comb.phase # "iter"
  /\ Becomes(IF run.kind = "react" THEN Settle(W, run.r.result.p, "rej", Data("err"))
             ELSE CallPair(W, Pair(run.p, gen[run.p]), FALSE, Data("err")))
  /\ run' = NoRun
  /\ UNCHANGED <<held, ops, ran>>

(* A collection, at a safepoint of the script. *)
MayCollect == comb.phase # "iter"

Collect ==
  LET dead == {p \in Promise : st[p].state # "free" /\ Prom(p) \notin Marked}
  IN  /\ MayCollect /\ dead # {}
      /\ st' = [p \in Promise |-> IF p \in dead THEN Free ELSE st[p]]
      /\ open' = {f \in open : f.p \notin dead}
      /\ gen' = [p \in Promise |-> IF p \in dead THEN 0 ELSE gen[p]]
      /\ cnt' = [p \in Promise |-> IF p \in dead THEN 0 ELSE cnt[p]]
      /\ ran' = [p \in Promise |-> IF p \in dead THEN 0 ELSE ran[p]]
      /\ follows' = [p \in Promise |-> IF p \in dead \/ \E q \in dead : follows[p] = Prom(q)
                                       THEN Nothing ELSE follows[p]]
      /\ comb' = IF comb.result \in dead THEN [NoComb EXCEPT !.phase = "done"]
                 ELSE [comb EXCEPT !.elems = [i \in DOMAIN @ |->
                         IF \E q \in dead : @[i] = Prom(q) THEN Nothing ELSE @[i]]]
      /\ UNCHANGED <<jobs, run, held, ops>>

Next ==
  \/ NewPromise \/ Call \/ Then \/ Drop \/ Collect
  \/ \E kind \in Kinds : CombStart(kind)
  \/ CombNext \/ CombThrow \/ CombEnd
  \/ \E j \in {jobs[i] : i \in 1 .. (IF jobs = <<>> THEN 0 ELSE 1)} :
       Pass(j) \/ React(j) \/ ReactJs(j) \/ Adopt(j) \/ AdoptJs(j)
  \/ Return \/ Throw

Spec == Init /\ [][Next]_vars

-----------------------------------------------------------------------------
(* Properties *)

Alive(p) == st[p].state # "free"

(* The states, and no job works on a promise that has been collected. *)
TypeOK ==
  /\ \A p \in Promise : st[p].state \in {"free", "pending", "ful", "rej"}
  /\ \A p \in Promise : st[p].state # "pending" => st[p].handlers = <<>>
  /\ \A f \in open : f.k = "pair" /\ f.n \in 1 .. gen[f.p] /\ Alive(f.p)
  /\ \A j \in Range(jobs) : IF j.kind = "adopt" THEN Alive(j.p)
                             ELSE j.r.result = Nothing \/ Alive(j.r.result.p)
  /\ comb.remaining \in Nat /\ ops \in 0 .. MaxOps

(* What can still settle p. *)
Deciders(p) ==
  {<<"function", f>> : f \in {g \in open : g.p = p}}
    \cup {<<"job", i>> : i \in {n \in DOMAIN jobs : IF jobs[n].kind = "adopt" THEN jobs[n].p = p
                                                   ELSE jobs[n].r.result = Prom(p)}}
    \cup (UNION {{<<"handler", <<q, i>>>> :
                   i \in {n \in DOMAIN st[q].handlers : st[q].handlers[n].result = Prom(p)}} : q \in Promise})
    \cup {<<"running", r>> : r \in IF run.kind = "react" /\ run.r.result = Prom(p) THEN {run} ELSE {}}

(* At most one thing can still settle a pending promise, be it a resolve    *)
(* function, a queued adoption or the reaction it was derived from, and     *)
(* nothing can settle a settled one (builtin_promise.go done).              *)
DecidedOnce ==
  \A p \in Promise : Alive(p) =>
    /\ \A d, e \in Deciders(p) : d = e
    /\ Deciders(p) # {} => st[p].state = "pending"

Queued(p) == {i \in DOMAIN jobs : jobs[i].kind = "react" /\ jobs[i].r.src = p}

(* The reactions of a promise run once each and in the order they were      *)
(* registered, before or after it settled (flushReactions, promiseThenCap). *)
RunsOnceInOrder ==
  \A p \in Promise : Alive(p) =>
    \E m \in ran[p] .. cnt[p] :
      /\ {jobs[i].r.at : i \in Queued(p)} = ran[p] + 1 .. m
      /\ \A i, j \in Queued(p) : i < j => jobs[i].r.at < jobs[j].r.at
      /\ Len(st[p].handlers) = cnt[p] - m
      /\ \A i \in DOMAIN st[p].handlers : st[p].handlers[i].at = m + i

(* A promise resolved with a promise ends as that one ended                 *)
(* (resolvePromise, runThenableJob).                                        *)
AdoptsTheOutcome ==
  \A p \in Promise : follows[p].k = "promise" /\ st[p].state \in {"ful", "rej"} =>
    LET q == st[follows[p].p]
    IN  q.state = st[p].state /\ q.val = st[p].val

(* The counter of a combinator is the element functions given out and not   *)
(* yet called, and one for the loop (promiseAll, promiseRace remaining).    *)
RemainingExact ==
  comb.kind # "none" /\ Counted(comb) =>
    comb.remaining = Cardinality(1 .. comb.at \ comb.called)
                       + (IF comb.phase = "done" THEN 0 ELSE 1)

Elements == {i \in DOMAIN comb.elems : comb.elems[i] # Nothing}
Ended(i, ok) == st[comb.elems[i].p].state = IF ok THEN "ful" ELSE "rej"
Quiet == jobs = <<>> /\ run = NoRun

(* The result's array is complete when it is handed out: every element has  *)
(* ended the way the combinator asks and its outcome is in its place.  When *)
(* the jobs have run, a result whose elements have all ended is decided.    *)
ResultIsEarned ==
  comb.kind # "none" =>
    LET r == st[comb.result]
    IN  /\ r.val = Arr /\ r.state # "pending" =>
             /\ comb.called = DOMAIN comb.elems
             /\ \A i \in Elements : /\ Ended(i, comb.res[i].ok)
                                    /\ comb.res[i].v = st[comb.elems[i].p].val
                                    /\ ~ Settled(comb) => comb.res[i].ok = (r.state = "ful")
        /\ Quiet /\ comb.phase = "done" /\ CapPair(comb) \in open =>
             /\ comb.kind # "race" /\ Elements = {1, 2} =>
                  \E i \in Elements : st[comb.elems[i].p].state = "pending"
             /\ comb.kind = "race" => \A i \in Elements : st[comb.elems[i].p].state = "pending"

(* Whenever a collection may run, the collector finds everything the queued *)
(* jobs, the running one and the built-ins the script can call will work    *)
(* with (job.roots, inFlight, holdCaptures).                                *)
UsedIsFound == MayCollect => Used \subseteq Marked
(* A combinator counts exactly and delivers exactly: its counter is what it  *)
(* still waits for, and its result is complete when it is handed out and     *)
(* handed out when it is complete (promiseAll, promiseRace, tryFinish).      *)
CombinatorIsExact == TypeOK /\ RemainingExact /\ ResultIsEarned
=============================================================================
