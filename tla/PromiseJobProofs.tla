--------------------------- MODULE PromiseJobProofs ---------------------------
(***************************************************************************)
(* Proofs about PromiseJobs, for any number of promises and any script: a  *)
(* promise is decided once, its reactions run once each and in order, one  *)
(* resolved with a promise ends as that one ended, a combinator counts and *)
(* delivers exactly, and while the script keeps to the combinators over    *)
(* arrays the collector finds all that will be used.                       *)
(*                                                                         *)
(* The helpers of PromiseJobs take a world to a world, and so the          *)
(* invariant is a predicate of worlds, with a lemma for each helper; what  *)
(* the running job may still settle is given apart, as the set hand.       *)
(***************************************************************************)
EXTENDS PromiseJobs, FiniteSetTheorems, SequenceTheorems, WellFoundedInduction, TLAPS

Proms == {Prom(p) : p \in Promise}
Pairs == {Pair(p, n) : p \in Promise, n \in Nat}
Elems == {Elem(1), Elem(2)}
Plain == {Nothing, Arr, Data("a"), Data("err")}
Value == Plain \cup {Thenable, BadThen} \cup Proms

Reaction ==
  [onF : Pairs \cup Elems, onR : Pairs \cup Elems, result : {Nothing}, src : Promise, at : Nat]
    \cup [onF : {Js, Nothing}, onR : {Js, Nothing}, result : Proms, src : Promise, at : Nat]
ReactJob == [kind : {"react"}, r : Reaction, s : {"ful", "rej"}, v : Plain]
AdoptJob == [kind : {"adopt"}, p : Promise, v : Proms \cup {Thenable}]
Job      == ReactJob \cup AdoptJob
Cell     == [state : {"free", "pending", "ful", "rej"}, val : Plain, handlers : Seq(Reaction)]
Call0    == [kind : AllKinds \cup {"none"}, result : Promise \cup {Nothing}, elems : Seq(Proms \cup {Nothing}),
             at : 0 .. 2, remaining : Int, called : SUBSET {1, 2}, res : Seq([ok : BOOLEAN, v : Value]),
             phase : {"none", "iter", "thrown", "done"}]
World    == [st : [Promise -> Cell], jobs : Seq(Job), open : SUBSET Pairs, gen : [Promise -> Nat], comb : Call0,
             cnt : [Promise -> Nat], follows : [Promise -> Proms \cup {Nothing, Thenable}]]

(* A world whose cells are as the code leaves them: handlers wait for a      *)
(* pending promise only, and a free cell has no past.                        *)
Fit(w) ==
  /\ w \in World
  /\ \A p \in Promise :
       /\ w.st[p].state # "pending" => w.st[p].handlers = <<>>
       /\ w.st[p].state = "free" => w.gen[p] = 0 /\ w.cnt[p] = 0 /\ w.follows[p] = Nothing
  /\ w.comb.kind # "none" => /\ w.comb.kind \in Kinds /\ w.comb.result \in Promise
                             /\ Len(w.comb.elems) = 2 /\ Len(w.comb.res) = w.comb.at
                             /\ w.comb.called \subseteq 1 .. w.comb.at /\ w.comb.phase # "none"
  /\ w.comb.kind = "none" => w.comb.at = 0 /\ w.comb.phase \notin {"iter", "thrown"}

(* x is of this world: no promise, function or element that is gone. *)
Lives(w, p) == w.st[p].state # "free"
Good(w, x) ==
  /\ x.k = "promise" => Lives(w, x.p)
  /\ x.k = "pair" => Lives(w, x.p) /\ x.n \in 1 .. w.gen[x.p]
  /\ x.k = "elem" => w.comb.kind # "none" /\ x.i \in 1 .. w.comb.at

Sound(w) ==
  /\ \A i \in DOMAIN w.jobs : \A x \in JobRoots(w.jobs[i]) : Good(w, x)
  /\ \A p \in Promise : \A i \in DOMAIN w.st[p].handlers :
       \A x \in {w.st[p].handlers[i].onF, w.st[p].handlers[i].onR, w.st[p].handlers[i].result} : Good(w, x)
  /\ \A f \in w.open : Good(w, f)
  /\ \A p \in Promise : Good(w, w.follows[p])
  /\ w.comb.kind # "none" => /\ Good(w, CapPair(w.comb))
                             /\ \A i \in DOMAIN w.comb.elems : Good(w, w.comb.elems[i])

(* What a job or a handler will settle, Nothing if nothing. *)
Target(j) == IF j.kind = "adopt" THEN Prom(j.p) ELSE j.r.result

(* No two things can settle the same promise, and it is pending. *)
Once(w, hand) ==
  /\ \A f, g \in w.open : f.p = g.p => f = g
  /\ \A i, j \in DOMAIN w.jobs : Target(w.jobs[i]) = Target(w.jobs[j]) => i = j \/ Target(w.jobs[i]) = Nothing
  /\ \A p, q \in Promise : \A i \in DOMAIN w.st[p].handlers, j \in DOMAIN w.st[q].handlers :
       w.st[p].handlers[i].result = w.st[q].handlers[j].result
         => (p = q /\ i = j) \/ w.st[p].handlers[i].result = Nothing
  /\ \A f \in w.open : /\ w.st[f.p].state = "pending" /\ Prom(f.p) \notin hand
                       /\ \A i \in DOMAIN w.jobs : Target(w.jobs[i]) # Prom(f.p)
                       /\ \A q \in Promise : \A i \in DOMAIN w.st[q].handlers : w.st[q].handlers[i].result # Prom(f.p)
  /\ \A i \in DOMAIN w.jobs : Target(w.jobs[i]) # Nothing =>
       /\ w.st[Target(w.jobs[i]).p].state = "pending" /\ Target(w.jobs[i]) \notin hand
       /\ \A q \in Promise : \A j \in DOMAIN w.st[q].handlers : w.st[q].handlers[j].result # Target(w.jobs[i])
  /\ \A q \in Promise : \A j \in DOMAIN w.st[q].handlers : w.st[q].handlers[j].result # Nothing =>
       w.st[w.st[q].handlers[j].result.p].state = "pending" /\ w.st[q].handlers[j].result \notin hand
  /\ \A x \in hand : x \in Proms /\ w.st[x.p].state = "pending"

(* The reactions of p wait among its handlers while it is pending and in the *)
(* queue from then on, numbered without a gap.                               *)
From(w, p) == {i \in DOMAIN w.jobs : w.jobs[i].kind = "react" /\ w.jobs[i].r.src = p}
OrderedAt(w, rn, p) ==
  /\ w.st[p].state \in {"free", "pending"} => rn[p] = 0
  /\ w.st[p].state = "pending" => /\ From(w, p) = {} /\ Len(w.st[p].handlers) = w.cnt[p]
                                  /\ \A i \in DOMAIN w.st[p].handlers : w.st[p].handlers[i].at = i
                                                                        /\ w.st[p].handlers[i].src = p
  /\ w.st[p].state \in {"ful", "rej"} =>
       /\ rn[p] <= w.cnt[p]
       /\ \A i \in From(w, p) : w.jobs[i].r.at \in rn[p] + 1 .. w.cnt[p]
       /\ \A i, j \in From(w, p) : i < j => w.jobs[i].r.at < w.jobs[j].r.at
       /\ \A n \in rn[p] + 1 .. w.cnt[p] : \E i \in From(w, p) : w.jobs[i].r.at = n
Ordered(w, rn) == \A p \in Promise : OrderedAt(w, rn, p)

Inv(w, hand, rn) == Fit(w) /\ Sound(w) /\ Once(w, hand) /\ Ordered(w, rn) /\ rn \in [Promise -> Nat]

Hand == IF run.kind = "react" THEN {run.r.result} ELSE {}

(* The script and the running job. *)
ScriptOK ==
  /\ run \in Job \cup {NoRun} /\ ops \in 0 .. MaxOps
  /\ held \subseteq Proms \cup Pairs \cup Elems
  /\ \A x \in held : Good(W, x)
  /\ run # NoRun => \A x \in JobRoots(run) : Good(W, x)
  /\ run.kind = "react" => run.r.result \in Proms

JobInv == Inv(W, Hand, ran) /\ ScriptOK

-----------------------------------------------------------------------------
(* References *)

Ref == Value \cup Pairs \cup Elems \cup {Js}

LEMMA RefKinds ==
  /\ \A p : Prom(p).k = "promise" /\ Prom(p).p = p
  /\ \A p, n : Pair(p, n).k = "pair" /\ Pair(p, n).p = p /\ Pair(p, n).n = n
  /\ \A i : Elem(i).k = "elem" /\ Elem(i).i = i
  /\ \A x : Data(x).k = x
  /\ Arr.k = "arr" /\ Js.k = "js" /\ Nothing.k = "none" /\ Thenable.k = "thenable" /\ BadThen.k = "bad"
BY DEF Prom, Pair, Elem, Data, Arr, Js, Nothing, Thenable, BadThen

LEMMA RefSets ==
  /\ \A x \in Proms : x.k = "promise" /\ x.p \in Promise /\ x = Prom(x.p)
  /\ \A x \in Pairs : x.k = "pair" /\ x.p \in Promise /\ x.n \in Nat /\ x = Pair(x.p, x.n)
  /\ \A x \in Elems : x.k = "elem" /\ x.i \in {1, 2} /\ x = Elem(x.i)
  /\ \A x \in Plain : x.k \in {"none", "arr", "a", "err"}
  /\ \A p \in Promise : Prom(p) \in Proms
  /\ Nothing \in Plain /\ Arr \in Plain /\ Data("err") \in Plain
<1>1. \A x \in Proms : x.k = "promise" /\ x.p \in Promise /\ x = Prom(x.p)
  BY RefKinds DEF Proms
<1>2. \A x \in Pairs : x.k = "pair" /\ x.p \in Promise /\ x.n \in Nat /\ x = Pair(x.p, x.n)
  BY RefKinds DEF Pairs
<1>3. \A x \in Elems : x.k = "elem" /\ x.i \in {1, 2} /\ x = Elem(x.i)
  BY RefKinds DEF Elems
<1>4. \A x \in Plain : x.k \in {"none", "arr", "a", "err"}
  BY RefKinds DEF Plain
<1> QED
  BY <1>1, <1>2, <1>3, <1>4 DEF Proms, Plain

(* A reaction settles its result, or is a function's and has none. *)
LEMMA ReactionFacts ==
  ASSUME NEW r \in Reaction
  PROVE  /\ r.src \in Promise /\ r.at \in Nat
         /\ r.onF \in Ref /\ r.onR \in Ref /\ r.result \in Proms \cup {Nothing}
         /\ \/ r.result = Nothing /\ r.onF \in Pairs \cup Elems /\ r.onR \in Pairs \cup Elems
            \/ r.result \in Proms /\ r.onF \in {Js, Nothing} /\ r.onR \in {Js, Nothing}
<1>1. CASE r \in [onF : Pairs \cup Elems, onR : Pairs \cup Elems, result : {Nothing}, src : Promise, at : Nat]
  BY <1>1 DEF Ref
<1>2. CASE r \in [onF : {Js, Nothing}, onR : {Js, Nothing}, result : Proms, src : Promise, at : Nat]
  BY <1>2 DEF Ref, Value, Plain
<1> QED
  BY <1>1, <1>2 DEF Reaction

LEMMA JobFacts ==
  ASSUME NEW j \in Job
  PROVE  /\ j.kind \in {"react", "adopt"} /\ Target(j) \in Proms \cup {Nothing}
         /\ j.kind = "react" => /\ j.r \in Reaction /\ j.s \in {"ful", "rej"} /\ j.v \in Plain
                                /\ Target(j) = j.r.result /\ JobRoots(j) = {j.r.onF, j.r.onR, j.r.result, j.v}
         /\ j.kind = "adopt" => /\ j.p \in Promise /\ j.v \in Proms \cup {Thenable}
                                /\ Target(j) = Prom(j.p) /\ JobRoots(j) = {Prom(j.p), j.v}
         /\ JobRoots(j) \subseteq Ref
<1>1. CASE j \in ReactJob
  <2>1. j.kind = "react" /\ j.r \in Reaction /\ j.s \in {"ful", "rej"} /\ j.v \in Plain
    BY <1>1 DEF ReactJob
  <2>2. j.kind # "adopt"
    BY <2>1
  <2>3. Target(j) = j.r.result /\ JobRoots(j) = {j.r.onF, j.r.onR, j.r.result, j.v}
    BY <2>1, <2>2 DEF Target, JobRoots
  <2>4. j.r.result \in Proms \cup {Nothing} /\ j.r.onF \in Ref /\ j.r.onR \in Ref
    BY <2>1, ReactionFacts
  <2>5. JobRoots(j) \subseteq Ref
    BY <2>1, <2>3, <2>4, RefSets DEF Ref, Value
  <2> QED
    BY <2>1, <2>2, <2>3, <2>4, <2>5
<1>2. CASE j \in AdoptJob
  <2>1. j.kind = "adopt" /\ j.p \in Promise /\ j.v \in Proms \cup {Thenable}
    BY <1>2 DEF AdoptJob
  <2>2. j.kind # "react"
    BY <2>1
  <2> QED
    BY <2>1, <2>2, RefSets DEF Target, JobRoots, Ref, Value
<1> QED
  BY <1>1, <1>2 DEF Job

(* The parts of a world. *)
LEMMA WorldParts ==
  ASSUME NEW w \in World
  PROVE  /\ w.st \in [Promise -> Cell] /\ w.jobs \in Seq(Job) /\ w.open \subseteq Pairs
         /\ w.gen \in [Promise -> Nat] /\ w.comb \in Call0 /\ w.cnt \in [Promise -> Nat]
         /\ w.follows \in [Promise -> Proms \cup {Nothing, Thenable}]
         /\ Len(w.jobs) \in Nat /\ DOMAIN w.jobs = 1 .. Len(w.jobs) /\ \A i \in DOMAIN w.jobs : w.jobs[i] \in Job
         /\ \A p \in Promise : /\ w.st[p].state \in {"free", "pending", "ful", "rej"} /\ w.st[p].val \in Plain
                               /\ w.st[p].handlers \in Seq(Reaction) /\ Len(w.st[p].handlers) \in Nat
                               /\ DOMAIN w.st[p].handlers = 1 .. Len(w.st[p].handlers)
                               /\ \A i \in DOMAIN w.st[p].handlers : w.st[p].handlers[i] \in Reaction
<1>1. /\ w.st \in [Promise -> Cell] /\ w.jobs \in Seq(Job) /\ w.open \subseteq Pairs
      /\ w.gen \in [Promise -> Nat] /\ w.comb \in Call0 /\ w.cnt \in [Promise -> Nat]
      /\ w.follows \in [Promise -> Proms \cup {Nothing, Thenable}]
  BY DEF World
<1>2. \A p \in Promise : /\ w.st[p].state \in {"free", "pending", "ful", "rej"} /\ w.st[p].val \in Plain
                         /\ w.st[p].handlers \in Seq(Reaction)
  BY <1>1 DEF Cell
<1>3. ASSUME NEW p \in Promise
      PROVE  /\ Len(w.st[p].handlers) \in Nat
             /\ DOMAIN w.st[p].handlers = 1 .. Len(w.st[p].handlers)
             /\ \A i \in DOMAIN w.st[p].handlers : w.st[p].handlers[i] \in Reaction
  <2>1. w.st[p].handlers \in Seq(Reaction)
    BY <1>2
  <2> QED
    BY <2>1
<1>4. Len(w.jobs) \in Nat /\ DOMAIN w.jobs = 1 .. Len(w.jobs) /\ \A i \in DOMAIN w.jobs : w.jobs[i] \in Job
  BY <1>1
<1> QED
  BY <1>1, <1>2, <1>3, <1>4

-----------------------------------------------------------------------------
(* Settling: the handlers of p become jobs. *)

(* Nothing can settle p any more. *)
Undecided(w, hand, p) ==
  /\ Prom(p) \notin hand /\ \A f \in w.open : f.p # p
  /\ \A i \in DOMAIN w.jobs : Target(w.jobs[i]) # Prom(p)
  /\ \A q \in Promise : \A i \in DOMAIN w.st[q].handlers : w.st[q].handlers[i].result # Prom(p)

(* What is there in w is there in u. *)
Later(w, u) ==
  /\ \A p \in Promise : Lives(w, p) => Lives(u, p) /\ w.gen[p] <= u.gen[p]
  /\ w.comb.kind # "none" => u.comb.kind # "none" /\ w.comb.at <= u.comb.at

LEMMA CombFacts ==
  ASSUME NEW c \in Call0
  PROVE  /\ c.kind \in AllKinds \cup {"none"} /\ c.result \in Promise \cup {Nothing}
         /\ c.elems \in Seq(Proms \cup {Nothing}) /\ Len(c.elems) \in Nat /\ DOMAIN c.elems = 1 .. Len(c.elems)
         /\ \A i \in DOMAIN c.elems : c.elems[i] \in Proms \cup {Nothing}
         /\ c.at \in {0, 1, 2} /\ c.at \in Nat /\ c.remaining \in Int /\ c.called \subseteq {1, 2}
         /\ c.res \in Seq([ok : BOOLEAN, v : Value]) /\ c.phase \in {"none", "iter", "thrown", "done"}
<1>1. /\ c.kind \in AllKinds \cup {"none"} /\ c.result \in Promise \cup {Nothing}
      /\ c.elems \in Seq(Proms \cup {Nothing})
      /\ c.at \in 0 .. 2 /\ c.remaining \in Int /\ c.called \subseteq {1, 2}
      /\ c.res \in Seq([ok : BOOLEAN, v : Value]) /\ c.phase \in {"none", "iter", "thrown", "done"}
  BY DEF Call0
<1>2. Len(c.elems) \in Nat /\ DOMAIN c.elems = 1 .. Len(c.elems)
      /\ \A i \in DOMAIN c.elems : c.elems[i] \in Proms \cup {Nothing}
  BY <1>1
<1> QED
  BY <1>1, <1>2

LEMMA GoodLater ==
  ASSUME NEW w \in World, NEW u \in World, Later(w, u), NEW x \in Ref, Good(w, x)
  PROVE  Good(u, x)
<1>1. w.gen \in [Promise -> Nat] /\ u.gen \in [Promise -> Nat] /\ w.comb.at \in Nat /\ u.comb.at \in Nat
  BY WorldParts, CombFacts
<1>2. /\ x.k = "promise" => x.p \in Promise
      /\ x.k = "pair" => x.p \in Promise /\ x.n \in Nat
      /\ x.k = "elem" => x.i \in {1, 2}
  BY RefKinds, RefSets DEF Ref, Value
<1>3. x.k = "promise" => Lives(u, x.p)
  BY <1>2 DEF Good, Later
<1>4. ASSUME x.k = "pair" PROVE Lives(u, x.p) /\ x.n \in 1 .. u.gen[x.p]
  <2>1. Lives(w, x.p) /\ x.n \in 1 .. w.gen[x.p] /\ x.p \in Promise
    BY <1>2, <1>4 DEF Good
  <2>2. Lives(u, x.p) /\ w.gen[x.p] <= u.gen[x.p]
    BY <2>1 DEF Later
  <2> QED
    BY <1>1, <2>1, <2>2
<1>5. ASSUME x.k = "elem" PROVE u.comb.kind # "none" /\ x.i \in 1 .. u.comb.at
  BY <1>1, <1>2, <1>5 DEF Good, Later
<1> QED
  BY <1>3, <1>4, <1>5 DEF Good

LEMMA LaterSame == \A w, u \in World : w.st = u.st /\ w.gen = u.gen /\ w.comb = u.comb => Later(w, u)
<1> SUFFICES ASSUME NEW w \in World, NEW u \in World, w.st = u.st, w.gen = u.gen, w.comb = u.comb
             PROVE  Later(w, u)
  OBVIOUS
<1>1. w.gen \in [Promise -> Nat] /\ w.comb.at \in Nat
  BY WorldParts, CombFacts
<1> QED
  BY <1>1 DEF Later, Lives

LEMMA LaterTransitive ==
  ASSUME NEW w \in World, NEW u \in World, NEW x \in World, Later(w, u), Later(u, x)
  PROVE  Later(w, x)
<1>1. /\ w.gen \in [Promise -> Nat] /\ u.gen \in [Promise -> Nat] /\ x.gen \in [Promise -> Nat]
      /\ w.comb.at \in Nat /\ u.comb.at \in Nat /\ x.comb.at \in Nat
  BY WorldParts, CombFacts
<1>2. ASSUME NEW p \in Promise, Lives(w, p) PROVE Lives(x, p) /\ w.gen[p] <= x.gen[p]
  <2>1. Lives(u, p) /\ w.gen[p] <= u.gen[p] /\ Lives(x, p) /\ u.gen[p] <= x.gen[p]
    BY <1>2 DEF Later
  <2> QED
    BY <1>1, <2>1
<1>3. w.comb.kind # "none" => x.comb.kind # "none" /\ w.comb.at <= x.comb.at
  BY <1>1 DEF Later
<1> QED
  BY <1>2, <1>3 DEF Later

LEMMA Joined ==
  ASSUME NEW a \in Seq(Job), NEW b \in Seq(Job)
  PROVE  /\ a \o b \in Seq(Job) /\ Len(a \o b) = Len(a) + Len(b)
         /\ \A i \in 1 .. Len(a) : (a \o b)[i] = a[i]
         /\ \A i \in 1 .. Len(b) : (a \o b)[Len(a) + i] = b[i]
<1>1. a \o b \in Seq(Job) /\ Len(a \o b) = Len(a) + Len(b)
  OBVIOUS
<1>2. \A i \in 1 .. Len(a) : (a \o b)[i] = a[i]
  OBVIOUS
<1>3. \A i \in 1 .. Len(b) : (a \o b)[Len(a) + i] = b[i]
  OBVIOUS
<1> QED
  BY <1>1, <1>2, <1>3

LEMMA ReactsFacts ==
  ASSUME NEW h \in Seq(Reaction), NEW s \in {"ful", "rej"}, NEW v \in Plain
  PROVE  /\ Reacts(h, s, v) \in Seq(Job) /\ Len(Reacts(h, s, v)) = Len(h)
         /\ \A i \in 1 .. Len(h) : Reacts(h, s, v)[i] = [kind |-> "react", r |-> h[i], s |-> s, v |-> v]
<1>1. Len(h) \in Nat /\ DOMAIN h = 1 .. Len(h) /\ \A i \in 1 .. Len(h) : h[i] \in Reaction
  OBVIOUS
<1>2. \A i \in 1 .. Len(h) : [kind |-> "react", r |-> h[i], s |-> s, v |-> v] \in Job
  BY <1>1 DEF Job, ReactJob
<1>3. Reacts(h, s, v) = [i \in 1 .. Len(h) |-> [kind |-> "react", r |-> h[i], s |-> s, v |-> v]]
  BY <1>1 DEF Reacts
<1> QED
  BY <1>1, <1>2, <1>3

(* The queue after a settlement. *)
Flushed(w, u, p, s, v) ==
  LET n == Len(w.jobs)
      h == w.st[p].handlers
  IN  /\ w.st[p].state = "pending"
      /\ u.st = [w.st EXCEPT ![p] = [state |-> s, val |-> v, handlers |-> <<>>]]
      /\ u.open = w.open /\ u.gen = w.gen /\ u.comb = w.comb /\ u.cnt = w.cnt /\ u.follows = w.follows
      /\ Len(u.jobs) = n + Len(h)
      /\ \A i \in 1 .. n : u.jobs[i] = w.jobs[i]
      /\ \A i \in 1 .. Len(h) : u.jobs[n + i] = [kind |-> "react", r |-> h[i], s |-> s, v |-> v]

LEMMA SettleParts ==
  ASSUME NEW w \in World, NEW p \in Promise, NEW s \in {"ful", "rej"}, NEW v \in Plain
  PROVE  LET u == Settle(w, p, s, v)
         IN  u \in World /\ IF w.st[p].state = "pending" THEN Flushed(w, u, p, s, v) ELSE u = w
<1> DEFINE h == w.st[p].handlers
           t == Reacts(h, s, v)
           c == [state |-> s, val |-> v, handlers |-> <<>>]
           u == [w EXCEPT !.st[p] = c, !.jobs = @ \o t]
<1>1. CASE w.st[p].state # "pending"
  BY <1>1 DEF Settle
<1>2. CASE w.st[p].state = "pending"
  <2>1. h \in Seq(Reaction) /\ w.jobs \in Seq(Job) /\ w.st \in [Promise -> Cell]
    BY WorldParts
  <2>2. t \in Seq(Job) /\ Len(t) = Len(h)
        /\ \A i \in 1 .. Len(h) : t[i] = [kind |-> "react", r |-> h[i], s |-> s, v |-> v]
    BY <2>1, ReactsFacts
  <2>3. c \in Cell
    BY DEF Cell
  <2> HIDE DEF t, c
  <2>4. /\ w.jobs \o t \in Seq(Job) /\ Len(w.jobs \o t) = Len(w.jobs) + Len(h)
        /\ \A i \in 1 .. Len(w.jobs) : (w.jobs \o t)[i] = w.jobs[i]
        /\ \A i \in 1 .. Len(h) : (w.jobs \o t)[Len(w.jobs) + i] = t[i]
    <3>1. /\ w.jobs \o t \in Seq(Job) /\ Len(w.jobs \o t) = Len(w.jobs) + Len(t)
          /\ \A i \in 1 .. Len(w.jobs) : (w.jobs \o t)[i] = w.jobs[i]
          /\ \A i \in 1 .. Len(t) : (w.jobs \o t)[Len(w.jobs) + i] = t[i]
      BY <2>1, <2>2, Joined, Zenon
    <3>2. Len(t) = Len(h)
      BY <2>2
    <3> QED
      BY <3>1, <3>2, Zenon
  <2>5. [w.st EXCEPT ![p] = c] \in [Promise -> Cell]
    BY <2>1, <2>3
  <2>6. /\ u.st = [w.st EXCEPT ![p] = c] /\ u.jobs = w.jobs \o t
        /\ u.open = w.open /\ u.gen = w.gen /\ u.comb = w.comb /\ u.cnt = w.cnt /\ u.follows = w.follows
    BY DEF World
  <2>7. u \in World
    BY <2>4, <2>5, Zenon DEF World
  <2>8. Settle(w, p, s, v) = u
    BY <1>2 DEF Settle, t, c
  <2>9. Flushed(w, u, p, s, v)
    <3> HIDE DEF u
    <3> QED
      BY <1>2, <2>2, <2>4, <2>6, Zenon DEF Flushed, c
  <2> QED
    BY <1>2, <2>7, <2>8, <2>9
<1> QED
  BY <1>1, <1>2

(* The same by queue place: the jobs there were, then one per handler. *)
Moved(w, u, p, s, v) ==
  /\ \A i \in DOMAIN w.jobs : i \in DOMAIN u.jobs /\ u.jobs[i] = w.jobs[i]
  /\ \A k \in DOMAIN w.st[p].handlers :
       /\ Len(w.jobs) + k \in DOMAIN u.jobs
       /\ u.jobs[Len(w.jobs) + k] = [kind |-> "react", r |-> w.st[p].handlers[k], s |-> s, v |-> v]
       /\ Target(u.jobs[Len(w.jobs) + k]) = w.st[p].handlers[k].result
  /\ \A i \in DOMAIN u.jobs : i \in DOMAIN w.jobs \/ \E k \in DOMAIN w.st[p].handlers : i = Len(w.jobs) + k
  /\ \A q \in Promise : q # p => u.st[q] = w.st[q]
  /\ u.st[p] = [state |-> s, val |-> v, handlers |-> <<>>]
  /\ \A q \in Promise : \A i \in DOMAIN u.st[q].handlers :
       q # p /\ i \in DOMAIN w.st[q].handlers /\ u.st[q].handlers[i] = w.st[q].handlers[i]

(* What a job queued by the settlement is. *)
LEMMA FlushedJobs ==
  ASSUME NEW w \in World, NEW u \in World, NEW p \in Promise, NEW s \in {"ful", "rej"}, NEW v \in Plain,
         Flushed(w, u, p, s, v)
  PROVE  Moved(w, u, p, s, v)
<1> DEFINE n == Len(w.jobs)
           h == w.st[p].handlers
<1>1. n \in Nat /\ Len(h) \in Nat /\ DOMAIN h = 1 .. Len(h) /\ DOMAIN w.jobs = 1 .. n
      /\ DOMAIN u.jobs = 1 .. Len(u.jobs) /\ w.st \in [Promise -> Cell]
  BY WorldParts
<1>2. /\ u.st = [w.st EXCEPT ![p] = [state |-> s, val |-> v, handlers |-> <<>>]]
      /\ Len(u.jobs) = n + Len(h)
      /\ \A i \in 1 .. n : u.jobs[i] = w.jobs[i]
      /\ \A i \in 1 .. Len(h) : u.jobs[n + i] = [kind |-> "react", r |-> h[i], s |-> s, v |-> v]
  BY DEF Flushed
<1>3. \A q \in Promise : q # p => u.st[q] = w.st[q]
  BY <1>1, <1>2
<1>4. u.st[p] = [state |-> s, val |-> v, handlers |-> <<>>]
  BY <1>1, <1>2
<1>5. \A q \in Promise : \A i \in DOMAIN u.st[q].handlers :
        q # p /\ i \in DOMAIN w.st[q].handlers /\ u.st[q].handlers[i] = w.st[q].handlers[i]
  <2>1. DOMAIN u.st[p].handlers = {}
    BY <1>4
  <2> QED
    BY <2>1, <1>3
<1>6. \A i \in DOMAIN w.jobs : i \in DOMAIN u.jobs /\ u.jobs[i] = w.jobs[i]
  <2> HIDE DEF n, h
  <2> QED
    BY <1>1, <1>2
<1>7. ASSUME NEW k \in DOMAIN h
      PROVE  /\ n + k \in DOMAIN u.jobs
             /\ u.jobs[n + k] = [kind |-> "react", r |-> h[k], s |-> s, v |-> v]
             /\ Target(u.jobs[n + k]) = h[k].result
  <2>1. n + k \in DOMAIN u.jobs
    <3> HIDE DEF n, h
    <3> QED
      BY <1>1, <1>2
  <2>2. u.jobs[n + k] = [kind |-> "react", r |-> h[k], s |-> s, v |-> v]
    BY <1>1, <1>2
  <2> QED
    BY <2>1, <2>2 DEF Target
<1>8. ASSUME NEW i \in DOMAIN u.jobs
      PROVE  i \in DOMAIN w.jobs \/ \E k \in DOMAIN h : i = n + k
  <2> HIDE DEF n, h
  <2>1. i \in 1 .. n + Len(h)
    BY <1>1, <1>2
  <2>2. ASSUME i > n PROVE \E k \in DOMAIN h : i = n + k
    <3>1. i - n \in 1 .. Len(h) /\ i = n + (i - n)
      BY <1>1, <2>1, <2>2
    <3> QED
      BY <1>1, <3>1
  <2> QED
    BY <1>1, <2>1, <2>2
<1> QED
  BY <1>3, <1>4, <1>5, <1>6, <1>7, <1>8, Zenon DEF Moved

(* A later world is sound where what is new in it is good. *)
New(w, u) ==
  /\ \A i \in DOMAIN u.jobs : (\E k \in DOMAIN w.jobs : u.jobs[i] = w.jobs[k])
                              \/ \A x \in JobRoots(u.jobs[i]) : Good(u, x)
  /\ \A q \in Promise : \A i \in DOMAIN u.st[q].handlers :
       \/ \E k \in DOMAIN w.st[q].handlers : u.st[q].handlers[i] = w.st[q].handlers[k]
       \/ \A x \in {u.st[q].handlers[i].onF, u.st[q].handlers[i].onR, u.st[q].handlers[i].result} : Good(u, x)
  /\ \A f \in u.open : f \in w.open \/ Good(u, f)
  /\ \A q \in Promise : u.follows[q] = w.follows[q] \/ Good(u, u.follows[q])
  /\ u.comb.kind # "none" =>
       \/ w.comb.kind # "none" /\ u.comb.result = w.comb.result /\ u.comb.elems = w.comb.elems
       \/ Good(u, CapPair(u.comb)) /\ \A i \in DOMAIN u.comb.elems : Good(u, u.comb.elems[i])

LEMMA SoundKept ==
  ASSUME NEW w \in World, NEW u \in World, Fit(w), Sound(w), Later(w, u), New(w, u)
  PROVE  Sound(u)
<1>1. \A x \in Ref : Good(w, x) => Good(u, x)
  BY GoodLater
<1>2. ASSUME NEW i \in DOMAIN u.jobs, NEW x \in JobRoots(u.jobs[i]) PROVE Good(u, x)
  <2>1. ASSUME NEW k \in DOMAIN w.jobs, u.jobs[i] = w.jobs[k] PROVE Good(u, x)
    <3>1. x \in JobRoots(w.jobs[k]) /\ w.jobs[k] \in Job
      BY <1>2, <2>1, WorldParts
    <3>2. Good(w, x) /\ x \in Ref
      BY <2>1, <3>1, JobFacts DEF Sound
    <3> QED
      BY <3>2, <1>1
  <2> QED
    BY <2>1 DEF New
<1>3. ASSUME NEW q \in Promise, NEW i \in DOMAIN u.st[q].handlers,
             NEW x \in {u.st[q].handlers[i].onF, u.st[q].handlers[i].onR, u.st[q].handlers[i].result}
      PROVE  Good(u, x)
  <2>1. ASSUME NEW k \in DOMAIN w.st[q].handlers, u.st[q].handlers[i] = w.st[q].handlers[k]
        PROVE  Good(u, x)
    <3> DEFINE r == w.st[q].handlers[k]
    <3>1. r \in Reaction /\ Good(w, x) /\ x \in {r.onF, r.onR, r.result}
      BY <2>1, WorldParts DEF Sound
    <3>2. x \in Ref
      BY <3>1, ReactionFacts DEF Ref, Value, Plain
    <3> QED
      BY <3>1, <3>2, <1>1
  <2> QED
    BY <2>1 DEF New
<1>4. \A f \in u.open : Good(u, f)
  <2>1. \A f \in w.open : f \in Ref /\ Good(w, f)
    BY WorldParts DEF Sound, Ref
  <2> QED
    BY <1>1, <2>1 DEF New
<1>5. \A q \in Promise : Good(u, u.follows[q])
  <2>1. \A q \in Promise : w.follows[q] \in Ref /\ Good(w, w.follows[q])
    BY WorldParts DEF Sound, Ref, Value, Plain
  <2> QED
    BY <1>1, <2>1 DEF New
<1>6. ASSUME u.comb.kind # "none"
      PROVE  Good(u, CapPair(u.comb)) /\ \A i \in DOMAIN u.comb.elems : Good(u, u.comb.elems[i])
  <2>1. CASE w.comb.kind # "none" /\ u.comb.result = w.comb.result /\ u.comb.elems = w.comb.elems
    <3>1. Good(w, CapPair(w.comb)) /\ \A i \in DOMAIN w.comb.elems : Good(w, w.comb.elems[i])
      BY <2>1 DEF Sound
    <3>2. w.comb.result \in Promise
      BY <2>1 DEF Fit
    <3>3. CapPair(w.comb) \in Ref /\ \A i \in DOMAIN w.comb.elems : w.comb.elems[i] \in Ref
      BY <3>2, WorldParts, CombFacts DEF CapPair, Ref, Pairs, Value, Plain
    <3>4. CapPair(u.comb) = CapPair(w.comb)
      BY <2>1 DEF CapPair
    <3> QED
      BY <2>1, <3>1, <3>3, <3>4, <1>1
  <2> QED
    BY <1>6, <2>1 DEF New
<1> QED
  BY <1>2, <1>3, <1>4, <1>5, <1>6 DEF Sound

LEMMA FlushedFit ==
  ASSUME NEW w \in World, NEW u \in World, NEW p \in Promise, NEW s \in {"ful", "rej"}, NEW v \in Plain,
         Flushed(w, u, p, s, v), Fit(w), Sound(w)
  PROVE  Fit(u) /\ Sound(u) /\ Later(w, u)
<1>0. Moved(w, u, p, s, v)
  BY FlushedJobs
<1>1. /\ w.st[p].state = "pending" /\ u.open = w.open /\ u.gen = w.gen /\ u.comb = w.comb /\ u.cnt = w.cnt
      /\ u.follows = w.follows
  BY DEF Flushed
<1>2. \A q \in Promise : (q # p => u.st[q] = w.st[q]) /\ (Lives(u, q) <=> Lives(w, q))
  BY <1>1, <1>0 DEF Moved, Lives
<1>3. u.st[p].state = s /\ u.st[p].handlers = <<>> /\ s # "free" /\ s # "pending"
  BY <1>0 DEF Moved
<1>4. Fit(u)
  <2>1. \A q \in Promise : /\ u.st[q].state # "pending" => u.st[q].handlers = <<>>
                           /\ u.st[q].state = "free" => u.gen[q] = 0 /\ u.cnt[q] = 0 /\ u.follows[q] = Nothing
    BY <1>1, <1>2, <1>3 DEF Fit
  <2> QED
    BY <1>1, <2>1 DEF Fit
<1>5. Later(w, u)
  <2>1. w.gen \in [Promise -> Nat] /\ w.comb.at \in Nat
    BY WorldParts, CombFacts
  <2> QED
    BY <1>1, <1>2, <2>1 DEF Later
<1>6. New(w, u)
  <2>1. ASSUME NEW k \in DOMAIN w.st[p].handlers,
               NEW x \in JobRoots([kind |-> "react", r |-> w.st[p].handlers[k], s |-> s, v |-> v])
        PROVE  Good(u, x)
    <3> DEFINE r == w.st[p].handlers[k]
    <3>1. x \in {r.onF, r.onR, r.result, v}
      BY <2>1 DEF JobRoots
    <3>2. r \in Reaction /\ (x \in {r.onF, r.onR, r.result} => Good(w, x))
      BY WorldParts DEF Sound
    <3>3. x \in {r.onF, r.onR, r.result} => x \in Ref
      BY <3>2, ReactionFacts DEF Ref, Value, Plain
    <3>4. x = v => Good(u, x)
      BY RefSets DEF Good
    <3> QED
      BY <3>1, <3>2, <3>3, <3>4, <1>5, GoodLater
  <2>2. ASSUME NEW i \in DOMAIN u.jobs
        PROVE  (\E k \in DOMAIN w.jobs : u.jobs[i] = w.jobs[k]) \/ \A x \in JobRoots(u.jobs[i]) : Good(u, x)
    <3>1. CASE i \in DOMAIN w.jobs
      BY <1>0, <3>1 DEF Moved
    <3>2. ASSUME NEW k \in DOMAIN w.st[p].handlers, i = Len(w.jobs) + k
          PROVE  \A x \in JobRoots(u.jobs[i]) : Good(u, x)
      <4>1. u.jobs[i] = [kind |-> "react", r |-> w.st[p].handlers[k], s |-> s, v |-> v]
        BY <1>0, <3>2 DEF Moved
      <4> QED
        BY <2>1, <4>1
    <3> QED
      BY <1>0, <3>1, <3>2 DEF Moved
  <2>3. \A q \in Promise : \A i \in DOMAIN u.st[q].handlers :
          \E k \in DOMAIN w.st[q].handlers : u.st[q].handlers[i] = w.st[q].handlers[k]
    BY <1>0 DEF Moved
  <2> QED
    BY <1>1, <2>2, <2>3 DEF New
<1> QED
  BY <1>4, <1>5, <1>6, SoundKept

LEMMA SameHandler ==
  ASSUME NEW w, NEW T, Once(w, T), NEW p \in Promise, NEW q \in Promise,
         NEW i \in DOMAIN w.st[p].handlers, NEW j \in DOMAIN w.st[q].handlers,
         w.st[p].handlers[i].result = w.st[q].handlers[j].result
  PROVE  (p = q /\ i = j) \/ w.st[p].handlers[i].result = Nothing
BY SMTT(30) DEF Once

LEMMA FlushedOnce ==
  ASSUME NEW w \in World, NEW u \in World, NEW p \in Promise, NEW s \in {"ful", "rej"}, NEW v \in Plain,
         NEW T, Flushed(w, u, p, s, v), Once(w, T), Undecided(w, T, p)
  PROVE  Once(u, T) /\ Undecided(u, T, p)
<1>0. Moved(w, u, p, s, v) /\ u.open = w.open
  BY FlushedJobs, ZenonT(40) DEF Flushed
<1>1. Len(w.jobs) \in Nat /\ DOMAIN w.jobs = 1 .. Len(w.jobs) /\ \A q \in Promise : DOMAIN w.st[q].handlers \subseteq Nat \ {0}
  BY WorldParts
<1>2. /\ \A i \in DOMAIN u.jobs : u.jobs[i] \in Job
      /\ \A q \in Promise : \A i \in DOMAIN u.st[q].handlers : u.st[q].handlers[i].result \in Proms \cup {Nothing}
      /\ \A q \in Promise : \A i \in DOMAIN w.st[q].handlers : w.st[q].handlers[i].result \in Proms \cup {Nothing}
  BY WorldParts, ReactionFacts
<1>3. \A i \in DOMAIN u.jobs : Target(u.jobs[i]) \in Proms \cup {Nothing}
  BY <1>2, JobFacts
(* The target of a job of u, as something w had. *)
<1>4. \A i \in DOMAIN u.jobs :
        \/ i \in DOMAIN w.jobs /\ Target(u.jobs[i]) = Target(w.jobs[i])
        \/ \E k \in DOMAIN w.st[p].handlers : i = Len(w.jobs) + k /\ Target(u.jobs[i]) = w.st[p].handlers[k].result
  <2> SUFFICES ASSUME NEW i \in DOMAIN u.jobs
               PROVE  \/ i \in DOMAIN w.jobs /\ Target(u.jobs[i]) = Target(w.jobs[i])
                      \/ \E k \in DOMAIN w.st[p].handlers :
                           i = Len(w.jobs) + k /\ Target(u.jobs[i]) = w.st[p].handlers[k].result
    OBVIOUS
  <2>1. CASE i \in DOMAIN w.jobs
    BY <1>0, <2>1 DEF Moved
  <2>2. ASSUME NEW k \in DOMAIN w.st[p].handlers, i = Len(w.jobs) + k
        PROVE  Target(u.jobs[i]) = w.st[p].handlers[k].result
    BY <1>0, <2>2, Zenon DEF Moved
  <2> QED
    BY <1>0, <2>1, <2>2 DEF Moved
<1>5. \A i, j \in DOMAIN u.jobs : Target(u.jobs[i]) = Target(u.jobs[j]) => i = j \/ Target(u.jobs[i]) = Nothing
  BY <1>1, <1>4, SMTT(30) DEF Once
<1>6. \A q, r \in Promise : \A i \in DOMAIN u.st[q].handlers, j \in DOMAIN u.st[r].handlers :
        u.st[q].handlers[i].result = u.st[r].handlers[j].result
          => (q = r /\ i = j) \/ u.st[q].handlers[i].result = Nothing
  <2>1. \A q \in Promise : \A i \in DOMAIN u.st[q].handlers :
          i \in DOMAIN w.st[q].handlers /\ u.st[q].handlers[i] = w.st[q].handlers[i]
    BY <1>0 DEF Moved
  <2> SUFFICES ASSUME NEW q \in Promise, NEW r \in Promise,
                      NEW i \in DOMAIN u.st[q].handlers, NEW j \in DOMAIN u.st[r].handlers,
                      u.st[q].handlers[i].result = u.st[r].handlers[j].result
               PROVE  (q = r /\ i = j) \/ u.st[q].handlers[i].result = Nothing
    OBVIOUS
  <2>2. /\ i \in DOMAIN w.st[q].handlers /\ u.st[q].handlers[i] = w.st[q].handlers[i]
        /\ j \in DOMAIN w.st[r].handlers /\ u.st[r].handlers[j] = w.st[r].handlers[j]
    BY <2>1
  <2>3. w.st[q].handlers[i].result = w.st[r].handlers[j].result
    BY <2>2
  <2> QED
    BY <2>2, <2>3, SameHandler
(* Whatever still decides decides something other than p. *)
<1>7. \A x \in Proms : x # Prom(p) => u.st[x.p] = w.st[x.p]
  BY <1>0, RefSets DEF Moved
<1>8. \A f \in u.open : /\ u.st[f.p].state = "pending" /\ Prom(f.p) \notin T
                        /\ \A i \in DOMAIN u.jobs : Target(u.jobs[i]) # Prom(f.p)
                        /\ \A q \in Promise : \A i \in DOMAIN u.st[q].handlers : u.st[q].handlers[i].result # Prom(f.p)
  <2>1. \A f \in u.open : f.p # p /\ f.p \in Promise
    BY <1>0, WorldParts, RefSets DEF Undecided
  <2> QED
    BY <1>0, <1>4, <2>1, SMTT(30) DEF Once, Moved
<1>9. \A i \in DOMAIN u.jobs : Target(u.jobs[i]) # Nothing =>
        /\ u.st[Target(u.jobs[i]).p].state = "pending" /\ Target(u.jobs[i]) \notin T
        /\ \A q \in Promise : \A j \in DOMAIN u.st[q].handlers : u.st[q].handlers[j].result # Target(u.jobs[i])
  <2> SUFFICES ASSUME NEW i \in DOMAIN u.jobs, Target(u.jobs[i]) # Nothing
               PROVE  /\ u.st[Target(u.jobs[i]).p].state = "pending" /\ Target(u.jobs[i]) \notin T
                      /\ \A q \in Promise : \A j \in DOMAIN u.st[q].handlers : u.st[q].handlers[j].result # Target(u.jobs[i])
    OBVIOUS
  <2>1. Target(u.jobs[i]) # Prom(p)
    BY <1>4 DEF Undecided
  <2>2. w.st[Target(u.jobs[i]).p].state = "pending" /\ Target(u.jobs[i]) \notin T
    BY <1>4 DEF Once
  <2>3. ASSUME NEW q \in Promise, NEW j \in DOMAIN u.st[q].handlers PROVE u.st[q].handlers[j].result # Target(u.jobs[i])
    <3>1. q # p /\ j \in DOMAIN w.st[q].handlers /\ u.st[q].handlers[j] = w.st[q].handlers[j]
      BY <1>0, SMTT(30) DEF Moved
    <3> QED
      BY <1>4, <3>1, SMTT(30) DEF Once
  <2> QED
    BY <1>3, <1>7, <2>1, <2>2, <2>3
<1>10. \A q \in Promise : \A j \in DOMAIN u.st[q].handlers : u.st[q].handlers[j].result # Nothing =>
         u.st[u.st[q].handlers[j].result.p].state = "pending" /\ u.st[q].handlers[j].result \notin T
  <2> SUFFICES ASSUME NEW q \in Promise, NEW j \in DOMAIN u.st[q].handlers, u.st[q].handlers[j].result # Nothing
               PROVE  u.st[u.st[q].handlers[j].result.p].state = "pending" /\ u.st[q].handlers[j].result \notin T
    OBVIOUS
  <2>1. q # p /\ j \in DOMAIN w.st[q].handlers /\ u.st[q].handlers[j] = w.st[q].handlers[j]
    BY <1>0 DEF Moved
  <2>2. u.st[q].handlers[j].result # Prom(p) /\ u.st[q].handlers[j].result \in Proms
    BY <1>2, <2>1 DEF Undecided
  <2> QED
    BY <1>7, <2>1, <2>2, SMTT(30) DEF Once
<1>11. \A x \in T : x \in Proms /\ u.st[x.p].state = "pending"
  BY <1>7 DEF Once, Undecided
<1>12. Undecided(u, T, p)
  BY <1>0, <1>4 DEF Undecided, Moved
<1> QED
  BY <1>0, <1>5, <1>6, <1>8, <1>9, <1>10, <1>11, <1>12 DEF Once

(* Nothing has happened to q and its reactions. *)
Same(w, u, q) ==
  /\ u.st[q] = w.st[q] /\ u.cnt[q] = w.cnt[q]
  /\ From(u, q) = From(w, q) /\ \A i \in From(w, q) : u.jobs[i] = w.jobs[i]

LEMMA SameOrdered == \A w, u, rn, q : Same(w, u, q) /\ OrderedAt(w, rn, q) => OrderedAt(u, rn, q)
BY DEF Same, OrderedAt

LEMMA FlushedOrdered ==
  ASSUME NEW w \in World, NEW u \in World, NEW p \in Promise, NEW s \in {"ful", "rej"}, NEW v \in Plain,
         NEW rn \in [Promise -> Nat], Flushed(w, u, p, s, v), Ordered(w, rn)
  PROVE  Ordered(u, rn)
<1> DEFINE n == Len(w.jobs)
           h == w.st[p].handlers
<1>0. Moved(w, u, p, s, v) /\ u.cnt = w.cnt /\ w.st[p].state = "pending"
  <2>1. Moved(w, u, p, s, v)
    BY FlushedJobs
  <2> QED
    BY <2>1 DEF Flushed
<1>1. n \in Nat /\ DOMAIN w.jobs = 1 .. n /\ Len(h) \in Nat /\ DOMAIN h = 1 .. Len(h) /\ w.cnt \in [Promise -> Nat]
  BY WorldParts
<1>2. rn[p] = 0 /\ From(w, p) = {} /\ Len(h) = w.cnt[p] /\ \A i \in DOMAIN h : h[i].at = i /\ h[i].src = p
  BY <1>0 DEF Ordered, OrderedAt
<1>3. \A i \in DOMAIN w.jobs : i \in DOMAIN u.jobs /\ u.jobs[i] = w.jobs[i]
  BY <1>0 DEF Moved
<1>4. ASSUME NEW k \in DOMAIN h
      PROVE  n + k \in DOMAIN u.jobs /\ u.jobs[n + k].kind = "react" /\ u.jobs[n + k].r = h[k]
  <2>1. n + k \in DOMAIN u.jobs /\ u.jobs[n + k] = [kind |-> "react", r |-> h[k], s |-> s, v |-> v]
    BY <1>0 DEF Moved
  <2> QED
    BY <2>1
<1>5. \A i \in DOMAIN u.jobs : i \in DOMAIN w.jobs \/ \E k \in DOMAIN h : i = n + k
  BY <1>0 DEF Moved
<1>6. From(u, p) = {n + k : k \in DOMAIN h} /\ \A k \in DOMAIN h : u.jobs[n + k].r.at = k
  <2>1. \A i \in DOMAIN w.jobs : i \notin From(u, p)
    BY <1>2, <1>3 DEF From
  <2>2. \A k \in DOMAIN h : n + k \in From(u, p)
    BY <1>2, <1>4 DEF From
  <2>3. \A i \in From(u, p) : i \in DOMAIN u.jobs
    BY DEF From
  <2> QED
    BY <1>2, <1>4, <1>5, <2>1, <2>2, <2>3, SMTT(30)
<1>7. ASSUME NEW q \in Promise, q # p
      PROVE  u.st[q] = w.st[q] /\ From(u, q) = From(w, q) /\ \A i \in From(w, q) : u.jobs[i] = w.jobs[i]
  <2>1. \A k \in DOMAIN h : n + k \notin From(u, q)
    BY <1>2, <1>4, <1>7 DEF From
  <2>2. \A i \in From(u, q) : i \in From(w, q)
    BY <1>3, <1>5, <2>1 DEF From
  <2>3. \A i \in From(w, q) : i \in From(u, q) /\ u.jobs[i] = w.jobs[i]
    BY <1>3 DEF From
  <2>4. u.st[q] = w.st[q]
    BY <1>0, <1>7 DEF Moved
  <2> QED
    BY <2>2, <2>3, <2>4
<1>8. u.st[p].state = s /\ s # "free" /\ s # "pending"
  BY <1>0 DEF Moved
<1>9. /\ rn[p] <= u.cnt[p]
      /\ \A i \in From(u, p) : u.jobs[i].r.at \in rn[p] + 1 .. u.cnt[p]
      /\ \A i, j \in From(u, p) : i < j => u.jobs[i].r.at < u.jobs[j].r.at
      /\ \A m \in rn[p] + 1 .. u.cnt[p] : \E i \in From(u, p) : u.jobs[i].r.at = m
  <2> HIDE DEF n, h
  <2>1. rn[p] = 0 /\ u.cnt[p] = Len(h) /\ DOMAIN h = 1 .. u.cnt[p] /\ u.cnt[p] \in Nat
    BY <1>0, <1>1, <1>2
  <2>2. \A i \in From(u, p) : \E k \in 1 .. u.cnt[p] : i = n + k /\ u.jobs[i].r.at = k
    BY <1>6, <2>1
  <2>3. \A k \in 1 .. u.cnt[p] : n + k \in From(u, p) /\ u.jobs[n + k].r.at = k
    BY <1>6, <2>1
  <2>4. \A m \in rn[p] + 1 .. u.cnt[p] : \E i \in From(u, p) : u.jobs[i].r.at = m
    BY <2>1, <2>3
  <2>5. \A i \in From(u, p) : u.jobs[i].r.at \in rn[p] + 1 .. u.cnt[p]
    BY <2>1, <2>2
  <2>6. \A i, j \in From(u, p) : i < j => u.jobs[i].r.at < u.jobs[j].r.at
    BY <1>1, <2>1, <2>2
  <2> QED
    BY <2>1, <2>4, <2>5, <2>6
<1>10. ASSUME NEW q \in Promise, q # p PROVE OrderedAt(u, rn, q)
  BY <1>0, <1>7, <1>10, SameOrdered DEF Ordered, Same
<1>11. OrderedAt(u, rn, p)
  BY <1>8, <1>9 DEF OrderedAt
<1> QED
  BY <1>10, <1>11 DEF Ordered

(* Settling what nothing else will settle. *)
LEMMA SettleKeeps ==
  ASSUME NEW w, NEW T, NEW rn, Inv(w, T, rn), NEW p \in Promise, Undecided(w, T, p),
         NEW s \in {"ful", "rej"}, NEW v \in Plain
  PROVE  LET u == Settle(w, p, s, v)
         IN  Inv(u, T, rn) /\ Later(w, u) /\ u.open = w.open /\ u.gen = w.gen /\ u.comb = w.comb
<1> DEFINE u == Settle(w, p, s, v)
<1>1. w \in World /\ Fit(w) /\ Sound(w) /\ Once(w, T) /\ Ordered(w, rn) /\ rn \in [Promise -> Nat]
  BY DEF Inv, Fit
<1>2. u \in World /\ IF w.st[p].state = "pending" THEN Flushed(w, u, p, s, v) ELSE u = w
  BY <1>1, SettleParts
<1> HIDE DEF u
<1>3. ASSUME u = w PROVE Inv(u, T, rn) /\ Later(w, u) /\ u.open = w.open /\ u.gen = w.gen /\ u.comb = w.comb
  BY <1>1, <1>3, LaterSame DEF Inv
<1>4. ASSUME Flushed(w, u, p, s, v)
      PROVE  Inv(u, T, rn) /\ Later(w, u) /\ u.open = w.open /\ u.gen = w.gen /\ u.comb = w.comb
  <2>1. Fit(u) /\ Sound(u) /\ Later(w, u)
    BY <1>1, <1>2, <1>4, FlushedFit
  <2>2. Once(u, T)
    BY <1>1, <1>2, <1>4, FlushedOnce
  <2>3. Ordered(u, rn)
    BY <1>1, <1>2, <1>4, FlushedOrdered
  <2>4. u.open = w.open /\ u.gen = w.gen /\ u.comb = w.comb
    BY <1>4 DEF Flushed
  <2> QED
    BY <1>1, <2>1, <2>2, <2>3, <2>4 DEF Inv
<1>5. Inv(u, T, rn) /\ Later(w, u) /\ u.open = w.open /\ u.gen = w.gen /\ u.comb = w.comb
  BY <1>2, <1>3, <1>4
<1> QED
  BY <1>5 DEF u

-----------------------------------------------------------------------------
(* One more job. *)

LEMMA Longer ==
  ASSUME NEW S, NEW a \in Seq(S), NEW x \in S
  PROVE  /\ Append(a, x) \in Seq(S) /\ Len(Append(a, x)) = Len(a) + 1 /\ Len(a) \in Nat
         /\ DOMAIN a = 1 .. Len(a) /\ DOMAIN Append(a, x) = 1 .. Len(a) + 1
         /\ \A i \in 1 .. Len(a) : Append(a, x)[i] = a[i]
         /\ Append(a, x)[Len(a) + 1] = x
OBVIOUS

Queues(w, u, j) ==
  /\ u.st = w.st /\ u.open = w.open /\ u.gen = w.gen /\ u.comb = w.comb /\ u.jobs = Append(w.jobs, j)

(* The last job is the new one. *)
LEMMA QueuesJobs ==
  ASSUME NEW w \in World, NEW u, NEW j \in Job, Queues(w, u, j)
  PROVE  /\ Len(w.jobs) \in Nat /\ u.jobs \in Seq(Job)
         /\ DOMAIN w.jobs = 1 .. Len(w.jobs) /\ DOMAIN u.jobs = 1 .. Len(w.jobs) + 1
         /\ \A i \in DOMAIN w.jobs : u.jobs[i] = w.jobs[i]
         /\ u.jobs[Len(w.jobs) + 1] = j
         /\ \A i \in DOMAIN u.jobs : i \in DOMAIN w.jobs \/ i = Len(w.jobs) + 1
<1>1. w.jobs \in Seq(Job) /\ u.jobs = Append(w.jobs, j)
  BY WorldParts DEF Queues
<1>2. /\ u.jobs \in Seq(Job) /\ Len(w.jobs) \in Nat
      /\ DOMAIN w.jobs = 1 .. Len(w.jobs) /\ DOMAIN u.jobs = 1 .. Len(w.jobs) + 1
      /\ \A i \in 1 .. Len(w.jobs) : u.jobs[i] = w.jobs[i]
      /\ u.jobs[Len(w.jobs) + 1] = j
  <2> DEFINE a == w.jobs
  <2>1. a \in Seq(Job) /\ u.jobs = Append(a, j)
    BY <1>1
  <2> HIDE DEF a
  <2>2. /\ u.jobs \in Seq(Job) /\ Len(a) \in Nat
        /\ DOMAIN a = 1 .. Len(a) /\ DOMAIN u.jobs = 1 .. Len(a) + 1
        /\ \A i \in 1 .. Len(a) : u.jobs[i] = a[i]
        /\ u.jobs[Len(a) + 1] = j
    BY <2>1, Longer
  <2> QED
    BY <2>2 DEF a
<1>3. \A i \in DOMAIN u.jobs : i \in DOMAIN w.jobs \/ i = Len(w.jobs) + 1
  <2> DEFINE n == Len(w.jobs)
  <2>1. n \in Nat /\ DOMAIN w.jobs = 1 .. n /\ DOMAIN u.jobs = 1 .. n + 1
    BY <1>2
  <2> HIDE DEF n
  <2>2. \A i \in DOMAIN u.jobs : i \in DOMAIN w.jobs \/ i = n + 1
    BY <2>1, SMTT(30)
  <2> QED
    BY <2>2 DEF n
<1> QED
  BY <1>2, <1>3

(* What it settles, if anything, nothing else settles. *)
Sole(w, T, x) == x = Nothing \/ (x \in Proms /\ w.st[x.p].state = "pending" /\ Undecided(w, T, x.p))

LEMMA QueuesOnce ==
  ASSUME NEW w \in World, NEW u, NEW j \in Job, NEW T, Queues(w, u, j), Once(w, T), Sole(w, T, Target(j))
  PROVE  Once(u, T)
<1> DEFINE n == Len(w.jobs) + 1
<1>1. /\ u.st = w.st /\ u.open = w.open
      /\ \A i \in DOMAIN w.jobs : u.jobs[i] = w.jobs[i]
      /\ u.jobs[n] = j
      /\ \A i \in DOMAIN u.jobs : i \in DOMAIN w.jobs \/ i = n
  BY QueuesJobs DEF Queues
<1> HIDE DEF n
<1>2. /\ \A i \in DOMAIN w.jobs : Target(w.jobs[i]) \in Proms \cup {Nothing}
      /\ Target(j) \in Proms \cup {Nothing}
      /\ \A q \in Promise : \A i \in DOMAIN w.st[q].handlers : w.st[q].handlers[i].result \in Proms \cup {Nothing}
      /\ \A f \in w.open : f.p \in Promise
      /\ Nothing \notin Proms
  BY WorldParts, JobFacts, ReactionFacts, RefSets, RefKinds
<1>3. ASSUME Target(j) # Nothing
      PROVE  /\ Target(j) \in Proms /\ w.st[Target(j).p].state = "pending" /\ Target(j) \notin T
             /\ \A f \in w.open : Prom(f.p) # Target(j)
             /\ \A i \in DOMAIN w.jobs : Target(w.jobs[i]) # Target(j)
             /\ \A q \in Promise : \A i \in DOMAIN w.st[q].handlers : w.st[q].handlers[i].result # Target(j)
  <2>1. Target(j) \in Proms /\ w.st[Target(j).p].state = "pending" /\ Undecided(w, T, Target(j).p)
    BY <1>3 DEF Sole
  <2>2. Prom(Target(j).p) = Target(j) /\ \A f \in w.open : Prom(f.p).p = f.p
    BY <2>1, RefSets, RefKinds
  <2> QED
    BY <2>1, <2>2 DEF Undecided
<1>4. \A i, k \in DOMAIN u.jobs : Target(u.jobs[i]) = Target(u.jobs[k]) => i = k \/ Target(u.jobs[i]) = Nothing
  BY <1>1, <1>3 DEF Once
<1>5. \A f \in u.open : /\ u.st[f.p].state = "pending" /\ Prom(f.p) \notin T
                        /\ \A i \in DOMAIN u.jobs : Target(u.jobs[i]) # Prom(f.p)
                        /\ \A q \in Promise : \A i \in DOMAIN u.st[q].handlers : u.st[q].handlers[i].result # Prom(f.p)
  <2>1. \A f \in w.open : Prom(f.p) # Nothing
    BY RefKinds
  <2> QED
    BY <1>1, <1>3, <2>1 DEF Once
<1>6. \A i \in DOMAIN u.jobs : Target(u.jobs[i]) # Nothing =>
        /\ u.st[Target(u.jobs[i]).p].state = "pending" /\ Target(u.jobs[i]) \notin T
        /\ \A q \in Promise : \A k \in DOMAIN u.st[q].handlers : u.st[q].handlers[k].result # Target(u.jobs[i])
  BY <1>1, <1>3, SMTT(30) DEF Once
<1> QED
  BY <1>1, <1>4, <1>5, <1>6, SMTT(30) DEF Once

LEMMA QueuesSound ==
  ASSUME NEW w \in World, NEW u \in World, NEW j \in Job, Queues(w, u, j), Fit(w), Sound(w),
         \A x \in JobRoots(j) : Good(w, x),
         \A q \in Promise : u.follows[q] = w.follows[q] \/ Good(w, u.follows[q])
  PROVE  Sound(u) /\ Later(w, u)
<1>1. Later(w, u)
  BY LaterSame DEF Queues
<1>2. \A x \in Ref : Good(w, x) => Good(u, x)
  BY <1>1, GoodLater
<1>3. \A x \in JobRoots(j) : Good(u, x)
  BY <1>2, JobFacts
<1>4. \A q \in Promise : u.follows[q] = w.follows[q] \/ Good(u, u.follows[q])
  BY <1>2, WorldParts DEF Ref, Value, Plain
<1>5. \A i \in DOMAIN u.jobs : (\E k \in DOMAIN w.jobs : u.jobs[i] = w.jobs[k]) \/ u.jobs[i] = j
  BY QueuesJobs
<1>6. New(w, u)
  BY <1>3, <1>4, <1>5 DEF New, Queues
<1> QED
  BY <1>1, <1>6, SoundKept

LEMMA AdoptOrdered ==
  ASSUME NEW w \in World, NEW u \in World, NEW j \in Job, Queues(w, u, j), j.kind = "adopt", u.cnt = w.cnt,
         NEW rn, Ordered(w, rn)
  PROVE  Ordered(u, rn)
<1>1. u.st = w.st /\ \A i \in DOMAIN w.jobs : i \in DOMAIN u.jobs /\ u.jobs[i] = w.jobs[i]
  BY QueuesJobs DEF Queues
<1>2. u.jobs[Len(w.jobs) + 1] = j /\ \A i \in DOMAIN u.jobs : i \in DOMAIN w.jobs \/ i = Len(w.jobs) + 1
  BY QueuesJobs
<1>3. \A q \in Promise : From(u, q) = From(w, q) /\ \A i \in From(w, q) : u.jobs[i] = w.jobs[i]
  BY <1>1, <1>2 DEF From
<1>4. \A q \in Promise : Same(w, u, q)
  BY <1>1, <1>3 DEF Same
<1> QED
  BY <1>4, SameOrdered DEF Ordered

LEMMA ReactOrdered ==
  ASSUME NEW w \in World, NEW u \in World, NEW j \in Job, NEW p \in Promise, NEW rn \in [Promise -> Nat],
         Queues(w, u, j), j.kind = "react", j.r.src = p,
         w.st[p].state \in {"ful", "rej"}, j.r.at = w.cnt[p] + 1, u.cnt = [w.cnt EXCEPT ![p] = @ + 1],
         Ordered(w, rn)
  PROVE  Ordered(u, rn)
<1> DEFINE n == Len(w.jobs) + 1
           c == w.cnt[p]
<1>1. u.st = w.st /\ \A i \in DOMAIN w.jobs : i \in DOMAIN u.jobs /\ u.jobs[i] = w.jobs[i]
  BY QueuesJobs DEF Queues
<1>2. u.jobs[n] = j /\ (\A i \in DOMAIN u.jobs : i \in DOMAIN w.jobs \/ i = n) /\ n \in DOMAIN u.jobs
      /\ \A i \in DOMAIN w.jobs : i \in Nat /\ i < n
  BY QueuesJobs
<1>3. c \in Nat /\ u.cnt[p] = c + 1 /\ \A q \in Promise : q # p => u.cnt[q] = w.cnt[q]
  BY WorldParts
<1> HIDE DEF n
<1>4. \A q \in Promise : q # p => From(u, q) = From(w, q) /\ \A i \in From(w, q) : u.jobs[i] = w.jobs[i]
  BY <1>1, <1>2 DEF From
<1>5. From(u, p) = From(w, p) \cup {n} /\ \A i \in From(w, p) : u.jobs[i] = w.jobs[i] /\ i < n
  BY <1>1, <1>2 DEF From
<1>6. /\ rn[p] <= c /\ rn[p] \in Nat
      /\ \A i \in From(w, p) : w.jobs[i].r.at \in rn[p] + 1 .. c
      /\ \A i, k \in From(w, p) : i < k => w.jobs[i].r.at < w.jobs[k].r.at
      /\ \A m \in rn[p] + 1 .. c : \E i \in From(w, p) : w.jobs[i].r.at = m
  BY DEF Ordered, OrderedAt
<1> HIDE DEF c
<1>7. \A i \in From(u, p) : u.jobs[i].r.at \in rn[p] + 1 .. c + 1
  BY <1>2, <1>3, <1>5, <1>6 DEF c
<1>8. ASSUME NEW i \in From(u, p), NEW k \in From(u, p), i < k PROVE u.jobs[i].r.at < u.jobs[k].r.at
  <2>1. i # n
    <3>1. k \in DOMAIN u.jobs /\ n \in Nat /\ k \in Nat /\ k <= n
      <4>1. k \in DOMAIN u.jobs
        BY DEF From
      <4> QED
        BY <4>1, QueuesJobs DEF n
    <3> QED
      BY <1>8, <3>1
  <2>2. CASE k = n
    <3>1. u.jobs[i].r.at \in rn[p] + 1 .. c
      BY <1>5, <1>6, <2>1
    <3>2. u.jobs[k].r.at = c + 1
      BY <1>2, <2>2 DEF c
    <3> QED
      BY <1>3, <1>6, <3>1, <3>2
  <2>3. CASE k # n
    BY <1>5, <1>6, <1>8, <2>1, <2>3
  <2> QED
    BY <2>2, <2>3
<1>9. \A m \in rn[p] + 1 .. c + 1 : \E i \in From(u, p) : u.jobs[i].r.at = m
  <2> SUFFICES ASSUME NEW m \in rn[p] + 1 .. c + 1 PROVE \E i \in From(u, p) : u.jobs[i].r.at = m
    OBVIOUS
  <2>1. CASE m = c + 1
    BY <1>2, <1>5, <2>1 DEF c
  <2>2. CASE m # c + 1
    <3>1. m \in rn[p] + 1 .. c
      BY <1>3, <1>6, <2>2
    <3> QED
      BY <1>5, <1>6, <3>1
  <2> QED
    BY <2>1, <2>2
<1>10. w.st[p].state # "free" /\ w.st[p].state # "pending"
  OBVIOUS
<1>11. rn[p] <= c + 1
  BY <1>3, <1>6
<1>12. ASSUME NEW q \in Promise, q # p PROVE OrderedAt(u, rn, q)
  BY <1>1, <1>3, <1>4, <1>12, SameOrdered, Zenon DEF Ordered, Same
<1>13. OrderedAt(u, rn, p)
  BY <1>1, <1>3, <1>7, <1>8, <1>9, <1>10, <1>11 DEF OrderedAt
<1> QED
  BY <1>12, <1>13 DEF Ordered

(* resolvePromise, of a promise nothing else will settle. *)
LEMMA ResolveKeeps ==
  ASSUME NEW w, NEW T, NEW rn, Inv(w, T, rn), NEW p \in Promise, Undecided(w, T, p),
         NEW v \in Value, Good(w, v)
  PROVE  LET u == Resolve(w, p, v)
         IN  Inv(u, T, rn) /\ Later(w, u) /\ u.open = w.open /\ u.gen = w.gen /\ u.comb = w.comb
<1>1. w \in World /\ Fit(w) /\ Sound(w) /\ Once(w, T) /\ Ordered(w, rn) /\ rn \in [Promise -> Nat]
  BY DEF Inv, Fit
<1>2. CASE w.st[p].state # "pending"
  BY <1>1, <1>2, LaterSame DEF Resolve
<1>3. CASE w.st[p].state = "pending" /\ v \in {Prom(p), BadThen}
  <2>1. Data("err") \in Plain
    BY RefSets
  <2> QED
    BY <1>3, <2>1, SettleKeeps DEF Resolve
<1>4. CASE w.st[p].state = "pending" /\ v \notin {Prom(p), BadThen} /\ v.k \in {"promise", "thenable"}
  <2> DEFINE j == [kind |-> "adopt", p |-> p, v |-> v]
             u == [w EXCEPT !.jobs = Append(@, j), !.follows[p] = v]
  <2>1. Resolve(w, p, v) = u
    BY <1>4 DEF Resolve
  <2>2. v \in Proms \cup {Thenable}
    BY <1>4, RefSets, RefKinds DEF Value
  <2>3. j \in Job
    BY <2>2 DEF Job, AdoptJob
  <2>4. Target(j) = Prom(p) /\ JobRoots(j) = {Prom(p), v}
    BY DEF Target, JobRoots
  <2> HIDE DEF j
  <2>5. Queues(w, u, j) /\ u.cnt = w.cnt /\ u.follows = [w.follows EXCEPT ![p] = v]
    BY <1>1 DEF Queues, World
  <2>6. u \in World
    <3>1. Append(w.jobs, j) \in Seq(Job) /\ [w.follows EXCEPT ![p] = v] \in [Promise -> Proms \cup {Nothing, Thenable}]
      BY <1>1, <2>2, <2>3, WorldParts
    <3> QED
      BY <1>1, <3>1, Zenon DEF World
  <2> HIDE DEF u
  <2>7. Fit(u)
    <3>1. \A q \in Promise : u.st[q].state = "free" => u.follows[q] = Nothing
      BY <1>1, <1>4, <2>5, WorldParts DEF Queues, Fit
    <3> QED
      BY <1>1, <2>5, <2>6, <3>1 DEF Queues, Fit
  <2>8. Sound(u) /\ Later(w, u)
    <3>1. \A x \in JobRoots(j) : Good(w, x)
      BY <1>4, <2>4, RefKinds DEF Good, Lives
    <3>2. \A q \in Promise : u.follows[q] = w.follows[q] \/ Good(w, u.follows[q])
      BY <1>1, <2>5, WorldParts
    <3> QED
      BY <1>1, <2>3, <2>5, <2>6, <3>1, <3>2, QueuesSound, Zenon
  <2>9. Once(u, T)
    <3>1. Sole(w, T, Target(j))
      BY <1>4, <2>4, RefKinds, RefSets DEF Sole
    <3> QED
      BY <1>1, <2>3, <2>5, <2>6, <3>1, QueuesOnce
  <2>10. Ordered(u, rn)
    <3>1. j.kind = "adopt"
      BY DEF j
    <3> QED
      BY <1>1, <2>3, <2>5, <2>6, <3>1, AdoptOrdered
  <2>11. Inv(u, T, rn) /\ Later(w, u) /\ u.open = w.open /\ u.gen = w.gen /\ u.comb = w.comb
    BY <1>1, <2>5, <2>7, <2>8, <2>9, <2>10 DEF Inv, Queues
  <2> QED
    BY <2>1, <2>11
<1>5. CASE w.st[p].state = "pending" /\ v \notin {Prom(p), BadThen} /\ v.k \notin {"promise", "thenable"}
  <2>1. v \in Plain
    BY <1>5, RefSets, RefKinds DEF Value
  <2> QED
    BY <1>5, <2>1, SettleKeeps DEF Resolve
<1> QED
  BY <1>2, <1>3, <1>4, <1>5

-----------------------------------------------------------------------------
(* One more handler. *)

Registers(w, u, p, r) ==
  /\ w.st[p].state = "pending" /\ r.src = p /\ r.at = w.cnt[p] + 1
  /\ u.st = [w.st EXCEPT ![p].handlers = Append(@, r)] /\ u.cnt = [w.cnt EXCEPT ![p] = @ + 1]
  /\ u.jobs = w.jobs /\ u.open = w.open /\ u.gen = w.gen /\ u.comb = w.comb /\ u.follows = w.follows

LEMMA RegistersParts ==
  ASSUME NEW w \in World, NEW u, NEW p \in Promise, NEW r \in Reaction, Registers(w, u, p, r)
  PROVE  /\ \A q \in Promise : q # p => u.st[q] = w.st[q] /\ u.cnt[q] = w.cnt[q]
         /\ \A q \in Promise : u.st[q].state = w.st[q].state
         /\ u.st \in [Promise -> Cell] /\ u.cnt \in [Promise -> Nat] /\ u.cnt[p] = w.cnt[p] + 1
         /\ Len(u.st[p].handlers) = Len(w.st[p].handlers) + 1
         /\ \A q \in Promise : \A i \in DOMAIN w.st[q].handlers :
              i \in DOMAIN u.st[q].handlers /\ u.st[q].handlers[i] = w.st[q].handlers[i]
         /\ u.st[p].handlers[Len(w.st[p].handlers) + 1] = r
         /\ \A q \in Promise : \A i \in DOMAIN u.st[q].handlers :
              i \in DOMAIN w.st[q].handlers \/ (q = p /\ i = Len(w.st[p].handlers) + 1)
         /\ Len(w.st[p].handlers) + 1 \notin DOMAIN w.st[p].handlers
<1> DEFINE a == w.st[p].handlers
           c == [w.st[p] EXCEPT !.handlers = Append(@, r)]
<1>1. a \in Seq(Reaction) /\ w.st \in [Promise -> Cell] /\ w.cnt \in [Promise -> Nat] /\ w.st[p] \in Cell
  BY WorldParts
<1>2. u.st = [w.st EXCEPT ![p] = c] /\ u.cnt = [w.cnt EXCEPT ![p] = @ + 1]
  BY DEF Registers
<1>3. c.state = w.st[p].state /\ c.handlers = Append(a, r) /\ c.val = w.st[p].val
  BY <1>1 DEF Cell
<1>4. Append(a, r) \in Seq(Reaction)
  BY <1>1
<1>5. c \in Cell
  BY <1>1, <1>4, Zenon DEF Cell
<1> HIDE DEF a, c
<1>6. u.st[p] = c /\ \A q \in Promise : q # p => u.st[q] = w.st[q]
  BY <1>1, <1>2
<1>7. /\ Len(Append(a, r)) = Len(a) + 1 /\ Len(a) \in Nat
      /\ DOMAIN a = 1 .. Len(a) /\ DOMAIN Append(a, r) = 1 .. Len(a) + 1
      /\ \A i \in 1 .. Len(a) : Append(a, r)[i] = a[i]
      /\ Append(a, r)[Len(a) + 1] = r
  BY <1>1, Longer
<1>8. \A q \in Promise : u.st[q].state = w.st[q].state
  BY <1>3, <1>6
<1>9. u.st \in [Promise -> Cell] /\ u.cnt \in [Promise -> Nat] /\ u.cnt[p] = w.cnt[p] + 1
      /\ \A q \in Promise : q # p => u.cnt[q] = w.cnt[q]
  BY <1>1, <1>2, <1>5
<1>10. /\ \A i \in DOMAIN a : i \in DOMAIN u.st[p].handlers /\ u.st[p].handlers[i] = a[i]
       /\ \A i \in DOMAIN u.st[p].handlers : i \in DOMAIN a \/ i = Len(a) + 1
       /\ Len(a) + 1 \notin DOMAIN a
       /\ Len(u.st[p].handlers) = Len(a) + 1 /\ u.st[p].handlers[Len(a) + 1] = r
  BY <1>3, <1>6, <1>7
<1>11. a = w.st[p].handlers
  BY DEF a
<1>12. ASSUME NEW q \in Promise, NEW i \in DOMAIN w.st[q].handlers
       PROVE  i \in DOMAIN u.st[q].handlers /\ u.st[q].handlers[i] = w.st[q].handlers[i]
  BY <1>6, <1>10, <1>11
<1>13. ASSUME NEW q \in Promise, NEW i \in DOMAIN u.st[q].handlers
       PROVE  i \in DOMAIN w.st[q].handlers \/ (q = p /\ i = Len(w.st[p].handlers) + 1)
  <2>1. CASE q = p
    <3>1. i \in DOMAIN u.st[p].handlers
      BY <1>13, <2>1
    <3> QED
      BY <1>10, <1>11, <2>1, <3>1
  <2>2. CASE q # p
    <3>1. u.st[q] = w.st[q]
      BY <1>6, <2>2, SMTT(30)
    <3> QED
      BY <1>13, <3>1
  <2> QED
    BY <2>1, <2>2
<1> QED
  BY <1>6, <1>8, <1>9, <1>10, <1>11, <1>12, <1>13

LEMMA RegistersOnce ==
  ASSUME NEW w \in World, NEW u, NEW p \in Promise, NEW r \in Reaction, NEW T, Registers(w, u, p, r),
         Once(w, T), Sole(w, T, r.result)
  PROVE  Once(u, T)
<1> DEFINE n == Len(w.st[p].handlers) + 1
<1>1. /\ \A q \in Promise : u.st[q].state = w.st[q].state
      /\ \A q \in Promise : \A i \in DOMAIN w.st[q].handlers : u.st[q].handlers[i] = w.st[q].handlers[i]
      /\ u.st[p].handlers[n] = r
      /\ \A q \in Promise : \A i \in DOMAIN u.st[q].handlers : i \in DOMAIN w.st[q].handlers \/ (q = p /\ i = n)
  BY RegistersParts
<1>2. u.jobs = w.jobs /\ u.open = w.open
  BY DEF Registers
<1> HIDE DEF n
<1>3. /\ \A i \in DOMAIN w.jobs : Target(w.jobs[i]) \in Proms \cup {Nothing}
      /\ r.result \in Proms \cup {Nothing}
      /\ \A q \in Promise : \A i \in DOMAIN w.st[q].handlers : w.st[q].handlers[i].result \in Proms \cup {Nothing}
      /\ \A f \in w.open : f.p \in Promise /\ Prom(f.p) # Nothing
      /\ \A x \in Proms : x.p \in Promise
  BY WorldParts, JobFacts, ReactionFacts, RefSets, RefKinds
<1>4. ASSUME r.result # Nothing
      PROVE  /\ r.result \in Proms /\ w.st[r.result.p].state = "pending" /\ r.result \notin T
             /\ \A f \in w.open : Prom(f.p) # r.result
             /\ \A i \in DOMAIN w.jobs : Target(w.jobs[i]) # r.result
             /\ \A q \in Promise : \A i \in DOMAIN w.st[q].handlers : w.st[q].handlers[i].result # r.result
  <2>1. r.result \in Proms /\ w.st[r.result.p].state = "pending" /\ Undecided(w, T, r.result.p)
    BY <1>4 DEF Sole
  <2>2. Prom(r.result.p) = r.result /\ \A f \in w.open : Prom(f.p).p = f.p
    BY <2>1, RefSets, RefKinds
  <2> QED
    BY <2>1, <2>2 DEF Undecided
<1>5. \A q, m \in Promise : \A i \in DOMAIN u.st[q].handlers, k \in DOMAIN u.st[m].handlers :
        u.st[q].handlers[i].result = u.st[m].handlers[k].result
          => (q = m /\ i = k) \/ u.st[q].handlers[i].result = Nothing
  <2> SUFFICES ASSUME NEW q \in Promise, NEW m \in Promise,
                      NEW i \in DOMAIN u.st[q].handlers, NEW k \in DOMAIN u.st[m].handlers,
                      u.st[q].handlers[i].result = u.st[m].handlers[k].result,
                      u.st[q].handlers[i].result # Nothing
               PROVE  q = m /\ i = k
    BY SMTT(30)
  <2>1. CASE i \in DOMAIN w.st[q].handlers /\ k \in DOMAIN w.st[m].handlers
    <3>1. w.st[q].handlers[i].result = w.st[m].handlers[k].result /\ w.st[q].handlers[i].result # Nothing
      BY <1>1, <2>1, Zenon
    <3> QED
      BY <2>1, <3>1 DEF Once
  <2>2. CASE i \in DOMAIN w.st[q].handlers /\ m = p /\ k = n
    BY <1>1, <1>4, <2>2
  <2>3. CASE k \in DOMAIN w.st[m].handlers /\ q = p /\ i = n
    BY <1>1, <1>4, <2>3
  <2> QED
    BY <1>1, <2>1, <2>2, <2>3
<1>6. \A f \in u.open : /\ u.st[f.p].state = "pending" /\ Prom(f.p) \notin T
                        /\ \A i \in DOMAIN u.jobs : Target(u.jobs[i]) # Prom(f.p)
                        /\ \A q \in Promise : \A i \in DOMAIN u.st[q].handlers : u.st[q].handlers[i].result # Prom(f.p)
  BY <1>1, <1>2, <1>3, <1>4, SMTT(30) DEF Once
<1>7. \A i \in DOMAIN u.jobs : Target(u.jobs[i]) # Nothing =>
        /\ u.st[Target(u.jobs[i]).p].state = "pending" /\ Target(u.jobs[i]) \notin T
        /\ \A q \in Promise : \A k \in DOMAIN u.st[q].handlers : u.st[q].handlers[k].result # Target(u.jobs[i])
  BY <1>1, <1>2, <1>3, <1>4, SMTT(30) DEF Once
<1>8. \A q \in Promise : \A k \in DOMAIN u.st[q].handlers : u.st[q].handlers[k].result # Nothing =>
        u.st[u.st[q].handlers[k].result.p].state = "pending" /\ u.st[q].handlers[k].result \notin T
  <2> SUFFICES ASSUME NEW q \in Promise, NEW k \in DOMAIN u.st[q].handlers, u.st[q].handlers[k].result # Nothing
               PROVE  u.st[u.st[q].handlers[k].result.p].state = "pending" /\ u.st[q].handlers[k].result \notin T
    OBVIOUS
  <2>1. CASE k \in DOMAIN w.st[q].handlers
    <3>1. u.st[q].handlers[k] = w.st[q].handlers[k] /\ w.st[q].handlers[k].result \in Proms
      BY <1>1, <1>3, <2>1
    <3>2. w.st[w.st[q].handlers[k].result.p].state = "pending" /\ w.st[q].handlers[k].result \notin T
      BY <2>1, <3>1 DEF Once
    <3> QED
      BY <1>1, <1>3, <3>1, <3>2, Zenon
  <2>2. CASE q = p /\ k = n
    BY <1>1, <1>3, <1>4, <2>2
  <2> QED
    BY <1>1, <2>1, <2>2
<1>9. \A x \in T : x \in Proms /\ u.st[x.p].state = "pending"
  BY <1>1, <1>3 DEF Once
<1>10. \A i, k \in DOMAIN u.jobs : Target(u.jobs[i]) = Target(u.jobs[k]) => i = k \/ Target(u.jobs[i]) = Nothing
  BY <1>2 DEF Once
<1>11. \A f, g \in u.open : f.p = g.p => f = g
  BY <1>2 DEF Once
<1> QED
  BY <1>5, <1>6, <1>7, <1>8, <1>9, <1>10, <1>11 DEF Once

LEMMA RegistersKeeps ==
  ASSUME NEW w, NEW T, NEW rn, Inv(w, T, rn), NEW u, NEW p \in Promise, NEW r \in Reaction,
         Registers(w, u, p, r), u = [w EXCEPT !.st = u.st, !.cnt = u.cnt],
         \A x \in {r.onF, r.onR, r.result} : Good(w, x), Sole(w, T, r.result)
  PROVE  Inv(u, T, rn) /\ Later(w, u)
<1>1. w \in World /\ Fit(w) /\ Sound(w) /\ Once(w, T) /\ Ordered(w, rn) /\ rn \in [Promise -> Nat]
  BY DEF Inv, Fit
<1>2. /\ \A q \in Promise : q # p => u.st[q] = w.st[q] /\ u.cnt[q] = w.cnt[q]
      /\ \A q \in Promise : u.st[q].state = w.st[q].state
      /\ u.st \in [Promise -> Cell] /\ u.cnt \in [Promise -> Nat] /\ u.cnt[p] = w.cnt[p] + 1
      /\ Len(u.st[p].handlers) = Len(w.st[p].handlers) + 1
      /\ \A q \in Promise : \A i \in DOMAIN w.st[q].handlers :
           i \in DOMAIN u.st[q].handlers /\ u.st[q].handlers[i] = w.st[q].handlers[i]
      /\ u.st[p].handlers[Len(w.st[p].handlers) + 1] = r
      /\ \A q \in Promise : \A i \in DOMAIN u.st[q].handlers :
           i \in DOMAIN w.st[q].handlers \/ (q = p /\ i = Len(w.st[p].handlers) + 1)
  BY <1>1, RegistersParts
<1>3. /\ w.st[p].state = "pending" /\ r.src = p /\ r.at = w.cnt[p] + 1
      /\ u.jobs = w.jobs /\ u.open = w.open /\ u.gen = w.gen /\ u.comb = w.comb /\ u.follows = w.follows
  BY DEF Registers
<1>4. u \in World
  BY <1>1, <1>2, Zenon DEF World
<1>5. Fit(u)
  BY <1>1, <1>2, <1>3, <1>4, SMTT(30) DEF Fit
<1>6. Later(w, u)
  <2>1. w.gen \in [Promise -> Nat] /\ w.comb.at \in Nat
    BY <1>1, WorldParts, CombFacts
  <2> QED
    BY <1>2, <1>3, <2>1 DEF Later, Lives
<1>7. Sound(u)
  <2>1. \A x \in {r.onF, r.onR, r.result} : Good(u, x)
    <3>1. \A x \in {r.onF, r.onR, r.result} : x \in Ref
      BY ReactionFacts DEF Ref, Value, Plain
    <3> QED
      BY <1>1, <1>4, <1>6, <3>1, GoodLater
  <2>2. New(w, u)
    BY <1>2, <1>3, <2>1, SMTT(30) DEF New
  <2> QED
    BY <1>1, <1>4, <1>6, <2>2, SoundKept
<1>8. Once(u, T)
  BY <1>1, RegistersOnce
<1>9. Ordered(u, rn)
  <2>1. \A q \in Promise : From(u, q) = From(w, q)
    BY <1>3 DEF From
  <2>2. \A q \in Promise : q # p => OrderedAt(u, rn, q)
    BY <1>1, <1>2, <1>3, <2>1, SameOrdered, Zenon DEF Same, Ordered
  <2>3. Len(w.st[p].handlers) = w.cnt[p] /\ rn[p] = 0 /\ From(w, p) = {}
        /\ \A i \in DOMAIN w.st[p].handlers : w.st[p].handlers[i].at = i /\ w.st[p].handlers[i].src = p
    BY <1>1, <1>3 DEF Ordered, OrderedAt
  <2>4. \A i \in DOMAIN u.st[p].handlers : u.st[p].handlers[i].at = i /\ u.st[p].handlers[i].src = p
    BY <1>2, <1>3, <2>3, SMTT(30)
  <2>5. OrderedAt(u, rn, p)
    BY <1>2, <1>3, <2>1, <2>3, <2>4 DEF OrderedAt
  <2> QED
    BY <2>2, <2>5 DEF Ordered
<1> QED
  BY <1>1, <1>5, <1>6, <1>7, <1>8, <1>9 DEF Inv

(* promiseThenCap, on a promise that is there. *)
LEMMA ThenKeeps ==
  ASSUME NEW w, NEW T, NEW rn, Inv(w, T, rn), NEW p \in Promise, Lives(w, p), NEW onF, NEW onR, NEW result,
         \/ result = Nothing /\ onF \in Pairs \cup Elems /\ onR \in Pairs \cup Elems
         \/ result \in Proms /\ onF \in {Js, Nothing} /\ onR \in {Js, Nothing},
         Good(w, onF), Good(w, onR), Sole(w, T, result)
  PROVE  LET u == promiseThenCap(w, p, onF, onR, result)
         IN  Inv(u, T, rn) /\ Later(w, u) /\ u.open = w.open /\ u.gen = w.gen /\ u.comb = w.comb
<1> DEFINE r == [onF |-> onF, onR |-> onR, result |-> result, src |-> p, at |-> w.cnt[p] + 1]
           c == [w EXCEPT !.cnt[p] = @ + 1]
           u == promiseThenCap(w, p, onF, onR, result)
<1>1. w \in World /\ Fit(w) /\ Sound(w) /\ Once(w, T) /\ Ordered(w, rn) /\ rn \in [Promise -> Nat]
  BY DEF Inv, Fit
<1>2. w.st \in [Promise -> Cell] /\ w.cnt \in [Promise -> Nat] /\ w.jobs \in Seq(Job) /\ w.st[p].val \in Plain
      /\ w.st[p].state \in {"pending", "ful", "rej"}
  BY <1>1, WorldParts DEF Lives
<1>3. r \in Reaction /\ r.src = p /\ r.at = w.cnt[p] + 1 /\ r.result = result /\ r.onF = onF /\ r.onR = onR
  BY <1>2 DEF Reaction
<1>4. Good(w, result)
  BY RefKinds DEF Sole, Good, Lives, Proms
<1>5. c = [w EXCEPT !.cnt = [w.cnt EXCEPT ![p] = @ + 1]]
  BY <1>1 DEF World
<1> HIDE DEF r
<1>6. CASE w.st[p].state = "pending"
  <2>1. u = [w EXCEPT !.st = [w.st EXCEPT ![p].handlers = Append(@, r)], !.cnt = [w.cnt EXCEPT ![p] = @ + 1]]
    BY <1>1, <1>6, Zenon DEF promiseThenCap, World, r
  <2> HIDE DEF u
  <2>2. Registers(w, u, p, r) /\ u = [w EXCEPT !.st = u.st, !.cnt = u.cnt]
    <3>1. /\ u.st = [w.st EXCEPT ![p].handlers = Append(@, r)] /\ u.cnt = [w.cnt EXCEPT ![p] = @ + 1]
          /\ u.jobs = w.jobs /\ u.open = w.open /\ u.gen = w.gen /\ u.comb = w.comb /\ u.follows = w.follows
      BY <1>1, <2>1 DEF World
    <3>2. u = [w EXCEPT !.st = u.st, !.cnt = u.cnt]
      BY <2>1, <3>1
    <3> QED
      BY <1>3, <1>6, <3>1, <3>2 DEF Registers
  <2>3. Inv(u, T, rn) /\ Later(w, u)
    <3>1. (\A x \in {r.onF, r.onR, r.result} : Good(w, x)) /\ Sole(w, T, r.result)
      BY <1>3, <1>4
    <3> QED
      BY <1>3, <2>2, <3>1, RegistersKeeps, Zenon
  <2>4. u.open = w.open /\ u.gen = w.gen /\ u.comb = w.comb
    BY <2>2 DEF Registers
  <2>5. Inv(u, T, rn) /\ Later(w, u) /\ u.open = w.open /\ u.gen = w.gen /\ u.comb = w.comb
    BY <2>3, <2>4
  <2> QED
    BY <2>5 DEF u
<1>7. CASE w.st[p].state # "pending"
  <2> DEFINE j == [kind |-> "react", r |-> r, s |-> w.st[p].state, v |-> w.st[p].val]
  <2>1. w.st[p].state \in {"ful", "rej"}
    BY <1>2, <1>7
  <2>2. j \in Job /\ j.kind = "react" /\ j.r = r /\ Target(j) = r.result
        /\ JobRoots(j) = {r.onF, r.onR, r.result, w.st[p].val}
    BY <1>2, <1>3, <2>1 DEF Job, ReactJob, Target, JobRoots
  <2>3. w.jobs \o Reacts(<<r>>, w.st[p].state, w.st[p].val) = Append(w.jobs, j)
    <3>1. Reacts(<<r>>, w.st[p].state, w.st[p].val) = <<j>>
      BY DEF Reacts
    <3>2. \A a \in Seq(Job) : a \o <<j>> = Append(a, j)
      <4> HIDE DEF j
      <4> QED
        BY <2>2
    <3> QED
      BY <1>2, <3>1, <3>2, Zenon
  <2> HIDE DEF j
  <2>4. u = [w EXCEPT !.jobs = Append(w.jobs, j), !.cnt = [w.cnt EXCEPT ![p] = @ + 1]]
    <3>1. u = [c EXCEPT !.jobs = @ \o Reacts(<<r>>, w.st[p].state, w.st[p].val)]
      BY <1>7 DEF promiseThenCap, r
    <3> QED
      BY <1>1, <1>5, <2>3, <3>1, Zenon DEF World
  <2> HIDE DEF u
  <2>5. Queues(w, u, j) /\ u.cnt = [w.cnt EXCEPT ![p] = @ + 1] /\ u.follows = w.follows
    BY <1>1, <2>4 DEF Queues, World
  <2>6. u \in World
    <3>1. Append(w.jobs, j) \in Seq(Job) /\ [w.cnt EXCEPT ![p] = @ + 1] \in [Promise -> Nat]
      BY <1>2, <2>2
    <3> QED
      BY <1>1, <2>4, <3>1, Zenon DEF World
  <2>7. Fit(u)
    <3>1. \A q \in Promise : u.st[q].state = "free" => u.cnt[q] = 0
      BY <1>1, <1>2, <2>1, <2>5 DEF Queues, Fit
    <3> QED
      BY <1>1, <2>5, <2>6, <3>1 DEF Queues, Fit
  <2>8. Sound(u) /\ Later(w, u)
    <3>1. Good(w, w.st[p].val)
      BY <1>2, RefSets, ZenonT(40) DEF Good
    <3>2. \A x \in JobRoots(j) : Good(w, x)
      BY <1>3, <1>4, <2>2, <3>1
    <3> QED
      BY <1>1, <2>2, <2>5, <2>6, <3>2, QueuesSound
  <2>9. Once(u, T)
    BY <1>1, <1>3, <2>2, <2>5, QueuesOnce
  <2>10. Ordered(u, rn)
    BY <1>1, <1>3, <2>1, <2>2, <2>5, <2>6, ReactOrdered
  <2>11. Inv(u, T, rn) /\ Later(w, u) /\ u.open = w.open /\ u.gen = w.gen /\ u.comb = w.comb
    BY <1>1, <2>5, <2>7, <2>8, <2>9, <2>10 DEF Inv, Queues
  <2> QED
    BY <2>11 DEF u
<1> QED
  BY <1>6, <1>7

-----------------------------------------------------------------------------
(* Calls of functions. *)

(* A function that has been called settles nothing any more. *)
LEMMA ShutKeeps ==
  ASSUME NEW w, NEW T, NEW rn, Inv(w, T, rn), NEW f \in w.open
  PROVE  LET u == [w EXCEPT !.open = @ \ {f}]
         IN  /\ Inv(u, T, rn) /\ Later(w, u) /\ Undecided(u, T, f.p) /\ f.p \in Promise
             /\ u.gen = w.gen /\ u.comb = w.comb
<1> DEFINE u == [w EXCEPT !.open = @ \ {f}]
<1>1. w \in World /\ Fit(w) /\ Sound(w) /\ Once(w, T) /\ Ordered(w, rn) /\ rn \in [Promise -> Nat]
  BY DEF Inv, Fit
<1>2. /\ u.open = w.open \ {f} /\ u.st = w.st /\ u.jobs = w.jobs /\ u.gen = w.gen /\ u.comb = w.comb /\ u.cnt = w.cnt
      /\ u.follows = w.follows
  BY <1>1 DEF World
<1>3. u \in World
  BY <1>1, WorldParts, Zenon DEF World
<1> HIDE DEF u
<1>4. f.p \in Promise
  BY <1>1, WorldParts, RefSets
<1>5. Fit(u)
  BY <1>1, <1>2, <1>3 DEF Fit
<1>6. Later(w, u)
  BY <1>1, <1>2, <1>3, LaterSame
<1>7. Sound(u)
  <2>1. New(w, u)
    BY <1>2 DEF New
  <2> QED
    BY <1>1, <1>3, <1>6, <2>1, SoundKept
<1>8. Once(u, T)
  BY <1>1, <1>2, SMTT(30) DEF Once
<1>9. Ordered(u, rn)
  <2>1. \A q \in Promise : Same(w, u, q)
    BY <1>2 DEF Same, From
  <2> QED
    BY <1>1, <2>1, SameOrdered DEF Ordered
<1>10. Undecided(u, T, f.p)
  BY <1>1, <1>2 DEF Once, Undecided
<1>11. /\ Inv(u, T, rn) /\ Later(w, u) /\ Undecided(u, T, f.p) /\ f.p \in Promise
       /\ u.gen = w.gen /\ u.comb = w.comb
  BY <1>1, <1>2, <1>4, <1>5, <1>6, <1>7, <1>8, <1>9, <1>10 DEF Inv
<1> QED
  BY <1>11 DEF u

(* A call of a resolve or reject function. *)
LEMMA CallPairKeeps ==
  ASSUME NEW w, NEW T, NEW rn, Inv(w, T, rn), NEW f \in Pairs, NEW ok \in BOOLEAN, NEW v \in Value,
         Good(w, v), ok \/ v \in Plain
  PROVE  LET x == CallPair(w, f, ok, v)
         IN  Inv(x, T, rn) /\ Later(w, x) /\ x.gen = w.gen /\ x.comb = w.comb
<1> DEFINE u == [w EXCEPT !.open = @ \ {f}]
           x == CallPair(w, f, ok, v)
<1>1. w \in World
  BY DEF Inv, Fit
<1>2. CASE f \notin w.open
  BY <1>1, <1>2, LaterSame DEF CallPair
<1>3. CASE f \in w.open
  <2>1. /\ Inv(u, T, rn) /\ Later(w, u) /\ Undecided(u, T, f.p) /\ f.p \in Promise
        /\ u.gen = w.gen /\ u.comb = w.comb
    BY <1>3, ShutKeeps
  <2>2. x = IF ok THEN Resolve(u, f.p, v) ELSE Settle(u, f.p, "rej", v)
    BY <1>3 DEF CallPair
  <2> HIDE DEF u, x
  <2>3. u \in World
    BY <2>1 DEF Inv, Fit
  <2>4. Good(u, v)
    BY <1>1, <2>1, <2>3, GoodLater DEF Ref
  <2>5. ASSUME ok PROVE Inv(x, T, rn) /\ Later(u, x) /\ x.gen = u.gen /\ x.comb = u.comb
    <3>1. x = Resolve(u, f.p, v)
      BY <2>2, <2>5
    <3> QED
      BY <2>1, <2>4, <3>1, ResolveKeeps
  <2>6. ASSUME ~ ok PROVE Inv(x, T, rn) /\ Later(u, x) /\ x.gen = u.gen /\ x.comb = u.comb
    <3>1. x = Settle(u, f.p, "rej", v) /\ v \in Plain
      BY <2>2, <2>6
    <3> QED
      BY <2>1, <3>1, SettleKeeps
  <2>7. Inv(x, T, rn) /\ Later(u, x) /\ x.gen = u.gen /\ x.comb = u.comb
    BY <2>5, <2>6
  <2>8. x \in World
    BY <2>7 DEF Inv, Fit
  <2>9. Inv(x, T, rn) /\ Later(w, x) /\ x.gen = w.gen /\ x.comb = w.comb
    BY <1>1, <2>1, <2>3, <2>7, <2>8, LaterTransitive
  <2> QED
    BY <2>9 DEF x
<1> QED
  BY <1>2, <1>3

(* The combinator goes on. *)
LEMMA CombKeeps ==
  ASSUME NEW w, NEW T, NEW rn, Inv(w, T, rn), NEW c \in Call0,
         c.kind # "none" => /\ c.kind \in Kinds /\ c.result \in Promise /\ Len(c.elems) = 2 /\ Len(c.res) = c.at
                            /\ c.called \subseteq 1 .. c.at /\ c.phase # "none",
         c.kind = "none" => c.at = 0 /\ c.phase \notin {"iter", "thrown"},
         w.comb.kind # "none" => /\ c.kind # "none" /\ w.comb.at <= c.at
                                 /\ c.result = w.comb.result /\ c.elems = w.comb.elems,
         w.comb.kind = "none" /\ c.kind # "none" =>
           Good(w, CapPair(c)) /\ \A i \in DOMAIN c.elems : Good(w, c.elems[i])
  PROVE  LET u == [w EXCEPT !.comb = c]
         IN  /\ Inv(u, T, rn) /\ Later(w, u) /\ u.gen = w.gen /\ u.comb = c /\ u.st = w.st /\ u.cnt = w.cnt
             /\ u.jobs = w.jobs /\ u.open = w.open /\ u.follows = w.follows
<1> DEFINE u == [w EXCEPT !.comb = c]
<1>1. w \in World /\ Fit(w) /\ Sound(w) /\ Once(w, T) /\ Ordered(w, rn) /\ rn \in [Promise -> Nat]
  BY DEF Inv, Fit
<1>2. /\ u.open = w.open /\ u.st = w.st /\ u.jobs = w.jobs /\ u.gen = w.gen /\ u.comb = c /\ u.cnt = w.cnt
      /\ u.follows = w.follows
  BY <1>1 DEF World
<1>3. u \in World
  BY <1>1, WorldParts, Zenon DEF World
<1> HIDE DEF u
<1>4. Fit(u)
  BY <1>1, <1>2, <1>3 DEF Fit
<1>5. Later(w, u)
  <2>1. w.gen \in [Promise -> Nat]
    BY <1>1, WorldParts
  <2> QED
    BY <1>2, <2>1 DEF Later, Lives
<1>6. Sound(u)
  <2>1. \A x \in Ref : Good(w, x) => Good(u, x)
    BY <1>1, <1>3, <1>5, GoodLater
  <2>2. ASSUME c.kind # "none", w.comb.kind = "none"
        PROVE  Good(u, CapPair(c)) /\ \A i \in DOMAIN c.elems : Good(u, c.elems[i])
    <3>1. CapPair(c) \in Ref /\ \A i \in DOMAIN c.elems : c.elems[i] \in Ref
      BY <2>2, CombFacts DEF CapPair, Ref, Pairs, Value, Plain
    <3> QED
      BY <2>1, <2>2, <3>1
  <2>3. New(w, u)
    BY <1>2, <2>2, SMTT(30) DEF New
  <2> QED
    BY <1>1, <1>3, <1>5, <2>3, SoundKept
<1>7. Once(u, T)
  BY <1>1, <1>2, SMTT(30) DEF Once
<1>8. Ordered(u, rn)
  <2>1. \A q \in Promise : Same(w, u, q)
    BY <1>2 DEF Same, From
  <2> QED
    BY <1>1, <2>1, SameOrdered DEF Ordered
<1>9. /\ Inv(u, T, rn) /\ Later(w, u) /\ u.gen = w.gen /\ u.comb = c /\ u.st = w.st /\ u.cnt = w.cnt
      /\ u.jobs = w.jobs /\ u.open = w.open /\ u.follows = w.follows
  BY <1>1, <1>2, <1>4, <1>5, <1>6, <1>7, <1>8 DEF Inv
<1> QED
  BY <1>9 DEF u

(* The step of tryFinish: the counter, and perhaps the result. *)
LEMMA tryFinishParts ==
  ASSUME NEW w, NEW T, NEW rn, Inv(w, T, rn), w.comb.kind # "none"
  PROVE  \E u : /\ Inv(u, T, rn) /\ Later(w, u) /\ u \in World /\ w \in World /\ CapPair(u.comb) \in Pairs
                /\ u.gen = w.gen /\ u.st = w.st /\ u.jobs = w.jobs /\ u.open = w.open /\ u.follows = w.follows
                /\ u.comb.kind = w.comb.kind /\ u.comb.result = w.comb.result
                /\ \/ tryFinish(w) = u
                   \/ \E ok \in BOOLEAN : tryFinish(w) = CallPair(u, CapPair(u.comb), ok, Arr)
<1> DEFINE c == [w.comb EXCEPT !.remaining = @ - 1]
           u == [w EXCEPT !.comb = c]
           x == tryFinish(w)
<1>1. w \in World /\ Fit(w) /\ w.comb \in Call0
  BY WorldParts DEF Inv, Fit
<1>2. c \in Call0 /\ c.kind = w.comb.kind /\ c.result = w.comb.result /\ c.elems = w.comb.elems /\ c.at = w.comb.at
      /\ c.called = w.comb.called /\ c.res = w.comb.res /\ c.phase = w.comb.phase /\ c.at \in Nat
  <2>1. c.kind = w.comb.kind /\ c.result = w.comb.result /\ c.elems = w.comb.elems /\ c.at = w.comb.at
        /\ c.called = w.comb.called /\ c.res = w.comb.res /\ c.phase = w.comb.phase
    BY <1>1 DEF Call0
  <2>2. w.comb.remaining - 1 \in Int /\ w.comb.at \in Nat
    BY <1>1, CombFacts
  <2>3. c \in Call0
    BY <1>1, <2>2, Zenon DEF Call0
  <2> QED
    BY <2>1, <2>2, <2>3
<1>3. u = [w EXCEPT !.comb.remaining = @ - 1]
  OBVIOUS
<1> HIDE DEF c
<1>4. /\ Inv(u, T, rn) /\ Later(w, u) /\ u.gen = w.gen /\ u.comb = c
      /\ u.st = w.st /\ u.jobs = w.jobs /\ u.open = w.open /\ u.follows = w.follows
  <2>1. /\ c.kind \in Kinds /\ c.result \in Promise /\ Len(c.elems) = 2 /\ Len(c.res) = c.at
        /\ c.called \subseteq 1 .. c.at /\ c.phase # "none" /\ c.kind # "none" /\ w.comb.at <= c.at
    BY <1>1, <1>2 DEF Fit
  <2> QED
    BY <1>1, <1>2, <2>1, CombKeeps
<1>5. x = u \/ \E ok \in BOOLEAN : x = CallPair(u, CapPair(u.comb), ok, Arr)
  BY <1>3, Zenon DEF tryFinish
<1> HIDE DEF u, x
<1>6. u \in World /\ CapPair(u.comb) \in Pairs
  BY <1>1, <1>2, <1>4 DEF Inv, Fit, CapPair, Pairs
<1> QED
  BY <1>1, <1>2, <1>4, <1>5, <1>6 DEF x

(* The counter, and the result when it reaches zero. *)
LEMMA tryFinishKeeps ==
  ASSUME NEW w, NEW T, NEW rn, Inv(w, T, rn), w.comb.kind # "none"
  PROVE  LET x == tryFinish(w)
         IN  Inv(x, T, rn) /\ Later(w, x) /\ x.gen = w.gen
<1> DEFINE x == tryFinish(w)
<1>1. PICK u : /\ Inv(u, T, rn) /\ Later(w, u) /\ u \in World /\ w \in World /\ CapPair(u.comb) \in Pairs
               /\ u.gen = w.gen
               /\ x = u \/ \E ok \in BOOLEAN : x = CallPair(u, CapPair(u.comb), ok, Arr)
  BY tryFinishParts
<1> HIDE DEF x
<1>2. Arr \in Value /\ Arr \in Plain /\ Good(u, Arr)
  BY RefSets, RefKinds DEF Value, Good
<1>3. Inv(x, T, rn) /\ Later(u, x) /\ x.gen = u.gen
  <2>1. CASE x = u
    BY <1>1, <2>1, LaterSame
  <2>2. ASSUME NEW ok \in BOOLEAN, x = CallPair(u, CapPair(u.comb), ok, Arr)
        PROVE  Inv(x, T, rn) /\ Later(u, x) /\ x.gen = u.gen
    BY <1>1, <1>2, <2>2, CallPairKeeps
  <2> QED
    BY <1>1, <2>1, <2>2
<1>4. x \in World
  BY <1>3 DEF Inv, Fit
<1>5. Inv(x, T, rn) /\ Later(w, x) /\ x.gen = w.gen
  BY <1>1, <1>3, <1>4, LaterTransitive
<1> QED
  BY <1>5 DEF x

(* The step of an element function: its place is filled. *)
Fills(w, u, i, ok, v) ==
  /\ u.comb.elems = w.comb.elems /\ u.comb.at = w.comb.at /\ u.comb.phase = w.comb.phase
  /\ u.comb.remaining = w.comb.remaining /\ u.comb.called = w.comb.called \cup {i}
  /\ u.comb.res = [w.comb.res EXCEPT ![i] = [ok |-> ok, v |-> v]] /\ i \in 1 .. w.comb.at
  /\ CallElem(w, i, ok, v) = IF i \in w.comb.called THEN w ELSE tryFinish(u)

LEMMA CallElemParts ==
  ASSUME NEW w, NEW T, NEW rn, Inv(w, T, rn), NEW i \in {1, 2}, Good(w, Elem(i)), NEW ok \in BOOLEAN, NEW v \in Value
  PROVE  \E u : /\ Inv(u, T, rn) /\ Later(w, u) /\ u \in World /\ w \in World
                /\ u.gen = w.gen /\ u.st = w.st /\ u.jobs = w.jobs /\ u.open = w.open /\ u.follows = w.follows
                /\ u.comb.kind = w.comb.kind /\ u.comb.result = w.comb.result /\ w.comb.kind # "none"
                /\ CallElem(w, i, ok, v) = w \/ CallElem(w, i, ok, v) = tryFinish(u)
                /\ Fills(w, u, i, ok, v)
<1> DEFINE c == [w.comb EXCEPT !.called = w.comb.called \cup {i},
                               !.res = [w.comb.res EXCEPT ![i] = [ok |-> ok, v |-> v]]]
           u == [w EXCEPT !.comb = c]
           x == CallElem(w, i, ok, v)
<1>1. w \in World /\ Fit(w) /\ w.comb \in Call0 /\ w.comb.kind # "none" /\ i \in 1 .. w.comb.at
  BY WorldParts, RefKinds DEF Inv, Fit, Good
<1>2. /\ c.kind = w.comb.kind /\ c.result = w.comb.result /\ c.elems = w.comb.elems /\ c.at = w.comb.at
      /\ c.called = w.comb.called \cup {i} /\ c.res = [w.comb.res EXCEPT ![i] = [ok |-> ok, v |-> v]]
      /\ c.remaining = w.comb.remaining /\ c.phase = w.comb.phase
  BY <1>1 DEF Call0
<1>3. c.res \in Seq([ok : BOOLEAN, v : Value]) /\ Len(c.res) = w.comb.at
  <2> DEFINE a == w.comb.res
             z == [ok |-> ok, v |-> v]
             R == [ok : BOOLEAN, v : Value]
  <2>1. a \in Seq(R) /\ Len(a) = w.comb.at /\ z \in R /\ i \in 1 .. Len(a)
    BY <1>1, CombFacts, Zenon DEF Fit
  <2> HIDE DEF a, z, R
  <2>2. [a EXCEPT ![i] = z] \in Seq(R) /\ Len([a EXCEPT ![i] = z]) = Len(a)
    BY <2>1, ExceptSeq
  <2> QED
    BY <1>2, <2>1, <2>2 DEF a, z, R
<1> HIDE DEF c
<1>4. c \in Call0 /\ c.called \subseteq 1 .. c.at
  <2>1. c.called \subseteq {1, 2} /\ c.called \subseteq 1 .. c.at
    BY <1>1, <1>2, CombFacts DEF Fit
  <2> QED
    BY <1>1, <1>3, <2>1, Zenon DEF Call0, c
<1>5. /\ Inv(u, T, rn) /\ Later(w, u) /\ u.gen = w.gen /\ u.comb = c
      /\ u.st = w.st /\ u.jobs = w.jobs /\ u.open = w.open /\ u.follows = w.follows
  <2>1. /\ c.kind \in Kinds /\ c.result \in Promise /\ Len(c.elems) = 2 /\ Len(c.res) = c.at
        /\ c.kind # "none" /\ w.comb.at <= c.at /\ c.phase # "none"
    BY <1>1, <1>2, <1>3, CombFacts DEF Fit
  <2> QED
    <3>1. c.result = w.comb.result /\ c.elems = w.comb.elems /\ c \in Call0 /\ c.called \subseteq 1 .. c.at
          /\ w.comb.kind # "none"
      BY <1>1, <1>2, <1>4
    <3>2. c.kind = "none" => c.at = 0 /\ c.phase \notin {"iter", "thrown"}
      BY <2>1
    <3> QED
      BY <2>1, <3>1, <3>2, CombKeeps, ZenonT(40)
<1>6. x = IF i \in w.comb.called THEN w ELSE tryFinish(u)
  <2>1. u = [w EXCEPT !.comb.called = @ \cup {i}, !.comb.res[i] = [ok |-> ok, v |-> v]]
    BY <1>1, Zenon DEF World, Call0, c
  <2> QED
    BY <2>1 DEF CallElem
<1>7. Fills(w, u, i, ok, v)
  BY <1>1, <1>2, <1>5, <1>6 DEF Fills
<1> HIDE DEF u, x
<1>8. u \in World
  BY <1>5 DEF Inv, Fit
<1> QED
  BY <1>1, <1>2, <1>5, <1>6, <1>7, <1>8 DEF x

LEMMA CallElemKeeps ==
  ASSUME NEW w, NEW T, NEW rn, Inv(w, T, rn), NEW i \in {1, 2}, Good(w, Elem(i)), NEW ok \in BOOLEAN, NEW v \in Value
  PROVE  LET x == CallElem(w, i, ok, v)
         IN  Inv(x, T, rn) /\ Later(w, x) /\ x.gen = w.gen
<1> DEFINE x == CallElem(w, i, ok, v)
<1>1. PICK u : /\ Inv(u, T, rn) /\ Later(w, u) /\ u \in World /\ w \in World
               /\ u.gen = w.gen /\ u.comb.kind = w.comb.kind /\ w.comb.kind # "none"
               /\ x = w \/ x = tryFinish(u)
  BY CallElemParts
<1> HIDE DEF x
<1>2. CASE x = tryFinish(u)
  <2>1. Inv(x, T, rn) /\ Later(u, x) /\ x.gen = u.gen
    BY <1>1, <1>2, tryFinishKeeps
  <2>2. x \in World
    BY <2>1 DEF Inv, Fit
  <2>3. Inv(x, T, rn) /\ Later(w, x) /\ x.gen = w.gen
    BY <1>1, <2>1, <2>2, LaterTransitive
  <2> QED
    BY <2>3 DEF x
<1>3. CASE x = w
  <2>1. Inv(x, T, rn) /\ Later(w, x) /\ x.gen = w.gen
    BY <1>1, <1>3, LaterSame
  <2> QED
    BY <2>1 DEF x
<1> QED
  BY <1>1, <1>2, <1>3

LEMMA CallNativeKeeps ==
  ASSUME NEW w, NEW T, NEW rn, Inv(w, T, rn), NEW f \in Pairs \cup Elems, Good(w, f),
         NEW ok \in BOOLEAN, NEW v \in Value, Good(w, v), ok \/ v \in Plain
  PROVE  LET x == CallNative(w, f, ok, v)
         IN  Inv(x, T, rn) /\ Later(w, x) /\ x.gen = w.gen
<1>1. CASE f \in Pairs
  <2>1. f.k = "pair"
    BY <1>1, RefSets
  <2> QED
    BY <1>1, <2>1, CallPairKeeps DEF CallNative
<1>2. CASE f \in Elems
  <2>1. f.k = "elem" /\ f.i \in {1, 2} /\ f = Elem(f.i)
    BY <1>2, RefSets
  <2>2. CallNative(w, f, ok, v) = CallElem(w, f.i, ok, v)
    BY <2>1 DEF CallNative
  <2> QED
    BY <2>1, <2>2, CallElemKeeps
<1> QED
  BY <1>1, <1>2

-----------------------------------------------------------------------------
(* New promises, new functions, and the head of the queue. *)

LEMMA NewPairKeeps ==
  ASSUME NEW w, NEW T, NEW rn, Inv(w, T, rn), NEW p \in Promise, w.st[p].state = "pending", Undecided(w, T, p)
  PROVE  LET u == NewPair(w, p)
         IN  /\ Inv(u, T, rn) /\ Later(w, u) /\ u.st = w.st /\ u.comb = w.comb /\ u.cnt = w.cnt /\ u.jobs = w.jobs
             /\ u.follows = w.follows /\ u.gen = [w.gen EXCEPT ![p] = @ + 1]
             /\ u.gen[p] \in Nat /\ Good(u, Pair(p, u.gen[p]))
<1> DEFINE f == Pair(p, w.gen[p] + 1)
           u == NewPair(w, p)
<1>1. w \in World /\ Fit(w) /\ Sound(w) /\ Once(w, T) /\ Ordered(w, rn) /\ rn \in [Promise -> Nat]
  BY DEF Inv, Fit
<1>2. /\ u.open = w.open \cup {f} /\ u.st = w.st /\ u.jobs = w.jobs /\ u.gen = [w.gen EXCEPT ![p] = @ + 1]
      /\ u.comb = w.comb /\ u.cnt = w.cnt /\ u.follows = w.follows
  BY <1>1 DEF World, NewPair
<1>3. w.gen \in [Promise -> Nat] /\ u.gen \in [Promise -> Nat] /\ u.gen[p] = w.gen[p] + 1
      /\ \A q \in Promise : q # p => u.gen[q] = w.gen[q]
  BY <1>1, <1>2, WorldParts
<1>4. f \in Pairs /\ f.k = "pair" /\ f.p = p /\ f.n = u.gen[p] /\ f = Pair(p, u.gen[p])
  BY <1>3, RefKinds DEF Pairs
<1>5. u \in World
  <2>1. w.open \cup {f} \in SUBSET Pairs /\ [w.gen EXCEPT ![p] = @ + 1] \in [Promise -> Nat]
    BY <1>1, <1>2, <1>3, <1>4, WorldParts
  <2> QED
    BY <1>1, <2>1, Zenon DEF World, NewPair
<1> HIDE DEF u, f
<1>6. Fit(u)
  BY <1>1, <1>2, <1>3, <1>5 DEF Fit
<1>7. Later(w, u)
  <2>1. w.comb.at \in Nat
    BY <1>1, WorldParts, CombFacts
  <2> QED
    BY <1>2, <1>3, <2>1 DEF Later, Lives
<1>8. Good(u, f)
  BY <1>2, <1>3, <1>4 DEF Good, Lives
<1>9. Sound(u)
  <2>1. New(w, u)
    BY <1>2, <1>8 DEF New
  <2> QED
    BY <1>1, <1>5, <1>7, <2>1, SoundKept
<1>10. Once(u, T)
  <2>1. \A g, h \in u.open : g.p = h.p => g = h
    BY <1>1, <1>2, <1>4, SMTT(30) DEF Once, Undecided
  <2>2. ASSUME NEW g \in u.open
        PROVE  /\ u.st[g.p].state = "pending" /\ Prom(g.p) \notin T
               /\ \A i \in DOMAIN u.jobs : Target(u.jobs[i]) # Prom(g.p)
               /\ \A q \in Promise : \A i \in DOMAIN u.st[q].handlers : u.st[q].handlers[i].result # Prom(g.p)
    <3>1. CASE g = f
      BY <1>2, <1>4, <3>1 DEF Undecided
    <3>2. CASE g \in w.open
      BY <1>1, <1>2, <3>2, SMTT(30) DEF Once
    <3> QED
      BY <1>2, <3>1, <3>2
  <2> QED
    BY <1>1, <1>2, <2>1, <2>2, SMTT(30) DEF Once
<1>11. Ordered(u, rn)
  <2>1. \A q \in Promise : Same(w, u, q)
    BY <1>2 DEF Same, From
  <2> QED
    BY <1>1, <2>1, SameOrdered DEF Ordered
<1>12. /\ Inv(u, T, rn) /\ Later(w, u) /\ u.st = w.st /\ u.comb = w.comb /\ u.cnt = w.cnt /\ u.jobs = w.jobs
       /\ u.follows = w.follows /\ u.gen = [w.gen EXCEPT ![p] = @ + 1]
       /\ u.gen[p] \in Nat /\ Good(u, Pair(p, u.gen[p]))
  BY <1>1, <1>2, <1>3, <1>4, <1>6, <1>7, <1>8, <1>9, <1>10, <1>11 DEF Inv
<1> QED
  BY <1>12 DEF u

(* A free cell becomes a promise. *)
LEMMA FreshKeeps ==
  ASSUME NEW w, NEW T, NEW rn, Inv(w, T, rn), NEW p \in Promise, w.st[p].state = "free", From(w, p) = {}
  PROVE  LET u == [w EXCEPT !.st[p] = Fresh]
         IN  /\ Inv(u, T, rn) /\ Later(w, u) /\ Undecided(u, T, p)
             /\ u.st = [w.st EXCEPT ![p] = Fresh] /\ u.gen = w.gen /\ u.comb = w.comb /\ u.cnt = w.cnt
             /\ u.jobs = w.jobs /\ u.follows = w.follows /\ u.open = w.open
             /\ u.gen[p] = 0 /\ u.st[p].state = "pending" /\ \A q \in Promise : q # p => u.st[q] = w.st[q]
<1> DEFINE u == [w EXCEPT !.st[p] = Fresh]
<1>1. w \in World /\ Fit(w) /\ Sound(w) /\ Once(w, T) /\ Ordered(w, rn) /\ rn \in [Promise -> Nat]
  BY DEF Inv, Fit
<1>2. /\ u.open = w.open /\ u.st = [w.st EXCEPT ![p] = Fresh] /\ u.jobs = w.jobs /\ u.gen = w.gen
      /\ u.comb = w.comb /\ u.cnt = w.cnt /\ u.follows = w.follows
  BY <1>1 DEF World
<1>3. Fresh \in Cell /\ Fresh.state = "pending" /\ Fresh.handlers = <<>>
  BY RefSets DEF Fresh, Cell
<1>4. w.st \in [Promise -> Cell] /\ u.st[p] = Fresh /\ \A q \in Promise : q # p => u.st[q] = w.st[q]
  BY <1>1, <1>2, WorldParts
<1>5. u \in World
  <2>1. [w.st EXCEPT ![p] = Fresh] \in [Promise -> Cell]
    BY <1>3, <1>4
  <2> QED
    BY <1>1, <2>1, Zenon DEF World
<1> HIDE DEF u
<1>6. Fit(u)
  BY <1>1, <1>2, <1>3, <1>4, <1>5 DEF Fit
<1>7. Later(w, u)
  <2>1. w.comb.at \in Nat /\ w.gen \in [Promise -> Nat]
    BY <1>1, WorldParts, CombFacts
  <2> QED
    BY <1>2, <1>3, <1>4, <2>1 DEF Later, Lives
<1>8. DOMAIN u.st[p].handlers = {}
  BY <1>3, <1>4
<1>9. Sound(u)
  <2>1. New(w, u)
    BY <1>2, <1>4, <1>8 DEF New
  <2> QED
    BY <1>1, <1>5, <1>7, <2>1, SoundKept
<1>10. Undecided(u, T, p)
  <2>1. \A x \in T : x # Prom(p)
    BY <1>1, RefKinds DEF Once
  <2>2. \A f \in w.open : f.p # p
    BY <1>1 DEF Once
  <2>3. \A i \in DOMAIN w.jobs : Target(w.jobs[i]) # Prom(p)
    BY <1>1, RefKinds DEF Once
  <2>4. \A q \in Promise : \A i \in DOMAIN w.st[q].handlers : w.st[q].handlers[i].result # Prom(p)
    BY <1>1, RefKinds, SMTT(30) DEF Once
  <2> QED
    BY <1>2, <1>4, <1>8, <2>1, <2>2, <2>3, <2>4 DEF Undecided
<1>11. Once(u, T)
  <2>1. \A q \in Promise : w.st[q].state = "pending" => u.st[q].state = "pending"
    BY <1>3, <1>4
  <2>2. \A x \in T : x.p \in Promise
    BY <1>1, RefSets DEF Once
  <2>3. \A f \in w.open : f.p \in Promise
    BY <1>1, WorldParts, RefSets
  <2>4. \A i \in DOMAIN w.jobs : Target(w.jobs[i]) # Nothing => Target(w.jobs[i]).p \in Promise
    BY <1>1, WorldParts, JobFacts, RefSets
  <2>5. \A q \in Promise : \A i \in DOMAIN u.st[q].handlers :
          /\ i \in DOMAIN w.st[q].handlers /\ u.st[q].handlers[i] = w.st[q].handlers[i]
          /\ w.st[q].handlers[i].result # Nothing => w.st[q].handlers[i].result.p \in Promise
    BY <1>1, <1>4, <1>8, WorldParts, ReactionFacts, RefSets, Zenon
  <2>6. \A q, m \in Promise : \A i \in DOMAIN u.st[q].handlers, k \in DOMAIN u.st[m].handlers :
          u.st[q].handlers[i].result = u.st[m].handlers[k].result
            => (q = m /\ i = k) \/ u.st[q].handlers[i].result = Nothing
    <3> SUFFICES ASSUME NEW q \in Promise, NEW m \in Promise,
                        NEW i \in DOMAIN u.st[q].handlers, NEW k \in DOMAIN u.st[m].handlers,
                        u.st[q].handlers[i].result = u.st[m].handlers[k].result
                 PROVE  (q = m /\ i = k) \/ u.st[q].handlers[i].result = Nothing
      OBVIOUS
    <3>1. i \in DOMAIN w.st[q].handlers /\ u.st[q].handlers[i] = w.st[q].handlers[i]
          /\ k \in DOMAIN w.st[m].handlers /\ u.st[m].handlers[k] = w.st[m].handlers[k]
      BY <2>5
    <3>2. w.st[q].handlers[i].result = w.st[m].handlers[k].result
      BY <3>1
    <3> QED
      BY <1>1, <3>1, <3>2, SameHandler
  <2>7. \A f \in u.open : /\ u.st[f.p].state = "pending" /\ Prom(f.p) \notin T
                          /\ \A i \in DOMAIN u.jobs : Target(u.jobs[i]) # Prom(f.p)
                          /\ \A q \in Promise : \A i \in DOMAIN u.st[q].handlers : u.st[q].handlers[i].result # Prom(f.p)
    BY <1>1, <1>2, <2>1, <2>3, <2>5, SMTT(30) DEF Once
  <2>8. \A i \in DOMAIN u.jobs : Target(u.jobs[i]) # Nothing =>
          /\ u.st[Target(u.jobs[i]).p].state = "pending" /\ Target(u.jobs[i]) \notin T
          /\ \A q \in Promise : \A k \in DOMAIN u.st[q].handlers : u.st[q].handlers[k].result # Target(u.jobs[i])
    BY <1>1, <1>2, <2>1, <2>4, <2>5, SMTT(30) DEF Once
  <2>9. \A q \in Promise : \A k \in DOMAIN u.st[q].handlers : u.st[q].handlers[k].result # Nothing =>
          u.st[u.st[q].handlers[k].result.p].state = "pending" /\ u.st[q].handlers[k].result \notin T
    <3> SUFFICES ASSUME NEW q \in Promise, NEW k \in DOMAIN u.st[q].handlers, u.st[q].handlers[k].result # Nothing
                 PROVE  u.st[u.st[q].handlers[k].result.p].state = "pending" /\ u.st[q].handlers[k].result \notin T
      OBVIOUS
    <3>1. k \in DOMAIN w.st[q].handlers /\ u.st[q].handlers[k] = w.st[q].handlers[k]
          /\ w.st[q].handlers[k].result # Nothing /\ w.st[q].handlers[k].result.p \in Promise
      BY <2>5, SMTT(30)
    <3>2. w.st[w.st[q].handlers[k].result.p].state = "pending" /\ w.st[q].handlers[k].result \notin T
      BY <1>1, <3>1 DEF Once
    <3> QED
      BY <2>1, <3>1, <3>2
  <2>10. \A x \in T : x \in Proms /\ u.st[x.p].state = "pending"
    BY <1>1, <2>1, <2>2 DEF Once
  <2>11. /\ \A f, g \in u.open : f.p = g.p => f = g
         /\ \A i, k \in DOMAIN u.jobs : Target(u.jobs[i]) = Target(u.jobs[k]) => i = k \/ Target(u.jobs[i]) = Nothing
    BY <1>1, <1>2, SMTT(30) DEF Once
  <2> QED
    BY <2>6, <2>7, <2>8, <2>9, <2>10, <2>11 DEF Once
<1>12. Ordered(u, rn)
  <2>1. \A q \in Promise : From(u, q) = From(w, q)
    BY <1>2 DEF From
  <2>2. \A q \in Promise : q # p => OrderedAt(u, rn, q)
    BY <1>1, <1>2, <1>4, <2>1, SameOrdered DEF Same, Ordered
  <2>3. rn[p] = 0 /\ w.cnt[p] = 0
    BY <1>1 DEF Ordered, OrderedAt, Fit
  <2>4. OrderedAt(u, rn, p)
    BY <1>2, <1>3, <1>4, <1>8, <2>1, <2>3 DEF OrderedAt
  <2> QED
    BY <2>2, <2>4 DEF Ordered
<1>13. /\ Inv(u, T, rn) /\ Later(w, u) /\ Undecided(u, T, p)
       /\ u.st = [w.st EXCEPT ![p] = Fresh] /\ u.gen = w.gen /\ u.comb = w.comb /\ u.cnt = w.cnt
       /\ u.jobs = w.jobs /\ u.follows = w.follows /\ u.open = w.open
       /\ u.gen[p] = 0 /\ u.st[p].state = "pending" /\ \A q \in Promise : q # p => u.st[q] = w.st[q]
  BY <1>1, <1>2, <1>3, <1>4, <1>6, <1>7, <1>9, <1>10, <1>11, <1>12 DEF Inv, Fit
<1> QED
  BY <1>13 DEF u

(* The head of the queue is taken: what it will settle passes to the hand,  *)
(* and it is the next reaction of its promise.                              *)
Taken(rn, w, j) ==
  IF j.kind = "react" THEN [rn EXCEPT ![j.r.src] = IF w.st[j.r.src].state = "free" THEN 0 ELSE @ + 1] ELSE rn

LEMMA TailFacts ==
  ASSUME NEW w \in World, w.jobs # <<>>
  PROVE  /\ Tail(w.jobs) \in Seq(Job) /\ 1 \in DOMAIN w.jobs /\ w.jobs[1] \in Job
         /\ DOMAIN w.jobs \subseteq Nat
         /\ \A i \in DOMAIN Tail(w.jobs) : i \in Nat /\ i + 1 \in DOMAIN w.jobs /\ i + 1 # 1 /\ Tail(w.jobs)[i] = w.jobs[i + 1]
         /\ \A i \in DOMAIN w.jobs : i # 1 => \E k \in DOMAIN Tail(w.jobs) : i = k + 1
<1> DEFINE a == w.jobs
           t == Tail(a)
<1>1. a \in Seq(Job) /\ a # <<>>
  BY WorldParts
<1> HIDE DEF a
<1>2. /\ t \in Seq(Job) /\ Len(a) \in Nat /\ Len(a) >= 1 /\ Len(t) = Len(a) - 1
      /\ DOMAIN a = 1 .. Len(a) /\ DOMAIN t = 1 .. Len(a) - 1
  BY <1>1
<1>3. \A i \in 1 .. Len(a) - 1 : t[i] = a[i + 1]
  BY <1>1, <1>2
<1>4. a[1] \in Job
  BY <1>1, <1>2
<1> HIDE DEF t
<1>5. \A i \in DOMAIN t : i \in Nat /\ i + 1 \in DOMAIN a /\ i + 1 # 1 /\ t[i] = a[i + 1]
  BY <1>2, <1>3
<1>6. ASSUME NEW i \in DOMAIN a, i # 1 PROVE \E k \in DOMAIN t : i = k + 1
  <2>1. i - 1 \in DOMAIN t /\ i = (i - 1) + 1
    BY <1>2, <1>6
  <2> QED
    BY <2>1
<1>7. t \in Seq(Job) /\ 1 \in DOMAIN a /\ DOMAIN a \subseteq Nat
  BY <1>2
<1> QED
  BY <1>4, <1>5, <1>6, <1>7 DEF a, t

LEMMA TakenOrdered ==
  ASSUME NEW w \in World, NEW u \in World, NEW rn \in [Promise -> Nat], Ordered(w, rn), w.jobs # <<>>,
         u.jobs = Tail(w.jobs), u.st = w.st, u.cnt = w.cnt
  PROVE  LET rm == Taken(rn, w, w.jobs[1]) IN rm \in [Promise -> Nat] /\ Ordered(u, rm)
<1> DEFINE j == w.jobs[1]
           rm == Taken(rn, w, w.jobs[1])
<1>1. /\ 1 \in DOMAIN w.jobs /\ j \in Job /\ DOMAIN w.jobs \subseteq Nat
      /\ \A i \in DOMAIN u.jobs : i \in Nat /\ i + 1 \in DOMAIN w.jobs /\ i + 1 # 1 /\ u.jobs[i] = w.jobs[i + 1]
      /\ \A i \in DOMAIN w.jobs : i # 1 => \E k \in DOMAIN u.jobs : i = k + 1
  BY TailFacts
<1>2. j.kind = "react" => j.r.src \in Promise
  BY <1>1, JobFacts, ReactionFacts
<1>3. rm \in [Promise -> Nat]
  BY <1>2 DEF Taken
<1>4. \A q \in Promise : w.cnt[q] \in Nat /\ rn[q] \in Nat
  BY WorldParts
(* A reaction of u is the one a place later of w. *)
<1>5. \A q \in Promise : \A i \in From(u, q) : i + 1 \in From(w, q) /\ u.jobs[i] = w.jobs[i + 1] /\ i \in Nat
  BY <1>1 DEF From
<1>6. \A q \in Promise : \A i \in From(w, q) : i # 1 => \E k \in From(u, q) : i = k + 1 /\ u.jobs[k] = w.jobs[i]
  BY <1>1 DEF From
<1>7. ASSUME NEW q \in Promise, 1 \notin From(w, q) PROVE OrderedAt(u, rm, q)
  <2>1. rm[q] = rn[q]
    BY <1>1, <1>2, <1>7 DEF From, Taken
  <2>2. OrderedAt(w, rn, q)
    BY DEF Ordered
  <2>3. From(w, q) = {} => From(u, q) = {}
    BY <1>5
  <2>4. ASSUME w.st[q].state \in {"ful", "rej"}
        PROVE  /\ rn[q] <= w.cnt[q]
               /\ \A i \in From(u, q) : u.jobs[i].r.at \in rn[q] + 1 .. w.cnt[q]
               /\ \A i, k \in From(u, q) : i < k => u.jobs[i].r.at < u.jobs[k].r.at
               /\ \A n \in rn[q] + 1 .. w.cnt[q] : \E i \in From(u, q) : u.jobs[i].r.at = n
    <3>1. /\ rn[q] <= w.cnt[q]
          /\ \A i \in From(w, q) : w.jobs[i].r.at \in rn[q] + 1 .. w.cnt[q]
          /\ \A i, k \in From(w, q) : i < k => w.jobs[i].r.at < w.jobs[k].r.at
          /\ \A n \in rn[q] + 1 .. w.cnt[q] : \E i \in From(w, q) : w.jobs[i].r.at = n
      BY <2>2, <2>4 DEF OrderedAt
    <3>2. \A i \in From(u, q) : u.jobs[i].r.at \in rn[q] + 1 .. w.cnt[q]
      BY <1>5, <3>1, Zenon
    <3>3. ASSUME NEW i \in From(u, q), NEW k \in From(u, q), i < k PROVE u.jobs[i].r.at < u.jobs[k].r.at
      <4>1. i + 1 \in From(w, q) /\ u.jobs[i] = w.jobs[i + 1] /\ i \in Nat
        BY <1>5, Zenon
      <4>2. k + 1 \in From(w, q) /\ u.jobs[k] = w.jobs[k + 1] /\ k \in Nat
        BY <1>5, Zenon
      <4>3. i + 1 < k + 1
        BY <3>3, <4>1, <4>2
      <4>4. w.jobs[i + 1].r.at < w.jobs[k + 1].r.at
        BY <3>1, <4>1, <4>2, <4>3
      <4> QED
        BY <4>1, <4>2, <4>4, Zenon
    <3>4. ASSUME NEW n \in rn[q] + 1 .. w.cnt[q] PROVE \E i \in From(u, q) : u.jobs[i].r.at = n
      <4>1. PICK i \in From(w, q) : w.jobs[i].r.at = n
        BY <3>1
      <4>2. PICK k \in From(u, q) : i = k + 1 /\ u.jobs[k] = w.jobs[i]
        BY <1>6, <1>7, Zenon
      <4> QED
        BY <4>1, <4>2, Zenon
    <3> QED
      BY <3>1, <3>2, <3>3, <3>4, Zenon
  <2> QED
    BY <2>1, <2>2, <2>3, <2>4, Zenon DEF OrderedAt
<1>8. ASSUME NEW q \in Promise, 1 \in From(w, q) PROVE OrderedAt(u, rm, q)
  <2>1. j.kind = "react" /\ j.r.src = q
    BY <1>8 DEF From
  <2>2. OrderedAt(w, rn, q)
    BY DEF Ordered
  <2>3. w.st[q].state \in {"free", "ful", "rej"}
    <3>1. w.st[q].state # "pending"
      BY <1>8, <2>2 DEF OrderedAt
    <3> QED
      BY <3>1, WorldParts
  <2>4. CASE w.st[q].state = "free"
    <3>1. rm[q] = 0
      BY <1>2, <2>1, <2>4 DEF Taken
    <3> QED
      BY <2>4, <3>1 DEF OrderedAt
  <2>5. CASE w.st[q].state \in {"ful", "rej"}
    <3> DEFINE r == rn[q]
               c == w.cnt[q]
    <3>1. rm[q] = r + 1
      BY <1>2, <2>1, <2>5 DEF Taken
    <3>2. /\ r <= c /\ r \in Nat /\ c \in Nat
          /\ \A i \in From(w, q) : w.jobs[i].r.at \in r + 1 .. c
          /\ \A i, k \in From(w, q) : i < k => w.jobs[i].r.at < w.jobs[k].r.at
          /\ \A n \in r + 1 .. c : \E i \in From(w, q) : w.jobs[i].r.at = n
      BY <1>4, <2>2, <2>5 DEF OrderedAt
    <3> HIDE DEF r, c
    <3>3. \A i \in From(w, q) : i # 1 => 1 < i
      BY <1>1 DEF From
    <3>4. w.jobs[1].r.at = r + 1
      <4>1. w.jobs[1].r.at \in r + 1 .. c
        BY <1>8, <3>2
      <4>2. r + 1 \in r + 1 .. c
        BY <3>2, <4>1
      <4>3. PICK i \in From(w, q) : w.jobs[i].r.at = r + 1
        BY <3>2, <4>2
      <4>4. i # 1 => w.jobs[1].r.at < r + 1
        BY <1>8, <3>2, <3>3, <4>3
      <4> QED
        BY <3>2, <4>1, <4>3, <4>4
    <3>5. r + 1 <= c
      BY <1>8, <3>2, <3>4
    <3>6. ASSUME NEW i \in From(u, q) PROVE u.jobs[i].r.at \in (r + 1) + 1 .. c
      <4>1. i + 1 \in From(w, q) /\ u.jobs[i] = w.jobs[i + 1] /\ 1 < i + 1
        BY <1>1, <1>5, <3>3, <3>6 DEF From
      <4>2. w.jobs[i + 1].r.at \in r + 1 .. c /\ r + 1 < w.jobs[i + 1].r.at
        BY <1>8, <3>2, <3>4, <4>1
      <4>3. \A a : a \in r + 1 .. c /\ r + 1 < a => a \in (r + 1) + 1 .. c
        BY <3>2
      <4> QED
        BY <4>1, <4>2, <4>3, Zenon
    <3>7. ASSUME NEW i \in From(u, q), NEW k \in From(u, q), i < k PROVE u.jobs[i].r.at < u.jobs[k].r.at
      <4>1. i + 1 \in From(w, q) /\ u.jobs[i] = w.jobs[i + 1] /\ i \in Nat
        BY <1>5, Zenon
      <4>2. k + 1 \in From(w, q) /\ u.jobs[k] = w.jobs[k + 1] /\ k \in Nat
        BY <1>5, Zenon
      <4>3. i + 1 < k + 1
        BY <3>7, <4>1, <4>2
      <4>4. w.jobs[i + 1].r.at < w.jobs[k + 1].r.at
        BY <3>2, <4>1, <4>2, <4>3
      <4> QED
        BY <4>1, <4>2, <4>4, Zenon
    <3>8. ASSUME NEW n \in (r + 1) + 1 .. c PROVE \E i \in From(u, q) : u.jobs[i].r.at = n
      <4>1. n \in r + 1 .. c /\ n # r + 1
        BY <3>2
      <4>2. PICK i \in From(w, q) : w.jobs[i].r.at = n
        BY <3>2, <4>1
      <4>3. i # 1
        BY <3>4, <4>1, <4>2
      <4>4. PICK k \in From(u, q) : i = k + 1 /\ u.jobs[k] = w.jobs[i]
        BY <1>6, <4>3, Zenon
      <4> QED
        BY <4>2, <4>4, Zenon
    <3>9. w.st[q].state # "free" /\ w.st[q].state # "pending" /\ c = u.cnt[q] /\ u.st[q] = w.st[q]
      BY <2>5 DEF c
    <3> QED
      BY <3>1, <3>5, <3>6, <3>7, <3>8, <3>9, Zenon DEF OrderedAt
  <2> QED
    BY <2>3, <2>4, <2>5
<1>9. Ordered(u, rm)
  BY <1>7, <1>8 DEF Ordered
<1> QED
  BY <1>3, <1>9

LEMMA TakeKeeps ==
  ASSUME NEW w, NEW rn, Inv(w, {}, rn), w.jobs # <<>>
  PROVE  LET u == [w EXCEPT !.jobs = Tail(@)]
             j == w.jobs[1]
         IN  /\ Inv(u, {Target(j)} \ {Nothing}, Taken(rn, w, j)) /\ Later(w, u) /\ j \in Job
             /\ u.st = w.st /\ u.open = w.open /\ u.gen = w.gen /\ u.comb = w.comb /\ u.cnt = w.cnt
             /\ u.follows = w.follows
             /\ \A x \in JobRoots(j) : Good(u, x)
<1> DEFINE u == [w EXCEPT !.jobs = Tail(@)]
           j == w.jobs[1]
           T == {Target(j)} \ {Nothing}
<1>1. w \in World /\ Fit(w) /\ Sound(w) /\ Once(w, {}) /\ Ordered(w, rn) /\ rn \in [Promise -> Nat]
  BY DEF Inv, Fit
<1>2. /\ u.open = w.open /\ u.st = w.st /\ u.jobs = Tail(w.jobs) /\ u.gen = w.gen
      /\ u.comb = w.comb /\ u.cnt = w.cnt /\ u.follows = w.follows
  BY <1>1 DEF World
<1>3. /\ Tail(w.jobs) \in Seq(Job) /\ 1 \in DOMAIN w.jobs /\ j \in Job /\ DOMAIN w.jobs \subseteq Nat
      /\ \A i \in DOMAIN u.jobs : /\ i \in Nat /\ i + 1 \in DOMAIN w.jobs /\ i + 1 # 1
                                  /\ u.jobs[i] = w.jobs[i + 1]
  BY <1>1, <1>2, TailFacts
<1>4. u \in World
  BY <1>1, <1>3, Zenon DEF World
<1> HIDE DEF u, j
<1>5. Fit(u)
  BY <1>1, <1>2, <1>4 DEF Fit
<1>6. Later(w, u)
  BY <1>1, <1>2, <1>4, LaterSame
<1>7. Sound(u)
  <2>1. New(w, u)
    BY <1>2, <1>3 DEF New
  <2> QED
    BY <1>1, <1>4, <1>6, <2>1, SoundKept
<1>8. Target(j) \in Proms \cup {Nothing}
  BY <1>3, JobFacts, SMTT(30)
<1>9. Once(u, T)
  <2>1. ASSUME Target(j) # Nothing
        PROVE  /\ w.st[Target(j).p].state = "pending"
               /\ \A i \in DOMAIN w.jobs : i # 1 => Target(w.jobs[i]) # Target(j)
               /\ \A f \in w.open : Prom(f.p) # Target(j)
               /\ \A q \in Promise : \A k \in DOMAIN w.st[q].handlers : w.st[q].handlers[k].result # Target(j)
    <3>1. w.st[Target(j).p].state = "pending"
          /\ \A q \in Promise : \A k \in DOMAIN w.st[q].handlers : w.st[q].handlers[k].result # Target(j)
      BY <1>1, <1>3, <2>1 DEF Once, j
    <3>2. \A i \in DOMAIN w.jobs : i # 1 => Target(w.jobs[i]) # Target(j)
      BY <1>1, <1>3, <2>1 DEF Once, j
    <3>3. \A f \in w.open : Prom(f.p) # Target(j)
      BY <1>1, <1>3, <2>1 DEF Once, j
    <3> QED
      BY <3>1, <3>2, <3>3
  <2>2. \A i, k \in DOMAIN u.jobs : Target(u.jobs[i]) = Target(u.jobs[k]) => i = k \/ Target(u.jobs[i]) = Nothing
    BY <1>1, <1>3, SMTT(30) DEF Once
  <2>3. \A f \in u.open : /\ u.st[f.p].state = "pending" /\ Prom(f.p) \notin T
                          /\ \A i \in DOMAIN u.jobs : Target(u.jobs[i]) # Prom(f.p)
                          /\ \A q \in Promise : \A k \in DOMAIN u.st[q].handlers : u.st[q].handlers[k].result # Prom(f.p)
    BY <1>1, <1>2, <1>3, <2>1, SMTT(30) DEF Once
  <2>4. \A i \in DOMAIN u.jobs : Target(u.jobs[i]) # Nothing =>
          /\ u.st[Target(u.jobs[i]).p].state = "pending" /\ Target(u.jobs[i]) \notin T
          /\ \A q \in Promise : \A k \in DOMAIN u.st[q].handlers : u.st[q].handlers[k].result # Target(u.jobs[i])
    BY <1>1, <1>2, <1>3, <2>1, SMTT(30) DEF Once
  <2>5. \A q \in Promise : \A k \in DOMAIN u.st[q].handlers : u.st[q].handlers[k].result # Nothing =>
          u.st[u.st[q].handlers[k].result.p].state = "pending" /\ u.st[q].handlers[k].result \notin T
    BY <1>1, <1>2, <2>1, SMTT(30) DEF Once
  <2>6. \A x \in T : x \in Proms /\ u.st[x.p].state = "pending"
    BY <1>2, <1>8, <2>1
  <2>7. /\ \A f, g \in u.open : f.p = g.p => f = g
        /\ \A q, m \in Promise : \A i \in DOMAIN u.st[q].handlers, k \in DOMAIN u.st[m].handlers :
             u.st[q].handlers[i].result = u.st[m].handlers[k].result
               => (q = m /\ i = k) \/ u.st[q].handlers[i].result = Nothing
    BY <1>1, <1>2 DEF Once
  <2> QED
    BY <2>2, <2>3, <2>4, <2>5, <2>6, <2>7 DEF Once
<1>10. Taken(rn, w, j) \in [Promise -> Nat] /\ Ordered(u, Taken(rn, w, j))
  BY <1>1, <1>2, <1>4, TakenOrdered DEF j
<1>11. \A x \in JobRoots(j) : Good(u, x)
  <2>1. \A x \in JobRoots(j) : Good(w, x) /\ x \in Ref
    BY <1>1, <1>3, JobFacts DEF Sound, j
  <2> QED
    BY <1>1, <1>4, <1>6, <2>1, GoodLater
<1>12. /\ Inv(u, T, Taken(rn, w, j)) /\ Later(w, u) /\ j \in Job
       /\ u.st = w.st /\ u.open = w.open /\ u.gen = w.gen /\ u.comb = w.comb /\ u.cnt = w.cnt
       /\ u.follows = w.follows
       /\ \A x \in JobRoots(j) : Good(u, x)
  BY <1>2, <1>3, <1>5, <1>6, <1>7, <1>9, <1>10, <1>11 DEF Inv
<1> QED
  BY <1>12, Zenon DEF u, j

(* What the hand held is free to be settled. *)
LEMMA HandDropped ==
  ASSUME NEW w, NEW T, NEW rn, Inv(w, T, rn)
  PROVE  Inv(w, {}, rn) /\ \A x \in T : x \in Proms /\ x.p \in Promise /\ x = Prom(x.p)
                                        /\ w.st[x.p].state = "pending" /\ Undecided(w, {}, x.p)
<1>1. w \in World /\ Once(w, T)
  BY DEF Inv, Fit
<1>2. Once(w, {})
  BY <1>1 DEF Once
<1>3. ASSUME NEW x \in T PROVE x \in Proms /\ w.st[x.p].state = "pending" /\ x.p \in Promise /\ x = Prom(x.p)
  BY <1>1, RefSets DEF Once
<1>4. ASSUME NEW x \in T PROVE Undecided(w, {}, x.p)
  <2>1. x = Prom(x.p) /\ x # Nothing
    BY <1>3, RefKinds
  <2>2. \A f \in w.open : f.p # x.p
    BY <1>1, <2>1 DEF Once
  <2>3. \A i \in DOMAIN w.jobs : Target(w.jobs[i]) # Prom(x.p)
    BY <1>1, <2>1 DEF Once
  <2>4. \A q \in Promise : \A i \in DOMAIN w.st[q].handlers : w.st[q].handlers[i].result # Prom(x.p)
    BY <1>1, <2>1 DEF Once
  <2> QED
    BY <2>2, <2>3, <2>4 DEF Undecided
<1> QED
  BY <1>2, <1>3, <1>4 DEF Inv

-----------------------------------------------------------------------------
(* The invariant holds initially and every action keeps it. *)

LEMMA BecomesWorld == ASSUME NEW u \in World, Becomes(u) PROVE W' = u
<1>1. u = [st |-> u.st, jobs |-> u.jobs, open |-> u.open, gen |-> u.gen, comb |-> u.comb, cnt |-> u.cnt,
           follows |-> u.follows]
  BY DEF World
<1> QED
  BY <1>1 DEF Becomes, W

LEMMA WorldFields ==
  /\ W.st = st /\ W.jobs = jobs /\ W.open = open /\ W.gen = gen /\ W.comb = comb /\ W.cnt = cnt /\ W.follows = follows
BY DEF W

(* The script's side of a step that leaves the world as u. *)
LEMMA StepKeeps ==
  ASSUME JobInv, NEW u, Becomes(u), Inv(u, Hand', ran'), Later(W, u),
         \A x \in held' : x \in held \/ (x \in Proms \cup Pairs \cup Elems /\ Good(u, x)),
         \/ run' = run
         \/ run' = NoRun
         \/ /\ run' \in Job /\ \A x \in JobRoots(run') : Good(u, x)
            /\ run'.kind = "react" => run'.r.result \in Proms,
         ops' \in 0 .. MaxOps
  PROVE  JobInv'
<1>1. W \in World /\ u \in World
  BY DEF JobInv, Inv, Fit
<1>2. W' = u
  BY <1>1, BecomesWorld
<1>3. \A x \in Ref : Good(W, x) => Good(u, x)
  BY <1>1, GoodLater
<1>4. \A x \in held' : x \in Proms \cup Pairs \cup Elems /\ Good(u, x)
  BY <1>3 DEF JobInv, ScriptOK, Ref, Value
<1>5. run = NoRun \/ (run \in Job /\ (\A x \in JobRoots(run) : x \in Ref /\ Good(W, x)))
  BY JobFacts DEF JobInv, ScriptOK
<1>6. /\ run' \in Job \cup {NoRun}
      /\ run' # NoRun => \A x \in JobRoots(run') : Good(u, x)
      /\ run'.kind = "react" => run'.r.result \in Proms
  <2>1. CASE run' = run
    <3>1. run \in Job \cup {NoRun} /\ (run.kind = "react" => run.r.result \in Proms)
      BY DEF JobInv, ScriptOK
    <3>2. run # NoRun => \A x \in JobRoots(run) : Good(u, x)
      BY <1>3, <1>5
    <3> QED
      BY <2>1, <3>1, <3>2, Zenon
  <2>2. CASE run' = NoRun
    BY <2>2 DEF NoRun
  <2>3. CASE /\ run' \in Job /\ \A x \in JobRoots(run') : Good(u, x)
             /\ run'.kind = "react" => run'.r.result \in Proms
    BY <2>3
  <2> QED
    BY <2>1, <2>2, <2>3
<1>7. ScriptOK'
  BY <1>2, <1>4, <1>6 DEF ScriptOK, JobRoots, NoRun
<1>8. (Inv(W, Hand, ran))'
  BY <1>2
<1> QED
  BY <1>7, <1>8 DEF JobInv

LEMMA InvParts ==
  ASSUME JobInv
  PROVE  /\ Inv(W, Hand, ran) /\ W \in World /\ ops \in 0 .. MaxOps
         /\ \A x \in held : x \in Proms \cup Pairs \cup Elems /\ x \in Ref /\ Good(W, x)
         /\ \A p \in FreeCells : p \in Promise /\ W.st[p].state = "free" /\ From(W, p) = {}
         /\ \A x \in held : x.k = "promise" => /\ x \in Proms /\ x.p \in Promise /\ Lives(W, x.p) /\ x \in Value
                                               /\ x = Prom(x.p)
<1>1. Inv(W, Hand, ran) /\ W \in World /\ ops \in 0 .. MaxOps
  BY DEF JobInv, ScriptOK, Inv, Fit
<1>2. \A x \in held : x \in Proms \cup Pairs \cup Elems /\ x \in Ref /\ Good(W, x)
  BY DEF JobInv, ScriptOK, Ref, Value
<1>3. ASSUME NEW p \in FreeCells PROVE p \in Promise /\ W.st[p].state = "free" /\ From(W, p) = {}
  <2>1. \A i \in DOMAIN jobs : jobs[i] \in Range(jobs)
    BY DEF Range
  <2> QED
    BY <2>1, WorldFields DEF FreeCells, From
<1>4. \A x \in held : x.k = "promise" => /\ x \in Proms /\ x.p \in Promise /\ Lives(W, x.p) /\ x \in Value
                                         /\ x = Prom(x.p)
  BY <1>2, RefSets DEF Good, Value
<1> QED
  BY <1>1, <1>2, <1>3, <1>4

LEMMA PlainValues ==
  \A w : \A v \in Plain \cup {Thenable, BadThen} : v \in Value /\ Good(w, v)
BY RefSets, RefKinds DEF Value, Good

LEMMA NewPromiseKeeps == JobInv /\ NewPromise => JobInv'
<1> SUFFICES ASSUME JobInv,
                    NEW p \in FreeCells, Op, Becomes(NewPair([W EXCEPT !.st[p] = Fresh], p)),
                    held' = held \cup {Prom(p), Pair(p, 1)}, UNCHANGED <<run, ran>>
             PROVE  JobInv'
  BY DEF NewPromise
<1> DEFINE w == [W EXCEPT !.st[p] = Fresh]
           u == NewPair(w, p)
<1>1. p \in Promise /\ W \in World
  BY InvParts
<1>2. Inv(w, Hand, ran) /\ Later(W, w) /\ Undecided(w, Hand, p) /\ w.gen[p] = 0 /\ w.st[p].state = "pending"
  BY <1>1, InvParts, FreshKeeps
<1> HIDE DEF w
<1>3. /\ Inv(u, Hand, ran) /\ Later(w, u) /\ u.st = w.st /\ u.gen = [w.gen EXCEPT ![p] = @ + 1]
      /\ Good(u, Pair(p, u.gen[p]))
  BY <1>1, <1>2, NewPairKeeps
<1> HIDE DEF u
<1>4. w \in World /\ u \in World
  BY <1>2, <1>3 DEF Inv, Fit
<1>5. Good(u, Pair(p, 1)) /\ Pair(p, 1) \in Pairs
  <2>1. w.gen \in [Promise -> Nat]
    BY <1>4, WorldParts
  <2>2. u.gen[p] = 1
    BY <1>1, <1>2, <1>3, <2>1
  <2> QED
    BY <1>1, <1>3, <2>2 DEF Pairs
<1>6. Good(u, Prom(p)) /\ Prom(p) \in Proms
  BY <1>1, <1>2, <1>3, RefKinds DEF Good, Lives, Proms
<1>7. Later(W, u)
  BY <1>1, <1>2, <1>3, <1>4, LaterTransitive
<1>8. Becomes(u) /\ run' = run /\ ran' = ran /\ ops' \in 0 .. MaxOps /\ Hand' = Hand
  BY InvParts, PromiseAssumption DEF u, w, Op, Hand
<1>9. \A x \in held' : x \in held \/ (x \in Proms \cup Pairs \cup Elems /\ Good(u, x))
  BY <1>5, <1>6
<1> QED
  BY <1>3, <1>7, <1>8, <1>9, StepKeeps

LEMMA CallKeeps == JobInv /\ Call => JobInv'
<1> SUFFICES ASSUME JobInv, NEW f \in held, NEW ok \in BOOLEAN, f.k \in {"pair", "elem"}, Op,
                    NEW v \in IF ok THEN Vals ELSE {Data("err")}, Becomes(CallNative(W, f, ok, v)),
                    UNCHANGED <<run, held, ran>>
             PROVE  JobInv'
  BY DEF Call
<1> DEFINE u == CallNative(W, f, ok, v)
<1>1. f \in Pairs \cup Elems /\ Good(W, f)
  <2>1. f \in Proms => f.k = "promise"
    BY RefSets
  <2> QED
    BY <2>1, InvParts
<1>2. v \in Value /\ Good(W, v) /\ (ok \/ v \in Plain)
  <2>1. Data("a") \in Plain /\ Data("err") \in Plain
    BY DEF Plain
  <2>2. \A x \in Vals : x \in {Data("a"), Thenable} \/ (x \in held /\ x \in Value)
    BY InvParts DEF Vals
  <2>3. \A x \in Vals : x \in Value /\ Good(W, x)
    BY <2>1, <2>2, InvParts, PlainValues
  <2>4. CASE ok
    BY <2>3, <2>4
  <2>5. CASE ~ ok
    BY <2>1, <2>5, PlainValues
  <2> QED
    BY <2>4, <2>5
<1>3. Inv(u, Hand, ran) /\ Later(W, u)
  BY <1>1, <1>2, InvParts, CallNativeKeeps
<1> HIDE DEF u
<1>4. Becomes(u) /\ run' = run /\ ran' = ran /\ ops' \in 0 .. MaxOps /\ Hand' = Hand /\ held' = held
  BY InvParts, PromiseAssumption DEF u, Op, Hand
<1> QED
  BY <1>3, <1>4, StepKeeps

LEMMA ThenActionKeeps == JobInv /\ Then => JobInv'
<1> SUFFICES ASSUME JobInv, NEW x \in held, NEW d \in FreeCells, NEW hs \in {<<Js, Nothing>>, <<Nothing, Js>>},
                    x.k = "promise", Op,
                    Becomes(promiseThenCap([W EXCEPT !.st[d] = Fresh], x.p, hs[1], hs[2], Prom(d))),
                    held' = held \cup {Prom(d)}, UNCHANGED <<run, ran>>
             PROVE  JobInv'
  BY DEF Then
<1> DEFINE w == [W EXCEPT !.st[d] = Fresh]
           u == promiseThenCap(w, x.p, hs[1], hs[2], Prom(d))
<1>1. d \in Promise /\ W \in World /\ x.p \in Promise /\ Lives(W, x.p)
  BY InvParts
<1>2. Inv(w, Hand, ran) /\ Later(W, w) /\ Undecided(w, Hand, d) /\ w.st[d].state = "pending"
  BY <1>1, InvParts, FreshKeeps
<1> HIDE DEF w
<1>3. hs[1] \in {Js, Nothing} /\ hs[2] \in {Js, Nothing} /\ Good(w, hs[1]) /\ Good(w, hs[2])
  BY RefKinds DEF Good
<1>4. Sole(w, Hand, Prom(d)) /\ Prom(d) \in Proms /\ Lives(w, x.p)
  BY <1>1, <1>2, RefKinds, RefSets DEF Sole, Later
<1>5. Inv(u, Hand, ran) /\ Later(w, u)
  BY <1>1, <1>2, <1>3, <1>4, ThenKeeps
<1> HIDE DEF u
<1>6. w \in World /\ u \in World
  BY <1>2, <1>5 DEF Inv, Fit
<1>7. Later(W, u) /\ Good(u, Prom(d))
  BY <1>1, <1>2, <1>5, <1>6, LaterTransitive, RefKinds DEF Later, Lives, Good
<1>8. Becomes(u) /\ run' = run /\ ran' = ran /\ ops' \in 0 .. MaxOps /\ Hand' = Hand
  BY InvParts, PromiseAssumption DEF u, w, Op, Hand
<1>9. \A y \in held' : y \in held \/ (y \in Proms \cup Pairs \cup Elems /\ Good(u, y))
  BY <1>4, <1>7
<1> QED
  BY <1>5, <1>7, <1>8, <1>9, StepKeeps

LEMMA DropKeeps == JobInv /\ Drop => JobInv'
<1> SUFFICES ASSUME JobInv, Op, held' \subseteq held, UNCHANGED <<world, run, ran>> PROVE JobInv'
  BY DEF Drop
<1>1. Becomes(W) /\ Later(W, W)
  BY InvParts, LaterSame DEF Becomes, W, world
<1>2. run' = run /\ ran' = ran /\ ops' \in 0 .. MaxOps /\ Hand' = Hand
  BY InvParts, PromiseAssumption DEF Op, Hand
<1> QED
  BY <1>1, <1>2, InvParts, StepKeeps

LEMMA NoCombFits == NoComb \in Call0
<1>1. <<>> \in Seq(Proms \cup {Nothing}) /\ <<>> \in Seq([ok : BOOLEAN, v : Value])
  OBVIOUS
<1> QED
  BY <1>1 DEF NoComb, Call0

LEMMA CombStartKeeps == ASSUME JobInv, NEW kind \in Kinds, CombStart(kind) PROVE JobInv'
<1>1. PICK p \in FreeCells, es \in [1 .. 2 -> {x \in held : x.k = "promise"} \cup {Nothing}] :
        /\ comb.phase = "none" /\ Op
        /\ Becomes(NewPair([W EXCEPT !.st[p] = Fresh,
                                     !.comb = [NoComb EXCEPT !.kind = kind, !.result = p, !.elems = es,
                                                             !.remaining = 1, !.phase = "iter"]], p))
        /\ held' = held \cup {Prom(p)}
        /\ UNCHANGED <<run, ran>>
  BY Zenon DEF CombStart
<1> DEFINE c == [NoComb EXCEPT !.kind = kind, !.result = p, !.elems = es, !.remaining = 1, !.phase = "iter"]
           w == [W EXCEPT !.st[p] = Fresh]
           x == NewPair(w, p)
           u == [x EXCEPT !.comb = c]
<1>2. p \in Promise /\ W \in World /\ W.comb.kind = "none"
  BY <1>1, InvParts, WorldFields DEF JobInv, Inv, Fit
<1>3. Inv(w, Hand, ran) /\ Later(W, w) /\ Undecided(w, Hand, p) /\ w.gen[p] = 0 /\ w.st[p].state = "pending"
      /\ w.comb = W.comb
  BY <1>2, InvParts, FreshKeeps
<1>4. c.kind = kind /\ c.result = p /\ c.elems = es /\ c.at = 0 /\ c.called = {} /\ c.res = <<>> /\ c.phase = "iter"
  BY DEF NoComb
<1>5. NewPair([W EXCEPT !.st[p] = Fresh, !.comb = c], p) = u
  BY <1>2, Zenon DEF World, NewPair
<1> HIDE DEF w, c
<1>6. /\ Inv(x, Hand, ran) /\ Later(w, x) /\ x.st = w.st /\ x.gen = [w.gen EXCEPT ![p] = @ + 1]
      /\ Good(x, Pair(p, x.gen[p])) /\ x.comb = w.comb
  BY <1>2, <1>3, NewPairKeeps
<1> HIDE DEF x
<1>7. w \in World /\ x \in World
  BY <1>3, <1>6 DEF Inv, Fit
<1>8. Good(x, Pair(p, 1)) /\ Good(x, Prom(p))
  <2>1. w.gen \in [Promise -> Nat]
    BY <1>7, WorldParts
  <2>2. x.gen[p] = 1
    BY <1>2, <1>3, <1>6, <2>1
  <2> QED
    BY <1>2, <1>3, <1>6, <2>2, RefKinds DEF Good, Lives
<1>9. Later(W, x)
  BY <1>2, <1>3, <1>6, <1>7, LaterTransitive
<1>10. es \in Seq(Proms \cup {Nothing}) /\ Len(es) = 2 /\ \A i \in DOMAIN es : Good(x, es[i])
  <2>1. \A i \in 1 .. 2 : es[i] = Nothing \/ (es[i] \in held /\ es[i] \in Proms)
    BY InvParts
  <2>2. es \in [1 .. 2 -> Proms \cup {Nothing}]
    BY <2>1
  <2>3. \A i \in 1 .. 2 : Good(x, es[i])
    BY <1>2, <1>7, <1>9, <2>1, InvParts, GoodLater, RefKinds DEF Good
  <2>4. es \in Seq(Proms \cup {Nothing}) /\ DOMAIN es = 1 .. 2
    BY <2>2, SeqDef, ZenonT(40)
  <2>5. Len(es) \in Nat /\ 1 .. Len(es) = 1 .. 2
    BY <2>4, LenProperties, Zenon
  <2>6. Len(es) = 2
    BY <2>5
  <2> QED
    BY <2>3, <2>4, <2>6
<1>11. c \in Call0
  <2>1. kind \in AllKinds
    BY PromiseAssumption
  <2> DEFINE b == [NoComb EXCEPT !.kind = kind, !.result = p, !.elems = es]
  <2>2. b \in Call0
    BY <1>2, <1>10, <2>1, NoCombFits, Zenon DEF Call0
  <2>3. c = [b EXCEPT !.remaining = 1, !.phase = "iter"]
    BY DEF c
  <2> HIDE DEF b
  <2>4. \A n \in Int : [b EXCEPT !.remaining = n] \in Call0
    BY <2>2, Zenon DEF Call0
  <2>5. \A d \in Call0 : [d EXCEPT !.phase = "iter"] \in Call0
    BY Zenon DEF Call0
  <2>6. [b EXCEPT !.remaining = 1] \in Call0
    BY <2>4
  <2> QED
    BY <2>3, <2>5, <2>6, Zenon
<1>12. /\ c.kind = kind /\ kind # "none" /\ c.result = p /\ c.elems = es /\ c.at = 0 /\ c.called = {} /\ c.phase = "iter"
       /\ Len(c.res) = 0
  <2>1. "none" \notin AllKinds
    BY DEF AllKinds
  <2> QED
    BY <1>4, <2>1, PromiseAssumption
<1>13. CapPair(c) = Pair(p, 1)
  BY <1>12 DEF CapPair
<1>14. Inv(u, Hand, ran) /\ Later(x, u) /\ u.st = x.st /\ u.gen = x.gen
  <2>1. /\ c.kind \in Kinds /\ c.result \in Promise /\ Len(c.elems) = 2 /\ Len(c.res) = c.at
        /\ c.called \subseteq 1 .. c.at /\ c.phase # "none" /\ c.kind # "none" /\ x.comb.kind = "none"
    BY <1>2, <1>3, <1>6, <1>10, <1>12
  <2>2. Good(x, CapPair(c)) /\ \A i \in DOMAIN c.elems : Good(x, c.elems[i])
    BY <1>8, <1>10, <1>12, <1>13
  <2> QED
    BY <1>6, <1>11, <2>1, <2>2, CombKeeps
<1> HIDE DEF u
<1>15. u \in World
  BY <1>14 DEF Inv, Fit
<1>16. Later(W, u) /\ Good(u, Prom(p)) /\ Prom(p) \in Proms
  BY <1>2, <1>7, <1>8, <1>9, <1>14, <1>15, LaterTransitive, RefSets, RefKinds DEF Good, Lives
<1>17. Becomes(u) /\ run' = run /\ ran' = ran /\ ops' \in 0 .. MaxOps /\ Hand' = Hand
  BY <1>1, <1>5, InvParts, PromiseAssumption DEF c, Op, Hand
<1>18. \A y \in held' : y \in held \/ (y \in Proms \cup Pairs \cup Elems /\ Good(u, y))
  BY <1>1, <1>16
<1> QED
  BY <1>14, <1>16, <1>17, <1>18, StepKeeps

(* While it iterates, the call has a result. *)
LEMMA CombParts ==
  ASSUME JobInv, comb.kind # "none" \/ comb.phase = "iter"
  PROVE  /\ comb \in Call0 /\ comb.kind # "none" /\ comb.kind \in Kinds /\ comb.result \in Promise
         /\ Len(comb.elems) = 2 /\ Len(comb.res) = comb.at /\ comb.called \subseteq 1 .. comb.at /\ comb.phase # "none"
         /\ CapPair(comb) \in Pairs /\ Good(W, CapPair(comb))
         /\ \A i \in DOMAIN comb.elems : Good(W, comb.elems[i])
<1>1. W.comb = comb /\ W \in World /\ Fit(W) /\ Sound(W)
  BY WorldFields DEF JobInv, Inv, Fit
<1>2. comb \in Call0 /\ comb.kind # "none"
  BY <1>1, WorldParts DEF Fit
<1>3. /\ comb.kind \in Kinds /\ comb.result \in Promise
      /\ Len(comb.elems) = 2 /\ Len(comb.res) = comb.at /\ comb.called \subseteq 1 .. comb.at /\ comb.phase # "none"
  BY <1>1, <1>2 DEF Fit
<1>4. CapPair(comb) \in Pairs
  BY <1>3, SMTT(30) DEF CapPair, Pairs
<1> QED
  BY <1>1, <1>2, <1>3, <1>4 DEF Sound

(* The step of the loop: an element that keeps its functions, or a promise   *)
(* they are registered on.                                                   *)
Gives(w, f, g) ==
  LET i == comb.at + 1
  IN  /\ f = OnF(comb, i) /\ g = OnR(comb, i)
      /\ \/ comb.elems[i] = Nothing /\ Becomes(w) /\ held' = held \cup {f, g}
         \/ \E p \in Promise : /\ comb.elems[i] = Prom(p) /\ Lives(w, p)
                              /\ Becomes(promiseThenCap(w, p, f, g, Nothing)) /\ held' = held

OneFurther(c, d) ==
  /\ c.phase = "iter" /\ c.at \in {0, 1} /\ d.at = c.at + 1 /\ d.elems = c.elems /\ d.called = c.called
  /\ d.phase = "iter" /\ d.res = Append(c.res, [ok |-> FALSE, v |-> Nothing])
  /\ d.remaining = IF Counted(c) THEN c.remaining + 1 ELSE c.remaining

LEMMA CombNextParts ==
  ASSUME JobInv, CombNext
  PROVE  /\ UNCHANGED <<run, ops, ran>> /\ comb.kind # "none"
         /\ \E w, f, g :
              /\ Inv(w, Hand, ran) /\ Later(W, w) /\ w \in World /\ W \in World
              /\ w.st = W.st /\ w.jobs = W.jobs /\ w.open = W.open /\ w.follows = W.follows /\ w.gen = W.gen
              /\ w.comb.kind = comb.kind /\ w.comb.result = comb.result
              /\ \A x \in {f, g} : x \in {CapPair(comb), Elem(1), Elem(2)} /\ x \in Pairs \cup Elems /\ Good(w, x)
              /\ Gives(w, f, g)
              /\ OneFurther(comb, w.comb) /\ w.cnt = W.cnt
<1> DEFINE i == comb.at + 1
           e == comb.elems[i]
           z == [ok |-> FALSE, v |-> Nothing]
           c == [comb EXCEPT !.at = i, !.res = Append(@, z), !.remaining = IF Counted(comb) THEN @ + 1 ELSE @]
           w == [W EXCEPT !.comb = c]
           x == promiseThenCap(w, e.p, OnF(comb, i), OnR(comb, i), Nothing)
<1>1. /\ comb.phase = "iter" /\ comb.at < Len(comb.elems) /\ UNCHANGED <<run, ops, ran>>
      /\ \/ e = Nothing /\ Becomes(w) /\ held' = held \cup {OnF(comb, i), OnR(comb, i)}
         \/ e # Nothing /\ Becomes(x) /\ held' = held
  <2>1. w = [W EXCEPT !.comb.at = i, !.comb.res = Append(@, z), !.comb.remaining = IF Counted(comb) THEN @ + 1 ELSE @]
    <3>1. W.comb = comb
      BY WorldFields
    <3> QED
      BY <3>1, Zenon DEF W
  <2> QED
    BY <2>1 DEF CombNext
<1>2. /\ comb \in Call0 /\ comb.kind # "none" /\ comb.kind \in Kinds /\ comb.result \in Promise
      /\ Len(comb.elems) = 2 /\ Len(comb.res) = comb.at /\ comb.called \subseteq 1 .. comb.at
      /\ CapPair(comb) \in Pairs /\ Good(W, CapPair(comb))
      /\ \A k \in DOMAIN comb.elems : Good(W, comb.elems[k])
  BY <1>1, CombParts
<1>3. W \in World /\ W.comb = comb /\ Inv(W, Hand, ran)
  BY InvParts, WorldFields
<1>4. comb.at \in {0, 1} /\ i \in {1, 2} /\ i \in DOMAIN comb.elems /\ e \in Proms \cup {Nothing}
  BY <1>1, <1>2, CombFacts
<1>5. c.kind = comb.kind /\ c.result = comb.result /\ c.elems = comb.elems /\ c.at = i /\ c.called = comb.called
      /\ c.res = Append(comb.res, z) /\ c.phase = "iter"
      /\ c.remaining = IF Counted(comb) THEN comb.remaining + 1 ELSE comb.remaining
  BY <1>1, <1>2 DEF Call0
<1>6. Append(comb.res, z) \in Seq([ok : BOOLEAN, v : Value]) /\ Len(Append(comb.res, z)) = comb.at + 1
  <2> DEFINE S == [ok : BOOLEAN, v : Value]
  <2>1. z \in S /\ comb.res \in Seq(S)
    BY <1>2, CombFacts, RefSets, Zenon DEF Value
  <2> HIDE DEF S, z
  <2>2. Append(comb.res, z) \in Seq(S) /\ Len(Append(comb.res, z)) = Len(comb.res) + 1
    BY <2>1, Longer
  <2> QED
    BY <1>2, <2>2 DEF S
<1>7. c \in Call0
  <2>1. (IF Counted(comb) THEN comb.remaining + 1 ELSE comb.remaining) \in Int /\ i \in 0 .. 2
    BY <1>2, <1>4, CombFacts
  <2> HIDE DEF i, z
  <2>2. c = [comb EXCEPT !.at = i, !.res = Append(comb.res, z),
                         !.remaining = IF Counted(comb) THEN comb.remaining + 1 ELSE comb.remaining]
    OBVIOUS
  <2> QED
    BY <1>2, <1>6, <2>1, <2>2, Zenon DEF Call0
<1> HIDE DEF c
<1>8. /\ Inv(w, Hand, ran) /\ Later(W, w) /\ w.comb = c /\ w.gen = W.gen
      /\ w.st = W.st /\ w.jobs = W.jobs /\ w.open = W.open /\ w.follows = W.follows /\ w.cnt = W.cnt
  <2>1. /\ c.kind \in Kinds /\ c.result \in Promise /\ Len(c.elems) = 2 /\ Len(c.res) = c.at
        /\ c.called \subseteq 1 .. c.at /\ c.phase # "none" /\ c.kind # "none" /\ W.comb.kind # "none"
        /\ W.comb.at <= c.at /\ c.result = W.comb.result /\ c.elems = W.comb.elems
    BY <1>2, <1>3, <1>4, <1>5, <1>6
  <2> QED
    BY <1>3, <1>7, <2>1, CombKeeps
<1> HIDE DEF w
<1>9. w \in World
  BY <1>8 DEF Inv, Fit
<1>10. \A f \in {OnF(comb, i), OnR(comb, i)} : f \in Pairs \cup Elems /\ Good(w, f) /\ f \in {CapPair(comb), Elem(1), Elem(2)}
  <2>1. OnF(comb, i) \in {CapPair(comb), Elem(i)} /\ OnR(comb, i) \in {CapPair(comb), Elem(i)}
    BY DEF OnF, OnR
  <2>2. Good(w, CapPair(comb))
    BY <1>2, <1>3, <1>8, <1>9, GoodLater DEF Ref
  <2>3. Elem(i) \in Elems /\ Good(w, Elem(i))
    BY <1>2, <1>4, <1>5, <1>8, RefKinds DEF Good, Elems
  <2> QED
    BY <1>2, <1>4, <2>1, <2>2, <2>3
<1>11. Gives(w, OnF(comb, i), OnR(comb, i))
  <2>1. CASE e = Nothing /\ Becomes(w) /\ held' = held \cup {OnF(comb, i), OnR(comb, i)}
    BY <2>1 DEF Gives
  <2>2. CASE e # Nothing /\ Becomes(x) /\ held' = held
    <3>1. e \in Proms /\ e.p \in Promise /\ e.k = "promise" /\ e = Prom(e.p) /\ Good(W, e)
      BY <1>2, <1>4, <2>2, RefSets
    <3>2. Lives(w, e.p)
      BY <1>8, <3>1 DEF Good, Later
    <3>3. Becomes(promiseThenCap(w, e.p, OnF(comb, i), OnR(comb, i), Nothing))
      BY <2>2
    <3> QED
      BY <2>2, <3>1, <3>2, <3>3 DEF Gives
  <2> QED
    BY <1>1, <2>1, <2>2
<1>12. OneFurther(comb, w.comb)
  BY <1>1, <1>4, <1>5, <1>8 DEF OneFurther
<1> HIDE DEF i
<1> QED
  BY <1>1, <1>2, <1>3, <1>5, <1>8, <1>9, <1>10, <1>11, <1>12

LEMMA CombNextKeeps == JobInv /\ CombNext => JobInv'
<1> SUFFICES ASSUME JobInv, CombNext PROVE JobInv'
  OBVIOUS
<1>1. PICK w, f, g :
        /\ Inv(w, Hand, ran) /\ Later(W, w) /\ w \in World /\ W \in World
        /\ \A x \in {f, g} : x \in Pairs \cup Elems /\ Good(w, x)
        /\ Gives(w, f, g)
  BY CombNextParts, Zenon
<1>2. Hand' = Hand /\ run' = run /\ ran' = ran /\ ops' \in 0 .. MaxOps
  BY CombNextParts, InvParts DEF Hand
<1>3. CASE Becomes(w) /\ held' = held \cup {f, g}
  <2>1. \A y \in held' : y \in held \/ (y \in Proms \cup Pairs \cup Elems /\ Good(w, y))
    BY <1>1, <1>3
  <2> QED
    BY <1>1, <1>2, <1>3, <2>1, StepKeeps
<1>4. ASSUME NEW p \in Promise, Lives(w, p), Becomes(promiseThenCap(w, p, f, g, Nothing)), held' = held
      PROVE  JobInv'
  <2> DEFINE u == promiseThenCap(w, p, f, g, Nothing)
  <2>1. Sole(w, Hand, Nothing)
    BY DEF Sole
  <2>2. Inv(u, Hand, ran) /\ Later(w, u)
    BY <1>1, <1>4, <2>1, ThenKeeps
  <2>3. Becomes(u)
    BY <1>4
  <2> HIDE DEF u
  <2>4. u \in World
    BY <2>2 DEF Inv, Fit
  <2>5. Later(W, u)
    BY <1>1, <2>2, <2>4, LaterTransitive
  <2> QED
    BY <1>2, <1>4, <2>2, <2>3, <2>5, StepKeeps
<1> QED
  BY <1>1, <1>3, <1>4 DEF Gives

LEMMA CombThrowKeeps == JobInv /\ CombThrow => JobInv'
<1> SUFFICES ASSUME JobInv, CombThrow PROVE JobInv'
  OBVIOUS
<1> DEFINE c == [comb EXCEPT !.phase = "thrown"]
           w == [W EXCEPT !.comb = c]
           x == CallPair(w, CapPair(comb), FALSE, Data("err"))
<1>1. comb.phase = "iter" /\ Op /\ Becomes(x) /\ UNCHANGED <<run, held, ran>>
  <2>1. w = [W EXCEPT !.comb.phase = "thrown"]
    BY WorldFields DEF W
  <2> QED
    BY <2>1, Zenon DEF CombThrow
<1>2. /\ comb \in Call0 /\ comb.kind # "none" /\ comb.kind \in Kinds /\ comb.result \in Promise
      /\ Len(comb.elems) = 2 /\ Len(comb.res) = comb.at /\ comb.called \subseteq 1 .. comb.at
      /\ CapPair(comb) \in Pairs
  BY <1>1, CombParts
<1>3. W \in World /\ W.comb = comb /\ Inv(W, Hand, ran)
  BY InvParts, WorldFields
<1>4. c.kind = comb.kind /\ c.result = comb.result /\ c.elems = comb.elems /\ c.at = comb.at /\ c.called = comb.called
      /\ c.res = comb.res /\ c.phase = "thrown" /\ c \in Call0
  BY <1>2, Zenon DEF Call0
<1> HIDE DEF c
<1>5. Inv(w, Hand, ran) /\ Later(W, w)
  <2>1. W.comb.at <= c.at
    BY <1>2, <1>3, <1>4, CombFacts
  <2> QED
    BY <1>2, <1>3, <1>4, <2>1, CombKeeps
<1> HIDE DEF w
<1>6. Inv(x, Hand, ran) /\ Later(w, x)
  <2>1. Data("err") \in Plain /\ Data("err") \in Value /\ Good(w, Data("err"))
    BY RefSets, PlainValues
  <2> QED
    BY <1>2, <1>5, <2>1, CallPairKeeps, Zenon
<1> HIDE DEF x
<1>7. Later(W, x)
  <2>1. w \in World /\ x \in World
    BY <1>5, <1>6 DEF Inv, Fit
  <2> QED
    BY <1>3, <1>5, <1>6, <2>1, LaterTransitive
<1>8. Hand' = Hand /\ run' = run /\ ran' = ran /\ held' = held /\ ops' \in 0 .. MaxOps
  BY <1>1, InvParts, PromiseAssumption DEF Hand, Op
<1> QED
  BY <1>1, <1>6, <1>7, <1>8, StepKeeps

LEMMA CombEndKeeps == JobInv /\ CombEnd => JobInv'
<1> SUFFICES ASSUME JobInv, CombEnd PROVE JobInv'
  OBVIOUS
<1> DEFINE c == [comb EXCEPT !.phase = "done"]
           w == [W EXCEPT !.comb = c]
<1>1. comb.phase = "iter" /\ (Becomes(tryFinish(w)) \/ Becomes(w)) /\ UNCHANGED <<run, held, ops, ran>>
  <2>1. w = [W EXCEPT !.comb.phase = "done"]
    BY WorldFields DEF W
  <2> QED
    BY <2>1 DEF CombEnd
<1>2. /\ comb \in Call0 /\ comb.kind # "none" /\ comb.kind \in Kinds /\ comb.result \in Promise
      /\ Len(comb.elems) = 2 /\ Len(comb.res) = comb.at /\ comb.called \subseteq 1 .. comb.at
      /\ CapPair(comb) \in Pairs
  BY <1>1, CombParts
<1>3. W \in World /\ W.comb = comb /\ Inv(W, Hand, ran)
  BY InvParts, WorldFields
<1>4. c.kind = comb.kind /\ c.result = comb.result /\ c.elems = comb.elems /\ c.at = comb.at /\ c.called = comb.called
      /\ c.res = comb.res /\ c.phase = "done" /\ c \in Call0
  BY <1>2, Zenon DEF Call0
<1> HIDE DEF c
<1>5. Inv(w, Hand, ran) /\ Later(W, w) /\ w.comb.kind # "none"
  <2>1. W.comb.at <= c.at
    BY <1>2, <1>3, <1>4, CombFacts
  <2> QED
    BY <1>2, <1>3, <1>4, <2>1, CombKeeps
<1> HIDE DEF w
<1>6. Hand' = Hand /\ run' = run /\ ran' = ran /\ held' = held /\ ops' \in 0 .. MaxOps
  BY <1>1, InvParts DEF Hand
<1>7. CASE Becomes(w)
  BY <1>5, <1>6, <1>7, StepKeeps
<1>8. CASE Becomes(tryFinish(w))
  <2> DEFINE x == tryFinish(w)
  <2>1. Inv(x, Hand, ran) /\ Later(w, x)
    BY <1>5, tryFinishKeeps
  <2> HIDE DEF x
  <2>2. Later(W, x)
    <3>1. w \in World /\ x \in World
      BY <1>5, <2>1 DEF Inv, Fit
    <3> QED
      BY <1>3, <1>5, <2>1, <3>1, LaterTransitive
  <2>3. Becomes(x)
    BY <1>8 DEF x
  <2> QED
    BY <1>6, <2>1, <2>2, <2>3, StepKeeps
<1> QED
  BY <1>1, <1>7, <1>8

-----------------------------------------------------------------------------
(* Jobs *)

LEMMA NoJobRuns == NoRun \notin Job /\ NoRun.kind = "none"
<1>1. \A j \in Job : j.kind \in {"react", "adopt"}
  BY JobFacts
<1>2. NoRun.kind = "none"
  BY DEF NoRun
<1> QED
  BY <1>1, <1>2

(* Whether the head is a function's reaction, the script's, or an adoption. *)
LEMMA HandlerFacts ==
  ASSUME NEW j \in Job, j.kind = "react"
  PROVE  /\ Handler(j) = Nothing \/ Handler(j) = Js => j.r.result \in Proms
         /\ Handler(j).k \in {"pair", "elem"} => Handler(j) \in Pairs \cup Elems /\ j.r.result = Nothing
         /\ Handler(j) \in JobRoots(j) /\ j.v \in Plain /\ j.s \in {"ful", "rej"} /\ Target(j) = j.r.result
         /\ j.r.src \in Promise
<1>1. /\ j.r \in Reaction /\ j.s \in {"ful", "rej"} /\ j.v \in Plain
      /\ Target(j) = j.r.result /\ JobRoots(j) = {j.r.onF, j.r.onR, j.r.result, j.v}
  BY JobFacts
<1>2. /\ j.r.src \in Promise
      /\ \/ j.r.result = Nothing /\ j.r.onF \in Pairs \cup Elems /\ j.r.onR \in Pairs \cup Elems
         \/ j.r.result \in Proms /\ j.r.onF \in {Js, Nothing} /\ j.r.onR \in {Js, Nothing}
  BY <1>1, ReactionFacts
<1>3. Handler(j) \in {j.r.onF, j.r.onR}
  BY DEF Handler
<1>4. /\ \A f \in Pairs \cup Elems : f # Nothing /\ f # Js
      /\ Js.k \notin {"pair", "elem"} /\ Nothing.k \notin {"pair", "elem"}
  BY RefSets, RefKinds
<1> QED
  BY <1>1, <1>2, <1>3, <1>4

LEMMA HeadFacts ==
  ASSUME JobInv, run = NoRun, jobs # <<>>, NEW j, j = jobs[1]
  PROVE  /\ Inv(Took, {Target(j)} \ {Nothing}, Taken(ran, W, j)) /\ Later(W, Took) /\ j \in Job /\ Hand = {}
         /\ W \in World /\ Took \in World /\ \A x \in JobRoots(j) : Good(Took, x)
         /\ Inv(Took, {}, Taken(ran, W, j))
         /\ \A x \in Proms : x = Target(j) => /\ x.p \in Promise /\ Took.st[x.p].state = "pending"
                                              /\ Undecided(Took, {}, x.p)
         /\ j.kind = "react" /\ Started(j) => ran' = Taken(ran, W, j)
         /\ j.kind = "adopt" => Taken(ran, W, j) = ran
<1>1. Hand = {}
  BY NoJobRuns DEF Hand
<1>2. Inv(W, {}, ran) /\ W \in World /\ W.jobs # <<>> /\ j = W.jobs[1] /\ W.st = st
  BY <1>1, InvParts, WorldFields
<1>3. /\ Inv(Took, {Target(j)} \ {Nothing}, Taken(ran, W, j)) /\ Later(W, Took) /\ j \in Job
      /\ \A x \in JobRoots(j) : Good(Took, x)
  BY <1>2, TakeKeeps, Zenon DEF Took
<1>4. Inv(Took, {}, Taken(ran, W, j))
      /\ \A x \in {Target(j)} \ {Nothing} : /\ x.p \in Promise /\ Took.st[x.p].state = "pending"
                                            /\ Undecided(Took, {}, x.p)
  BY <1>3, HandDropped
<1>5. Nothing \notin Proms
  BY RefSets, RefKinds
<1>6. Took \in World
  BY <1>3 DEF Inv, Fit
<1>7. /\ j.kind = "react" /\ Started(j) => ran' = Taken(ran, W, j)
      /\ j.kind = "adopt" => Taken(ran, W, j) = ran
  BY <1>2 DEF Started, Taken
<1> QED
  BY <1>1, <1>2, <1>3, <1>4, <1>5, <1>6, <1>7

LEMMA PassKeeps == ASSUME JobInv, NEW j, j = jobs[1], Pass(j) PROVE JobInv'
<1> DEFINE u == IF j.s = "ful" THEN Resolve(Took, j.r.result.p, j.v) ELSE Settle(Took, j.r.result.p, "rej", j.v)
<1>1. /\ run = NoRun /\ jobs # <<>> /\ j.kind = "react" /\ Handler(j) = Nothing
      /\ Becomes(u) /\ Started(j) /\ UNCHANGED <<run, held, ops>>
  BY DEF Pass, Draining
<1>2. /\ Later(W, Took) /\ j \in Job /\ W \in World /\ Took \in World
      /\ Inv(Took, {}, Taken(ran, W, j)) /\ ran' = Taken(ran, W, j)
      /\ \A x \in Proms : x = Target(j) => x.p \in Promise /\ Undecided(Took, {}, x.p)
  BY <1>1, HeadFacts, Zenon
<1>3. j.r.result \in Proms /\ j.r.result = Target(j) /\ j.v \in Plain
  BY <1>1, <1>2, HandlerFacts
<1>4. j.v \in Value /\ Good(Took, j.v) /\ j.r.result.p \in Promise /\ Undecided(Took, {}, j.r.result.p)
  BY <1>2, <1>3, PlainValues
<1>5. Inv(u, {}, ran') /\ Later(Took, u)
  <2>1. CASE j.s = "ful"
    BY <1>2, <1>4, <2>1, ResolveKeeps
  <2>2. CASE j.s # "ful"
    BY <1>2, <1>3, <1>4, <2>2, SettleKeeps
  <2> QED
    BY <2>1, <2>2
<1> HIDE DEF u
<1>6. Later(W, u)
  <2>1. u \in World
    BY <1>5 DEF Inv, Fit
  <2> QED
    BY <1>2, <1>5, <2>1, LaterTransitive
<1>7. Hand' = {} /\ run' = run /\ held' = held /\ ops' \in 0 .. MaxOps
  BY <1>1, InvParts, NoJobRuns DEF Hand
<1> QED
  BY <1>1, <1>5, <1>6, <1>7, StepKeeps

LEMMA ReactKeeps == ASSUME JobInv, NEW j, j = jobs[1], React(j) PROVE JobInv'
<1> DEFINE u == CallNative(Took, Handler(j), j.s = "ful", j.v)
<1>1. /\ run = NoRun /\ jobs # <<>> /\ j.kind = "react" /\ Handler(j).k \in {"pair", "elem"}
      /\ Becomes(u) /\ Started(j) /\ UNCHANGED <<run, held, ops>>
  BY DEF React, Draining
<1>2. /\ Later(W, Took) /\ j \in Job /\ W \in World /\ Took \in World
      /\ Inv(Took, {}, Taken(ran, W, j)) /\ ran' = Taken(ran, W, j) /\ \A x \in JobRoots(j) : Good(Took, x)
  BY <1>1, HeadFacts, Zenon
<1>3. Handler(j) \in Pairs \cup Elems /\ Good(Took, Handler(j)) /\ j.v \in Plain
  BY <1>1, <1>2, HandlerFacts
<1>4. j.v \in Value /\ Good(Took, j.v) /\ (j.s = "ful") \in BOOLEAN
  BY <1>3, PlainValues
<1>5. Inv(u, {}, ran') /\ Later(Took, u)
  BY <1>2, <1>3, <1>4, CallNativeKeeps, Zenon
<1> HIDE DEF u
<1>6. Later(W, u)
  <2>1. u \in World
    BY <1>5 DEF Inv, Fit
  <2> QED
    BY <1>2, <1>5, <2>1, LaterTransitive
<1>7. Hand' = {} /\ run' = run /\ held' = held /\ ops' \in 0 .. MaxOps
  BY <1>1, InvParts, NoJobRuns DEF Hand
<1> QED
  BY <1>1, <1>5, <1>6, <1>7, StepKeeps

LEMMA ReactJsKeeps == ASSUME JobInv, NEW j, j = jobs[1], ReactJs(j) PROVE JobInv'
<1>1. /\ run = NoRun /\ jobs # <<>> /\ j.kind = "react" /\ Handler(j) = Js
      /\ Becomes(Took) /\ run' = j /\ Started(j) /\ UNCHANGED <<held, ops>>
  BY DEF ReactJs, Draining
<1>2. /\ Later(W, Took) /\ j \in Job
      /\ Inv(Took, {Target(j)} \ {Nothing}, Taken(ran, W, j)) /\ ran' = Taken(ran, W, j)
      /\ \A x \in JobRoots(j) : Good(Took, x)
  BY <1>1, HeadFacts, Zenon
<1>3. j.r.result \in Proms /\ j.r.result = Target(j) /\ Nothing \notin Proms
  BY <1>1, <1>2, HandlerFacts, RefSets, RefKinds
<1>4. Hand' = {Target(j)} \ {Nothing}
  BY <1>1, <1>3 DEF Hand
<1>5. held' = held /\ ops' \in 0 .. MaxOps
  BY <1>1, InvParts
<1>6. run' \in Job /\ (\A x \in JobRoots(run') : Good(Took, x)) /\ (run'.kind = "react" => run'.r.result \in Proms)
  BY <1>1, <1>2, <1>3, Zenon
<1> QED
  BY <1>1, <1>2, <1>4, <1>5, <1>6, StepKeeps, Zenon

LEMMA AdoptKeeps == ASSUME JobInv, NEW j, j = jobs[1], Adopt(j) PROVE JobInv'
<1> DEFINE w == NewPair(Took, j.p)
           f == Pair(j.p, w.gen[j.p])
           u == promiseThenCap(w, j.v.p, f, f, Nothing)
<1>1. /\ run = NoRun /\ jobs # <<>> /\ j.kind = "adopt" /\ j.v.k = "promise"
      /\ Becomes(u) /\ UNCHANGED <<run, held, ops, ran>>
  BY DEF Adopt, Draining
<1>2. /\ Later(W, Took) /\ j \in Job /\ W \in World /\ Took \in World
      /\ Inv(Took, {}, ran) /\ \A x \in JobRoots(j) : Good(Took, x)
  BY <1>1, HeadFacts, Zenon
<1>3. j.p \in Promise /\ Target(j) = Prom(j.p) /\ JobRoots(j) = {Prom(j.p), j.v} /\ j.v \in Proms /\ j.v.p \in Promise
  BY <1>1, <1>2, JobFacts, RefSets, RefKinds
<1>4. Took.st[j.p].state = "pending" /\ Undecided(Took, {}, j.p)
  <2>1. Prom(j.p) \in Proms /\ Prom(j.p).p = j.p
    BY <1>3, RefSets, RefKinds
  <2> QED
    BY <1>1, <1>3, <2>1, HeadFacts, Zenon
<1>5. Inv(w, {}, ran) /\ Later(Took, w) /\ w.gen[j.p] \in Nat /\ Good(w, f)
  BY <1>2, <1>3, <1>4, NewPairKeeps, ZenonT(40)
<1>6. f \in Pairs
  BY <1>3, <1>5 DEF Pairs
<1>7. Lives(w, j.v.p) /\ Sole(w, {}, Nothing)
  BY <1>1, <1>2, <1>3, <1>5 DEF Good, Later, Sole
<1> HIDE DEF w, f
<1>8. Inv(u, {}, ran) /\ Later(w, u)
  BY <1>3, <1>5, <1>6, <1>7, ThenKeeps
<1> HIDE DEF u
<1>9. Later(W, u)
  <2>1. w \in World /\ u \in World
    BY <1>5, <1>8 DEF Inv, Fit
  <2>2. Later(W, w)
    BY <1>2, <1>5, <2>1, LaterTransitive
  <2> QED
    BY <1>2, <1>8, <2>1, <2>2, LaterTransitive
<1>10. Hand' = {} /\ run' = run /\ held' = held /\ ops' \in 0 .. MaxOps /\ ran' = ran
  BY <1>1, InvParts, NoJobRuns DEF Hand
<1> QED
  BY <1>1, <1>8, <1>9, <1>10, StepKeeps

LEMMA AdoptJsKeeps == ASSUME JobInv, NEW j, j = jobs[1], AdoptJs(j) PROVE JobInv'
<1> DEFINE w == NewPair(Took, j.p)
           f == Pair(j.p, w.gen[j.p])
<1>1. /\ run = NoRun /\ jobs # <<>> /\ j.kind = "adopt"
      /\ Becomes(w) /\ held' = held \cup {f} /\ run' = j /\ UNCHANGED <<ops, ran>>
  BY DEF AdoptJs, Draining
<1>2. /\ Later(W, Took) /\ j \in Job /\ W \in World /\ Took \in World
      /\ Inv(Took, {}, ran) /\ \A x \in JobRoots(j) : Good(Took, x)
  BY <1>1, HeadFacts, Zenon
<1>3. j.p \in Promise /\ Target(j) = Prom(j.p) /\ JobRoots(j) \subseteq Ref
  BY <1>1, <1>2, JobFacts
<1>4. Took.st[j.p].state = "pending" /\ Undecided(Took, {}, j.p)
  <2>1. Prom(j.p) \in Proms /\ Prom(j.p).p = j.p
    BY <1>3, RefSets, RefKinds
  <2> QED
    BY <1>1, <1>3, <2>1, HeadFacts, Zenon
<1>5. Inv(w, {}, ran) /\ Later(Took, w) /\ w.gen[j.p] \in Nat /\ Good(w, f)
  BY <1>2, <1>3, <1>4, NewPairKeeps, Zenon
<1>6. f \in Pairs
  BY <1>3, <1>5 DEF Pairs
<1> HIDE DEF w, f
<1>7. w \in World
  BY <1>5 DEF Inv, Fit
<1>8. Later(W, w)
  BY <1>2, <1>5, <1>7, LaterTransitive
<1>9. \A x \in JobRoots(j) : Good(w, x)
  BY <1>2, <1>3, <1>5, <1>7, GoodLater
<1>10. Hand' = {} /\ ops' \in 0 .. MaxOps /\ ran' = ran
  BY <1>1, InvParts DEF Hand
<1>11. \A x \in held' : x \in held \/ (x \in Proms \cup Pairs \cup Elems /\ Good(w, x))
  BY <1>1, <1>5, <1>6
<1>12. run' \in Job /\ (\A x \in JobRoots(run') : Good(w, x)) /\ (run'.kind = "react" => run'.r.result \in Proms)
  BY <1>1, <1>2, <1>9, Zenon
<1> QED
  BY <1>1, <1>5, <1>8, <1>10, <1>11, <1>12, StepKeeps

(* The job whose script is running. *)
LEMMA RunFacts ==
  ASSUME JobInv, run # NoRun
  PROVE  /\ Inv(W, {}, ran)
         /\ run.kind = "react" => /\ run.r.result.p \in Promise /\ Undecided(W, {}, run.r.result.p)
         /\ run.kind # "react" => run.p \in Promise
<1>1. run \in Job /\ Inv(W, Hand, ran)
  BY DEF JobInv, ScriptOK
<1>2. Inv(W, {}, ran) /\ \A x \in Hand : x.p \in Promise /\ Undecided(W, {}, x.p)
  BY <1>1, HandDropped
<1> QED
  BY <1>1, <1>2, JobFacts DEF Hand

LEMMA ReturnKeeps == JobInv /\ Return => JobInv'
<1> SUFFICES ASSUME JobInv, Return PROVE JobInv'
  OBVIOUS
<1>1. run # NoRun /\ run' = NoRun /\ UNCHANGED <<held, ops, ran>>
  BY DEF Return
<1>2. Hand' = {} /\ held' = held /\ ops' \in 0 .. MaxOps /\ ran' = ran
  BY <1>1, InvParts, NoJobRuns DEF Hand
<1>3. ASSUME NEW u, Inv(u, {}, ran), Later(W, u), Becomes(u) PROVE JobInv'
  BY <1>1, <1>2, <1>3, StepKeeps
<1>4. CASE run.kind = "react"
  <2>1. PICK v \in Vals \cup {BadThen} : Becomes(Resolve(W, run.r.result.p, v))
    BY <1>4 DEF Return
  <2>2. v \in Value /\ Good(W, v)
    <3>1. v \in Plain \cup {Thenable, BadThen} \/ (v \in held /\ v.k = "promise")
      BY DEF Vals, Plain
    <3> QED
      BY <3>1, InvParts, PlainValues
  <2>3. Inv(W, {}, ran) /\ run.r.result.p \in Promise /\ Undecided(W, {}, run.r.result.p)
    BY <1>1, <1>4, RunFacts
  <2> DEFINE u == Resolve(W, run.r.result.p, v)
  <2>4. Inv(u, {}, ran) /\ Later(W, u)
    BY <2>2, <2>3, ResolveKeeps
  <2> HIDE DEF u
  <2> QED
    BY <1>3, <2>1, <2>4 DEF u
<1>5. CASE run.kind # "react"
  <2>1. Becomes(W)
    BY <1>5 DEF Return, Becomes, W, world
  <2>2. Inv(W, {}, ran) /\ Later(W, W)
    BY <1>1, RunFacts, InvParts, LaterSame
  <2> QED
    BY <1>3, <2>1, <2>2
<1> QED
  BY <1>4, <1>5

LEMMA ThrowKeeps == JobInv /\ Throw => JobInv'
<1> SUFFICES ASSUME JobInv, Throw PROVE JobInv'
  OBVIOUS
<1>1. run # NoRun /\ run' = NoRun /\ UNCHANGED <<held, ops, ran>>
  BY DEF Throw
<1>2. Hand' = {} /\ held' = held /\ ops' \in 0 .. MaxOps /\ ran' = ran
  BY <1>1, InvParts, NoJobRuns DEF Hand
<1>3. ASSUME NEW u, Inv(u, {}, ran), Later(W, u), Becomes(u) PROVE JobInv'
  BY <1>1, <1>2, <1>3, StepKeeps
<1>4. Data("err") \in Plain /\ Data("err") \in Value /\ Good(W, Data("err"))
  BY RefSets, PlainValues
<1>5. CASE run.kind = "react"
  <2> DEFINE u == Settle(W, run.r.result.p, "rej", Data("err"))
  <2>1. Becomes(u)
    BY <1>5 DEF Throw
  <2>2. Inv(u, {}, ran) /\ Later(W, u)
    BY <1>1, <1>4, <1>5, RunFacts, SettleKeeps
  <2> HIDE DEF u
  <2> QED
    BY <1>3, <2>1, <2>2
<1>6. CASE run.kind # "react"
  <2> DEFINE u == CallPair(W, Pair(run.p, gen[run.p]), FALSE, Data("err"))
  <2>1. Becomes(u)
    BY <1>6, Zenon DEF Throw
  <2>2. Pair(run.p, gen[run.p]) \in Pairs
    BY <1>1, <1>6, RunFacts, InvParts, WorldFields, WorldParts DEF Pairs
  <2>3. Inv(u, {}, ran) /\ Later(W, u)
    BY <1>1, <1>4, <2>2, RunFacts, CallPairKeeps, Zenon
  <2> HIDE DEF u
  <2> QED
    BY <1>3, <2>1, <2>3
<1> QED
  BY <1>5, <1>6

-----------------------------------------------------------------------------
(* Reachability: Close(X, e) is the least set with X in it and closed       *)
(* under e, because the chain it builds can only grow so often.             *)

LEMMA LeastElement ==
  ASSUME NEW T, T \subseteq Nat, T # {}
  PROVE  \E n \in T : \A m \in T : n <= m
<1>1. IsWellFoundedOn(OpToRel(<, Nat), Nat)
  BY NatLessThanWellFounded, Zenon
<1>2. PICK n \in T : \A m \in T : <<m, n>> \notin OpToRel(<, Nat)
  BY <1>1, WFMin, Zenon
<1>3. \A m \in T : ~(m < n)
  BY <1>2, Zenon DEF OpToRel
<1> QED
  BY <1>3

Onward(S, e)   == S \cup UNION {e[x] : x \in S}
ClosedBy(C, e) == \A x \in C : e[x] \subseteq C
Least(S, e)    == {y \in Refs : \A C \in SUBSET Refs : S \subseteq C /\ ClosedBy(C, e) => y \in C}

LEMMA LeastFacts ==
  ASSUME NEW e \in [Refs -> SUBSET Refs], NEW S \in SUBSET Refs
  PROVE  /\ S \subseteq Least(S, e) /\ Least(S, e) \subseteq Refs /\ ClosedBy(Least(S, e), e)
         /\ \A C \in SUBSET Refs : S \subseteq C /\ ClosedBy(C, e) => Least(S, e) \subseteq C
         /\ Onward(S, e) \in SUBSET Refs /\ S \subseteq Onward(S, e)
         /\ Onward(S, e) = S => Least(S, e) = S
         /\ Least(Onward(S, e), e) = Least(S, e)
<1>1. S \subseteq Least(S, e) /\ Least(S, e) \subseteq Refs
  BY DEF Least
<1>2. \A C \in SUBSET Refs : S \subseteq C /\ ClosedBy(C, e) => Least(S, e) \subseteq C
  BY DEF Least
<1>3. ClosedBy(Least(S, e), e)
  <2>1. ASSUME NEW x \in Least(S, e), NEW y \in e[x] PROVE y \in Least(S, e)
    <3>1. y \in Refs
      BY <2>1, <1>1
    <3>2. ASSUME NEW C \in SUBSET Refs, S \subseteq C, ClosedBy(C, e) PROVE y \in C
      BY <2>1, <3>2 DEF Least, ClosedBy
    <3> QED
      BY <3>1, <3>2 DEF Least
  <2> QED
    BY <2>1 DEF ClosedBy
<1>4. Onward(S, e) \in SUBSET Refs /\ S \subseteq Onward(S, e)
  BY DEF Onward
<1>5. ASSUME Onward(S, e) = S PROVE Least(S, e) = S
  <2>1. ClosedBy(S, e)
    BY <1>5 DEF Onward, ClosedBy
  <2> QED
    BY <1>1, <1>2, <2>1
<1>6. ASSUME NEW C \in SUBSET Refs, ClosedBy(C, e) PROVE S \subseteq C <=> Onward(S, e) \subseteq C
  BY <1>6 DEF Onward, ClosedBy
<1>7. Least(Onward(S, e), e) = Least(S, e)
  BY <1>6 DEF Least
<1> QED
  BY <1>1, <1>2, <1>3, <1>4, <1>5, <1>7

(* The equation of Close has a solution, and no other one. *)
Chases(f, e) == f = [S \in SUBSET Refs |-> IF Onward(S, e) = S THEN S ELSE f[Onward(S, e)]]

LEMMA ChaseIsLeast ==
  ASSUME NEW e \in [Refs -> SUBSET Refs], IsFiniteSet(Refs), NEW f, Chases(f, e), NEW X \in SUBSET Refs
  PROVE  f[X] = Least(X, e)
<1> DEFINE Left(S) == Cardinality(Refs \ S)
           B == {S \in SUBSET Refs : f[S] # Least(S, e)}
           N == {Left(S) : S \in B}
<1>1. \A S \in SUBSET Refs : Left(S) \in Nat
  BY FS_Subset, FS_CardinalityType
<1>2. SUFFICES ASSUME B # {} PROVE FALSE
  OBVIOUS
<1>3. N \subseteq Nat /\ N # {}
  BY <1>1, <1>2, Zenon
<1>4. PICK n \in N : \A m \in N : n <= m
  BY <1>3, LeastElement, Zenon
<1>5. PICK S \in B : n = Left(S)
  OBVIOUS
<1>6. S \in SUBSET Refs /\ f[S] # Least(S, e)
  OBVIOUS
<1>7. f[S] = IF Onward(S, e) = S THEN S ELSE f[Onward(S, e)]
  BY <1>6 DEF Chases
<1>8. Onward(S, e) # S
  BY <1>6, <1>7, LeastFacts
<1>9. Onward(S, e) \in SUBSET Refs /\ S \subseteq Onward(S, e) /\ Least(Onward(S, e), e) = Least(S, e)
  BY <1>6, LeastFacts
<1>10. Left(Onward(S, e)) < Left(S)
  <2>1. Refs \ Onward(S, e) \in SUBSET (Refs \ S) /\ Refs \ Onward(S, e) # Refs \ S
    BY <1>6, <1>8, <1>9
  <2>2. IsFiniteSet(Refs \ S)
    BY FS_Subset
  <2>3. Left(Onward(S, e)) <= Left(S) /\ Left(Onward(S, e)) # Left(S)
    BY <2>1, <2>2, FS_Subset
  <2>4. Left(Onward(S, e)) \in Nat /\ Left(S) \in Nat
    BY <1>1, <1>6, <1>9, Zenon
  <2> HIDE DEF Left
  <2> QED
    BY <2>3, <2>4
<1>11. f[Onward(S, e)] # Least(Onward(S, e), e)
  BY <1>6, <1>7, <1>8, <1>9
<1>12. Left(Onward(S, e)) \in N
  BY <1>9, <1>11, Zenon
<1> HIDE DEF Left
<1> QED
  BY <1>1, <1>4, <1>5, <1>6, <1>9, <1>10, <1>12

LEMMA CloseIsLeast ==
  ASSUME NEW e \in [Refs -> SUBSET Refs], IsFiniteSet(Refs), NEW X \in SUBSET Refs
  PROVE  /\ X \subseteq Close(X, e) /\ Close(X, e) \subseteq Refs /\ ClosedBy(Close(X, e), e)
         /\ \A C \in SUBSET Refs : X \subseteq C /\ ClosedBy(C, e) => Close(X, e) \subseteq C
<1> DEFINE f == CHOOSE f : Chases(f, e)
           g == [S \in SUBSET Refs |-> Least(S, e)]
<1>1. Chases(g, e)
  <2>1. ASSUME NEW S \in SUBSET Refs PROVE Least(S, e) = IF Onward(S, e) = S THEN S ELSE g[Onward(S, e)]
    BY LeastFacts
  <2>2. g = [S \in SUBSET Refs |-> IF Onward(S, e) = S THEN S ELSE g[Onward(S, e)]]
    BY <2>1, Zenon
  <2> HIDE DEF g
  <2> QED
    BY <2>2 DEF Chases
<1>2. Chases(f, e)
  BY <1>1
<1>3. Close(X, e) = f[X]
  BY DEF Close, Chases, Onward
<1>4. Close(X, e) = Least(X, e)
  <2> HIDE DEF f
  <2> QED
    BY <1>2, <1>3, ChaseIsLeast
<1> QED
  BY <1>4, LeastFacts

LEMMA ThreeAreFinite == ASSUME NEW a, NEW b, NEW c PROVE IsFiniteSet({a, b, c})
<1>1. \A S, x : IsFiniteSet(S) => IsFiniteSet(S \cup {x})
  BY FS_AddElement
<1>2. IsFiniteSet({} \cup {a})
  BY <1>1, FS_EmptySet, Zenon
<1>3. IsFiniteSet(({} \cup {a}) \cup {b})
  BY <1>1, <1>2, Zenon
<1>4. IsFiniteSet((({} \cup {a}) \cup {b}) \cup {c})
  BY <1>1, <1>3
<1>5. (({} \cup {a}) \cup {b}) \cup {c} = {a, b, c}
  OBVIOUS
<1> QED
  BY <1>4, <1>5

LEMMA RefsFinite == ASSUME gen \in [Promise -> Nat] PROVE IsFiniteSet(Refs)
<1> DEFINE A == {Prom(p) : p \in Promise}
           B(p) == {Pair(p, n) : n \in 1 .. gen[p]}
           C == {B(p) : p \in Promise}
           D == {Elem(1), Elem(2), Arr, Js, Nothing, Data("a"), Data("err"), Thenable, BadThen}
<1>1. IsFiniteSet(Promise)
  BY PromiseAssumption
<1>2. IsFiniteSet(A)
  <2> DEFINE f == [p \in Promise |-> Prom(p)]
  <2>1. f \in Surjection(Promise, A)
    BY DEF Surjection
  <2> QED
    BY <1>1, <2>1, FS_Surjection
<1>3. ASSUME NEW p \in Promise PROVE IsFiniteSet(B(p))
  <2> DEFINE f == [n \in 1 .. gen[p] |-> Pair(p, n)]
  <2>1. f \in Surjection(1 .. gen[p], B(p))
    BY DEF Surjection
  <2>2. gen[p] \in Int
    OBVIOUS
  <2>3. IsFiniteSet(1 .. gen[p])
    BY <2>2, FS_Interval
  <2> QED
    BY <2>1, <2>3, FS_Surjection
<1>4. IsFiniteSet(C)
  <2> DEFINE f == [p \in Promise |-> B(p)]
  <2> HIDE DEF B
  <2>1. f \in Surjection(Promise, C)
    BY DEF Surjection
  <2> QED
    BY <1>1, <2>1, FS_Surjection
<1>5. IsFiniteSet(UNION C)
  <2> HIDE DEF B
  <2>1. \A T \in C : IsFiniteSet(T)
    BY <1>3
  <2> QED
    BY <1>4, <2>1, FS_UNION, Zenon
<1>6. IsFiniteSet(D)
  <2>1. /\ IsFiniteSet({Elem(1), Elem(2), Arr}) /\ IsFiniteSet({Js, Nothing, Data("a")})
        /\ IsFiniteSet({Data("err"), Thenable, BadThen})
    BY ThreeAreFinite, Zenon
  <2>2. D = ({Elem(1), Elem(2), Arr} \cup {Js, Nothing, Data("a")}) \cup {Data("err"), Thenable, BadThen}
    OBVIOUS
  <2>3. IsFiniteSet({Elem(1), Elem(2), Arr} \cup {Js, Nothing, Data("a")})
    BY <2>1, FS_Union, Zenon
  <2> HIDE DEF D
  <2> QED
    BY <2>1, <2>2, <2>3, FS_Union, Zenon
<1>7. Refs = (A \cup UNION C) \cup D
  BY DEF Refs
<1> HIDE DEF A, C, D
<1>8. IsFiniteSet(A \cup UNION C)
  BY <1>2, <1>5, FS_Union, Zenon
<1> QED
  BY <1>6, <1>7, <1>8, FS_Union, Zenon

(* Everything that is good is a reference. *)
LEMMA GoodRefs ==
  ASSUME JobInv
  PROVE  /\ \A x \in Ref : Good(W, x) => x \in Refs
         /\ IsFiniteSet(Refs) /\ Refs \subseteq Ref
<1>1. gen \in [Promise -> Nat] /\ W.gen = gen /\ W \in World
  BY InvParts, WorldFields, WorldParts
<1>2. ASSUME NEW x \in Ref, Good(W, x) PROVE x \in Refs
  <2>1. CASE x \in Pairs
    <3>1. x.p \in Promise /\ x.n \in 1 .. gen[x.p] /\ x = Pair(x.p, x.n)
      BY <1>1, <1>2, <2>1, RefSets DEF Good
    <3> QED
      BY <3>1 DEF Refs
  <2>2. CASE x \notin Pairs
    BY <2>2 DEF Refs, Ref, Value, Plain, Proms, Elems
  <2> QED
    BY <2>1, <2>2
<1>3. Refs \subseteq Ref
  BY <1>1 DEF Refs, Ref, Value, Plain, Proms, Elems, Pairs
<1> QED
  BY <1>1, <1>2, <1>3, RefsFinite

(* What is traced is among the references. *)
LEMMA TracesAreRefs ==
  ASSUME JobInv
  PROVE  \A x \in Refs : Traces(x) \subseteq Refs
<1>1. W \in World /\ Fit(W) /\ Sound(W) /\ W.st = st /\ W.comb = comb
  BY WorldFields DEF JobInv, Inv, Fit
<1>2. /\ \A y \in Ref : Good(W, y) => y \in Refs
      /\ Refs \subseteq Ref
  BY GoodRefs
<1>3. Proms \subseteq Refs /\ Arr \in Refs /\ Value \subseteq Refs
  BY DEF Refs, Proms, Value, Plain
<1>4. comb.kind # "none" => Held(comb) \subseteq Refs
  <2>1. ASSUME comb.kind # "none" PROVE Held(comb) \subseteq Refs
    <3>1. CapPair(comb) \in Refs /\ Prom(comb.result) \in Refs
      BY <1>2, <1>3, <2>1, CombParts DEF Ref, Value, Proms
    <3> QED
      BY <1>3, <3>1 DEF Held
  <2> QED
    BY <2>1
<1> SUFFICES ASSUME NEW x \in Refs PROVE Traces(x) \subseteq Refs
  OBVIOUS
<1>5. x \in Ref
  BY <1>2
<1>6. CASE x.k = "promise"
  <2>1. x.p \in Promise /\ Traces(x) = {st[x.p].val} \cup (UNION {{h.onF, h.onR, h.result} : h \in Range(st[x.p].handlers)})
    BY <1>5, <1>6, RefKinds, RefSets DEF Traces, Ref, Value
  <2>2. st[x.p].val \in Refs
    BY <1>1, <1>3, <2>1, WorldParts DEF Value
  <2>3. ASSUME NEW h \in Range(st[x.p].handlers), NEW y \in {h.onF, h.onR, h.result} PROVE y \in Refs
    <3>1. PICK i \in DOMAIN st[x.p].handlers : h = st[x.p].handlers[i]
      BY DEF Range
    <3>2. h \in Reaction
      BY <1>1, <2>1, <3>1, WorldParts
    <3>3. Good(W, y)
      BY <1>1, <2>1, <2>3, <3>1 DEF Sound
    <3>4. y \in Ref
      BY <2>3, <3>2, ReactionFacts DEF Ref, Value, Plain
    <3> QED
      BY <1>2, <3>3, <3>4
  <2> QED
    BY <2>1, <2>2, <2>3
<1>7. CASE x.k = "pair"
  <2>1. x.p \in Promise
    BY <1>5, <1>7, RefKinds, RefSets DEF Ref, Value
  <2>2. Prom(x.p) \in Refs
    BY <1>3, <2>1 DEF Proms
  <2>3. comb.at > 0 => comb.kind # "none"
    BY <1>1 DEF Fit
  <2> QED
    BY <1>4, <1>7, <2>2, <2>3 DEF Traces
<1>8. CASE x.k = "elem"
  BY <1>4, <1>8 DEF Traces
<1>9. CASE x.k = "arr"
  <2>1. Traces(x) = {comb.res[i].v : i \in DOMAIN comb.res}
    BY <1>9 DEF Traces
  <2>2. comb.res \in Seq([ok : BOOLEAN, v : Value])
    BY <1>1, WorldParts, CombFacts, Zenon
  <2>3. ASSUME NEW i \in DOMAIN comb.res PROVE comb.res[i].v \in Value
    <3>1. DOMAIN comb.res = 1 .. Len(comb.res)
      BY <2>2
    <3>2. comb.res[i] \in [ok : BOOLEAN, v : Value]
      BY <2>2, <3>1, ElementOfSeq, Zenon
    <3> QED
      BY <3>2
  <2> QED
    BY <1>3, <2>1, <2>3
<1>10. CASE x.k \notin {"promise", "pair", "elem", "arr"}
  BY <1>10 DEF Traces
<1> QED
  BY <1>6, <1>7, <1>8, <1>9, <1>10

(* What is marked: the roots, and all that is traced from there. *)
LEMMA MarkedFacts ==
  ASSUME JobInv
  PROVE  /\ Roots \subseteq Refs /\ Marked \subseteq Refs
         /\ Roots \subseteq Marked
         /\ \A x \in Marked : Traces(x) \subseteq Marked
<1> DEFINE e == [x \in Refs |-> Traces(x)]
<1>1. /\ \A y \in Ref : Good(W, y) => y \in Refs
      /\ Refs \subseteq Ref /\ IsFiniteSet(Refs)
  BY GoodRefs
<1>2. e \in [Refs -> SUBSET Refs]
  BY TracesAreRefs
<1>3. held \subseteq Refs
  BY <1>1, InvParts
<1>4. InFlight \subseteq Refs
  <2>1. CASE run.kind = "none"
    BY <2>1 DEF InFlight
  <2>2. CASE run.kind # "none"
    <3>1. run \in Job /\ run # NoRun
      BY <2>2 DEF JobInv, ScriptOK, NoRun
    <3>2. \A y \in JobRoots(run) : y \in Ref /\ Good(W, y)
      BY <3>1, JobFacts DEF JobInv, ScriptOK
    <3> QED
      BY <1>1, <2>2, <3>2 DEF InFlight
  <2> QED
    BY <2>1, <2>2
<1>5. ASSUME NEW j \in Range(jobs) PROVE JobRoots(j) \subseteq Refs
  <2>1. W \in World /\ Sound(W) /\ W.jobs = jobs
    BY WorldFields DEF JobInv, Inv, Fit
  <2>2. PICK i \in DOMAIN jobs : j = jobs[i]
    BY DEF Range
  <2>3. j \in Job
    BY <2>1, <2>2, WorldParts
  <2>4. \A y \in JobRoots(j) : y \in Ref /\ Good(W, y)
    BY <2>1, <2>2, <2>3, JobFacts DEF Sound
  <2> QED
    BY <1>1, <2>4
<1>6. Roots \subseteq Refs
  BY <1>3, <1>4, <1>5 DEF Roots
<1>7. /\ Roots \subseteq Close(Roots, e) /\ Close(Roots, e) \subseteq Refs /\ ClosedBy(Close(Roots, e), e)
  BY <1>1, <1>2, <1>6, CloseIsLeast
<1>8. Marked = Close(Roots, e)
  BY DEF Marked
<1> HIDE DEF e
<1>9. ClosedBy(Marked, e) /\ Marked \subseteq Refs /\ Roots \subseteq Marked
  BY <1>7, <1>8
<1>10. ASSUME NEW x \in Marked PROVE Traces(x) = e[x]
  BY <1>9 DEF e
<1> QED
  BY <1>6, <1>9, <1>10 DEF ClosedBy

-----------------------------------------------------------------------------
(* A collection: u is w without the promises d.  M is marked: it has what    *)
(* the jobs and the handlers of the others refer to, and what is in it and   *)
(* good stays so.                                                            *)
Swept(w, u, d) ==
  /\ u \in World /\ u.jobs = w.jobs /\ u.open = {f \in w.open : f.p \notin d}
  /\ \A p \in Promise : IF p \in d THEN u.st[p] = Free /\ u.gen[p] = 0 /\ u.cnt[p] = 0 /\ u.follows[p] = Nothing
                        ELSE /\ u.st[p] = w.st[p] /\ u.gen[p] = w.gen[p] /\ u.cnt[p] = w.cnt[p]
                             /\ \/ u.follows[p] = Nothing
                                \/ u.follows[p] = w.follows[p] /\ \A q \in d : w.follows[p] # Prom(q)
  /\ IF w.comb.result \in d THEN u.comb.kind = "none" /\ u.comb.at = 0 /\ u.comb.phase = "done"
     ELSE /\ u.comb.kind = w.comb.kind /\ u.comb.result = w.comb.result /\ u.comb.at = w.comb.at
          /\ u.comb.called = w.comb.called /\ u.comb.res = w.comb.res /\ u.comb.phase = w.comb.phase
          /\ Len(u.comb.elems) = Len(w.comb.elems)
          /\ \A i \in DOMAIN u.comb.elems :
               \/ u.comb.elems[i] = Nothing
               \/ u.comb.elems[i] = w.comb.elems[i] /\ \A q \in d : w.comb.elems[i] # Prom(q)

Reached(w, u, M) ==
  /\ \A i \in DOMAIN w.jobs : JobRoots(w.jobs[i]) \subseteq M
  /\ \A p \in Promise : \A i \in DOMAIN u.st[p].handlers :
       {u.st[p].handlers[i].onF, u.st[p].handlers[i].onR, u.st[p].handlers[i].result} \subseteq M
  /\ \A x \in M : x \in Ref /\ Good(w, x) => Good(u, x)

LEMMA SweptFit ==
  ASSUME NEW w, NEW u, NEW d, Fit(w), Swept(w, u, d)
  PROVE  Fit(u)
<1>1. u \in World
  BY DEF Swept
<1>2. ASSUME NEW p \in Promise
      PROVE  /\ u.st[p].state # "pending" => u.st[p].handlers = <<>>
             /\ u.st[p].state = "free" => u.gen[p] = 0 /\ u.cnt[p] = 0 /\ u.follows[p] = Nothing
  BY DEF Fit, Swept, Free
<1>3. u.comb.kind # "none" => /\ u.comb.kind \in Kinds /\ u.comb.result \in Promise
                              /\ Len(u.comb.elems) = 2 /\ Len(u.comb.res) = u.comb.at
                              /\ u.comb.called \subseteq 1 .. u.comb.at /\ u.comb.phase # "none"
  BY DEF Fit, Swept
<1>4. u.comb.kind = "none" => u.comb.at = 0 /\ u.comb.phase \notin {"iter", "thrown"}
  BY DEF Fit, Swept
<1> QED
  BY <1>1, <1>2, <1>3, <1>4 DEF Fit

(* The handlers that are left. *)
LEMMA SweptHandlers ==
  ASSUME NEW w \in World, NEW u, NEW d, Swept(w, u, d), NEW p \in Promise, NEW i \in DOMAIN u.st[p].handlers
  PROVE  /\ p \notin d /\ u.st[p].handlers = w.st[p].handlers /\ i \in DOMAIN w.st[p].handlers
         /\ w.st[p].handlers[i] \in Reaction
<1>1. p \notin d
  BY DEF Swept, Free
<1>2. u.st[p] = w.st[p]
  BY <1>1 DEF Swept
<1> QED
  BY <1>1, <1>2, WorldParts

LEMMA SweptSound ==
  ASSUME NEW w, NEW u, NEW d, NEW M, Fit(w), Sound(w), Swept(w, u, d), Reached(w, u, M)
  PROVE  Sound(u)
<1>1. w \in World /\ u \in World
  BY DEF Fit, Swept
<1>2. ASSUME NEW p \in Promise, p \notin d, Lives(w, p) PROVE Lives(u, p) /\ u.gen[p] = w.gen[p]
  BY <1>2 DEF Swept, Lives
<1>3. ASSUME NEW x \in Pairs, Good(w, x), x.p \notin d PROVE Good(u, x)
  BY <1>2, <1>3, RefSets DEF Good
<1>4. ASSUME NEW x \in Proms \cup {Nothing, Thenable}, Good(w, x), \A q \in d : x # Prom(q) PROVE Good(u, x)
  <2>1. CASE x \in Proms
    <3>1. x.k = "promise" /\ x.p \in Promise /\ x = Prom(x.p)
      BY <2>1, RefSets
    <3>2. x.p \notin d
      BY <1>4, <3>1
    <3> QED
      BY <1>2, <1>4, <3>1, <3>2 DEF Good
  <2>2. CASE x \in {Nothing, Thenable}
    BY <2>2, RefKinds DEF Good
  <2> QED
    BY <1>4, <2>1, <2>2
<1>5. ASSUME NEW i \in DOMAIN u.jobs, NEW x \in JobRoots(u.jobs[i]) PROVE Good(u, x)
  <2>1. u.jobs = w.jobs
    BY DEF Swept
  <2>2. i \in DOMAIN w.jobs /\ x \in JobRoots(w.jobs[i]) /\ w.jobs[i] \in Job
    BY <1>1, <1>5, <2>1, WorldParts
  <2>3. Good(w, x) /\ x \in Ref
    BY <2>2, JobFacts DEF Sound
  <2> QED
    BY <2>2, <2>3 DEF Reached
<1>6. ASSUME NEW p \in Promise, NEW i \in DOMAIN u.st[p].handlers,
             NEW x \in {u.st[p].handlers[i].onF, u.st[p].handlers[i].onR, u.st[p].handlers[i].result}
      PROVE  Good(u, x)
  <2>1. /\ p \notin d /\ u.st[p].handlers = w.st[p].handlers /\ i \in DOMAIN w.st[p].handlers
        /\ w.st[p].handlers[i] \in Reaction
    BY <1>1, SweptHandlers
  <2>2. x \in Ref
    BY <2>1, ReactionFacts DEF Ref, Value, Plain
  <2>3. Good(w, x)
    BY <2>1 DEF Sound
  <2> QED
    BY <2>2, <2>3 DEF Reached
<1>7. ASSUME NEW f \in u.open PROVE Good(u, f)
  <2>1. f \in w.open /\ f.p \notin d
    BY DEF Swept
  <2> QED
    BY <1>1, <1>3, <2>1, WorldParts DEF Sound
<1>8. ASSUME NEW p \in Promise PROVE Good(u, u.follows[p])
  <2>1. w.follows[p] \in Proms \cup {Nothing, Thenable} /\ Good(w, w.follows[p])
    BY <1>1, WorldParts DEF Sound
  <2>2. u.follows[p] = Nothing \/ (u.follows[p] = w.follows[p] /\ \A q \in d : w.follows[p] # Prom(q))
    BY DEF Swept
  <2> QED
    BY <1>4, <2>1, <2>2, RefKinds DEF Good
<1>9. ASSUME u.comb.kind # "none"
      PROVE  Good(u, CapPair(u.comb)) /\ \A i \in DOMAIN u.comb.elems : Good(u, u.comb.elems[i])
  <2>1. w.comb.result \notin d
    BY <1>9 DEF Swept
  <2>2. /\ u.comb.kind = w.comb.kind /\ u.comb.result = w.comb.result
        /\ Len(u.comb.elems) = Len(w.comb.elems)
        /\ \A i \in DOMAIN u.comb.elems :
               \/ u.comb.elems[i] = Nothing
               \/ u.comb.elems[i] = w.comb.elems[i] /\ \A q \in d : w.comb.elems[i] # Prom(q)
    BY <2>1 DEF Swept
  <2>3. Good(w, CapPair(w.comb)) /\ w.comb.result \in Promise
    BY <1>9, <2>2 DEF Sound, Fit
  <2>4. CapPair(u.comb) = CapPair(w.comb) /\ CapPair(w.comb) \in Pairs /\ CapPair(w.comb).p = w.comb.result
    BY <2>2, <2>3, RefKinds DEF CapPair, Pairs
  <2>5. DOMAIN u.comb.elems = DOMAIN w.comb.elems
    BY <1>1, <2>2, WorldParts, CombFacts
  <2>6. ASSUME NEW i \in DOMAIN u.comb.elems PROVE Good(u, u.comb.elems[i])
    <3>1. w.comb.elems[i] \in Proms \cup {Nothing} /\ Good(w, w.comb.elems[i])
      BY <1>1, <1>9, <2>2, <2>5, WorldParts, CombFacts DEF Sound
    <3> QED
      BY <1>4, <2>2, <3>1, RefKinds, SMTT(30) DEF Good
  <2> QED
    BY <1>3, <2>1, <2>3, <2>4, <2>6
<1> QED
  BY <1>5, <1>6, <1>7, <1>8, <1>9 DEF Sound

LEMMA SweptOnce ==
  ASSUME NEW w, NEW u, NEW d, NEW M, NEW T, Fit(w), Sound(w), Once(w, T), Swept(w, u, d), Reached(w, u, M),
         \A x \in T : x.p \notin d
  PROVE  Once(u, T)
<1>1. w \in World /\ u \in World /\ u.jobs = w.jobs
  BY DEF Fit, Swept
<1>2. Sound(u)
  BY SweptSound
<1>3. ASSUME NEW q \in Promise, Lives(u, q) PROVE u.st[q] = w.st[q] /\ q \notin d
  BY <1>3 DEF Swept, Lives, Free
<1>4. \A f \in u.open : f \in w.open /\ f.p \in Promise /\ f.p \notin d /\ u.st[f.p] = w.st[f.p]
  BY <1>1, WorldParts, RefSets DEF Swept
<1>5. ASSUME NEW i \in DOMAIN u.jobs, Target(u.jobs[i]) # Nothing
      PROVE  Target(u.jobs[i]).p \in Promise /\ u.st[Target(u.jobs[i]).p] = w.st[Target(u.jobs[i]).p]
  <2>1. u.jobs[i] \in Job
    BY <1>1, WorldParts
  <2>2. Target(u.jobs[i]) \in Proms /\ Target(u.jobs[i]) \in JobRoots(u.jobs[i])
    BY <1>5, <2>1, JobFacts
  <2>3. Good(u, Target(u.jobs[i]))
    BY <1>2, <2>2 DEF Sound
  <2>4. Target(u.jobs[i]).k = "promise" /\ Target(u.jobs[i]).p \in Promise
    BY <2>2, RefSets, SMTT(30)
  <2> QED
    BY <1>3, <2>3, <2>4 DEF Good
<1>6. ASSUME NEW q \in Promise, NEW k \in DOMAIN u.st[q].handlers
      PROVE  /\ k \in DOMAIN w.st[q].handlers /\ u.st[q].handlers[k] = w.st[q].handlers[k]
             /\ u.st[q].handlers[k].result # Nothing =>
                  u.st[u.st[q].handlers[k].result.p] = w.st[u.st[q].handlers[k].result.p]
  <2>1. /\ u.st[q].handlers = w.st[q].handlers /\ k \in DOMAIN w.st[q].handlers
        /\ w.st[q].handlers[k] \in Reaction
    BY <1>1, SweptHandlers
  <2>2. Good(u, u.st[q].handlers[k].result)
    BY <1>2 DEF Sound
  <2>3. u.st[q].handlers[k].result # Nothing => u.st[q].handlers[k].result \in Proms
    BY <2>1, ReactionFacts
  <2>4. u.st[q].handlers[k].result # Nothing =>
          u.st[q].handlers[k].result.k = "promise" /\ u.st[q].handlers[k].result.p \in Promise
    BY <2>3, RefSets
  <2> QED
    BY <1>3, <2>1, <2>2, <2>4 DEF Good
<1>7. \A f, g \in u.open : f.p = g.p => f = g
  BY <1>4 DEF Once
<1>8. \A i, j \in DOMAIN u.jobs : Target(u.jobs[i]) = Target(u.jobs[j]) => i = j \/ Target(u.jobs[i]) = Nothing
  BY <1>1 DEF Once
<1>9. ASSUME NEW p \in Promise, NEW q \in Promise, NEW i \in DOMAIN u.st[p].handlers, NEW j \in DOMAIN u.st[q].handlers,
             u.st[p].handlers[i].result = u.st[q].handlers[j].result
      PROVE  (p = q /\ i = j) \/ u.st[p].handlers[i].result = Nothing
  <2>1. /\ i \in DOMAIN w.st[p].handlers /\ u.st[p].handlers[i] = w.st[p].handlers[i]
        /\ j \in DOMAIN w.st[q].handlers /\ u.st[q].handlers[j] = w.st[q].handlers[j]
    BY <1>6
  <2>2. w.st[p].handlers[i].result = w.st[q].handlers[j].result
    BY <1>9, <2>1
  <2> QED
    BY <2>1, <2>2, SameHandler
<1>10. ASSUME NEW f \in u.open
       PROVE  /\ u.st[f.p].state = "pending" /\ Prom(f.p) \notin T
              /\ \A i \in DOMAIN u.jobs : Target(u.jobs[i]) # Prom(f.p)
              /\ \A q \in Promise : \A i \in DOMAIN u.st[q].handlers : u.st[q].handlers[i].result # Prom(f.p)
  <2>1. /\ w.st[f.p].state = "pending" /\ Prom(f.p) \notin T
        /\ \A i \in DOMAIN w.jobs : Target(w.jobs[i]) # Prom(f.p)
        /\ \A q \in Promise : \A i \in DOMAIN w.st[q].handlers : w.st[q].handlers[i].result # Prom(f.p)
    BY <1>4 DEF Once
  <2>2. \A q \in Promise : \A i \in DOMAIN u.st[q].handlers :
          i \in DOMAIN w.st[q].handlers /\ u.st[q].handlers[i] = w.st[q].handlers[i]
    BY <1>6
  <2> QED
    BY <1>1, <1>4, <2>1, <2>2
<1>11. ASSUME NEW i \in DOMAIN u.jobs, Target(u.jobs[i]) # Nothing
       PROVE  /\ u.st[Target(u.jobs[i]).p].state = "pending" /\ Target(u.jobs[i]) \notin T
              /\ \A q \in Promise : \A j \in DOMAIN u.st[q].handlers : u.st[q].handlers[j].result # Target(u.jobs[i])
  <2>1. /\ w.st[Target(w.jobs[i]).p].state = "pending" /\ Target(w.jobs[i]) \notin T
        /\ \A q \in Promise : \A j \in DOMAIN w.st[q].handlers : w.st[q].handlers[j].result # Target(w.jobs[i])
    BY <1>1, <1>11 DEF Once
  <2>2. \A q \in Promise : \A j \in DOMAIN u.st[q].handlers :
          j \in DOMAIN w.st[q].handlers /\ u.st[q].handlers[j] = w.st[q].handlers[j]
    BY <1>6
  <2> QED
    BY <1>1, <1>5, <1>11, <2>1, <2>2
<1>12. ASSUME NEW q \in Promise, NEW j \in DOMAIN u.st[q].handlers, u.st[q].handlers[j].result # Nothing
       PROVE  u.st[u.st[q].handlers[j].result.p].state = "pending" /\ u.st[q].handlers[j].result \notin T
  <2>1. /\ j \in DOMAIN w.st[q].handlers /\ u.st[q].handlers[j] = w.st[q].handlers[j]
        /\ u.st[u.st[q].handlers[j].result.p] = w.st[u.st[q].handlers[j].result.p]
    BY <1>6, <1>12
  <2>2. w.st[w.st[q].handlers[j].result.p].state = "pending" /\ w.st[q].handlers[j].result \notin T
    BY <1>12, <2>1, Zenon DEF Once
  <2> QED
    BY <2>1, <2>2
<1>13. ASSUME NEW x \in T PROVE x \in Proms /\ u.st[x.p].state = "pending"
  <2>1. x \in Proms /\ w.st[x.p].state = "pending"
    BY DEF Once
  <2>2. x.p \in Promise /\ x.p \notin d
    BY <2>1, RefSets
  <2> QED
    BY <2>1, <2>2 DEF Swept
<1> QED
  BY <1>7, <1>8, <1>9, <1>10, <1>11, <1>12, <1>13 DEF Once

LEMMA SweptOrdered ==
  ASSUME NEW w, NEW u, NEW d, NEW rn, NEW rn1, Fit(w), Ordered(w, rn), Swept(w, u, d),
         \A p \in Promise : rn1[p] = IF p \in d THEN 0 ELSE rn[p]
  PROVE  Ordered(u, rn1)
<1>1. u.jobs = w.jobs
  BY DEF Swept
<1>2. ASSUME NEW p \in Promise, p \in d PROVE OrderedAt(u, rn1, p)
  BY <1>2 DEF Swept, OrderedAt, Free
<1>3. ASSUME NEW p \in Promise, p \notin d PROVE OrderedAt(u, rn1, p)
  <2>1. Same(w, u, p)
    BY <1>1, <1>3 DEF Swept, Same, From
  <2>2. OrderedAt(u, rn, p)
    BY <2>1, SameOrdered DEF Ordered
  <2> QED
    BY <1>3, <2>2 DEF OrderedAt
<1> QED
  BY <1>2, <1>3 DEF Ordered

(* Whatever is not collected and refers to something marked it. *)
LEMMA CollectSweeps ==
  ASSUME JobInv, Collect
  PROVE  \E d \in SUBSET Promise :
           /\ d = {p \in Promise : st[p].state # "free" /\ Prom(p) \notin Marked}
           /\ Swept(W, W', d) /\ ran' = [p \in Promise |-> IF p \in d THEN 0 ELSE ran[p]]
           /\ UNCHANGED <<run, held, ops>>
<1> DEFINE d == {p \in Promise : st[p].state # "free" /\ Prom(p) \notin Marked}
           es == [i \in DOMAIN comb.elems |-> IF \E q \in d : comb.elems[i] = Prom(q) THEN Nothing ELSE comb.elems[i]]
           c  == [comb EXCEPT !.elems = es]
           c0 == [NoComb EXCEPT !.phase = "done"]
<1>1. /\ st' = [p \in Promise |-> IF p \in d THEN Free ELSE st[p]]
      /\ open' = {f \in open : f.p \notin d}
      /\ gen' = [p \in Promise |-> IF p \in d THEN 0 ELSE gen[p]]
      /\ cnt' = [p \in Promise |-> IF p \in d THEN 0 ELSE cnt[p]]
      /\ ran' = [p \in Promise |-> IF p \in d THEN 0 ELSE ran[p]]
      /\ follows' = [p \in Promise |-> IF p \in d \/ \E q \in d : follows[p] = Prom(q) THEN Nothing ELSE follows[p]]
      /\ comb' = IF comb.result \in d THEN c0 ELSE c
      /\ UNCHANGED <<jobs, run, held, ops>>
  BY DEF Collect
<1>2. /\ W \in World /\ W.st = st /\ W.jobs = jobs /\ W.open = open /\ W.gen = gen /\ W.comb = comb
      /\ W.cnt = cnt /\ W.follows = follows
  BY InvParts, WorldFields
<1>3. /\ W'.st = st' /\ W'.jobs = jobs' /\ W'.open = open' /\ W'.gen = gen' /\ W'.comb = comb'
      /\ W'.cnt = cnt' /\ W'.follows = follows'
  BY DEF W
<1>4. /\ st \in [Promise -> Cell] /\ jobs \in Seq(Job) /\ open \subseteq Pairs
      /\ gen \in [Promise -> Nat] /\ comb \in Call0 /\ cnt \in [Promise -> Nat]
      /\ follows \in [Promise -> Proms \cup {Nothing, Thenable}]
  BY <1>2, WorldParts
<1>5. /\ es \in Seq(Proms \cup {Nothing}) /\ Len(es) = Len(comb.elems) /\ DOMAIN es = DOMAIN comb.elems
      /\ c \in Call0 /\ c.elems = es
      /\ c.kind = comb.kind /\ c.result = comb.result /\ c.at = comb.at /\ c.called = comb.called
      /\ c.res = comb.res /\ c.phase = comb.phase
  <2>1. /\ Len(comb.elems) \in Nat /\ DOMAIN comb.elems = 1 .. Len(comb.elems)
        /\ \A i \in DOMAIN comb.elems : comb.elems[i] \in Proms \cup {Nothing}
    BY <1>4, CombFacts
  <2>2. es \in [1 .. Len(comb.elems) -> Proms \cup {Nothing}]
    BY <2>1
  <2>3. es \in Seq(Proms \cup {Nothing}) /\ DOMAIN es = DOMAIN comb.elems
    BY <2>1, <2>2, SeqDef
  <2>4. Len(es) \in Nat /\ 1 .. Len(es) = 1 .. Len(comb.elems)
    BY <2>1, <2>3, LenProperties
  <2>5. Len(es) = Len(comb.elems)
    <3> HIDE DEF es
    <3> QED
      BY <2>1, <2>4
  <2> HIDE DEF es
  <2> QED
    BY <1>4, <2>3, <2>5, Zenon DEF Call0
<1>6. c0 \in Call0 /\ c0.kind = "none" /\ c0.at = 0 /\ c0.phase = "done"
  <2>1. NoComb \in Call0
    BY NoCombFits
  <2> QED
    BY <2>1, Zenon DEF Call0, NoComb
<1>7. W' \in World
  <2>1. Free \in Cell
    BY DEF Free, Cell, Plain
  <2>2. st' \in [Promise -> Cell]
    BY <1>1, <1>4, <2>1
  <2>3. open' \subseteq Pairs /\ gen' \in [Promise -> Nat] /\ cnt' \in [Promise -> Nat]
        /\ follows' \in [Promise -> Proms \cup {Nothing, Thenable}] /\ jobs' \in Seq(Job)
    BY <1>1, <1>4
  <2>4. comb' \in Call0
    BY <1>1, <1>5, <1>6
  <2> QED
    BY <2>2, <2>3, <2>4 DEF W, World
<1>8. ASSUME NEW p \in Promise
      PROVE  IF p \in d THEN W'.st[p] = Free /\ W'.gen[p] = 0 /\ W'.cnt[p] = 0 /\ W'.follows[p] = Nothing
             ELSE /\ W'.st[p] = W.st[p] /\ W'.gen[p] = W.gen[p] /\ W'.cnt[p] = W.cnt[p]
                  /\ \/ W'.follows[p] = Nothing
                     \/ W'.follows[p] = W.follows[p] /\ \A q \in d : W.follows[p] # Prom(q)
  <2> HIDE DEF d
  <2>1. /\ st'[p] = IF p \in d THEN Free ELSE st[p]
        /\ gen'[p] = IF p \in d THEN 0 ELSE gen[p]
        /\ cnt'[p] = IF p \in d THEN 0 ELSE cnt[p]
        /\ follows'[p] = IF p \in d \/ \E q \in d : follows[p] = Prom(q) THEN Nothing ELSE follows[p]
    BY <1>1
  <2> QED
    BY <1>2, <1>3, <2>1
<1>9. IF W.comb.result \in d THEN W'.comb.kind = "none" /\ W'.comb.at = 0 /\ W'.comb.phase = "done"
      ELSE /\ W'.comb.kind = W.comb.kind /\ W'.comb.result = W.comb.result /\ W'.comb.at = W.comb.at
           /\ W'.comb.called = W.comb.called /\ W'.comb.res = W.comb.res /\ W'.comb.phase = W.comb.phase
           /\ Len(W'.comb.elems) = Len(W.comb.elems)
           /\ \A i \in DOMAIN W'.comb.elems :
                \/ W'.comb.elems[i] = Nothing
                \/ W'.comb.elems[i] = W.comb.elems[i] /\ \A q \in d : W.comb.elems[i] # Prom(q)
  <2>1. \A i \in DOMAIN es : es[i] = Nothing \/ (es[i] = comb.elems[i] /\ \A q \in d : comb.elems[i] # Prom(q))
    OBVIOUS
  <2> HIDE DEF d, es, c, c0
  <2>2. CASE comb.result \in d
    BY <1>1, <1>2, <1>3, <1>6, <2>2
  <2>3. CASE comb.result \notin d
    BY <1>1, <1>2, <1>3, <1>5, <2>1, <2>3
  <2> QED
    BY <1>2, <2>2, <2>3
<1>10. Swept(W, W', d)
  <2> HIDE DEF d
  <2>1. W'.jobs = W.jobs /\ W'.open = {f \in W.open : f.p \notin d}
    BY <1>1, <1>2, <1>3
  <2> QED
    BY <1>7, <1>8, <1>9, <2>1 DEF Swept
<1> QED
  BY <1>1, <1>10

LEMMA CollectReaches ==
  ASSUME JobInv, NEW d, d = {p \in Promise : st[p].state # "free" /\ Prom(p) \notin Marked}, Swept(W, W', d)
  PROVE  Reached(W, W', Marked)
<1>1. /\ W \in World /\ Fit(W) /\ W.st = st /\ W.jobs = jobs /\ W.gen = gen /\ W.comb = comb
  BY InvParts, WorldFields DEF Inv
<1>2. Roots \subseteq Marked /\ \A x \in Marked : Traces(x) \subseteq Marked
  BY MarkedFacts
<1>3. ASSUME NEW i \in DOMAIN W.jobs PROVE JobRoots(W.jobs[i]) \subseteq Marked
  <2>1. W.jobs[i] \in Range(jobs)
    BY <1>1 DEF Range
  <2> QED
    BY <1>2, <2>1 DEF Roots
<1>4. ASSUME NEW p \in Promise, Lives(W, p), Prom(p) \in Marked PROVE p \notin d
  BY <1>4
<1>5. ASSUME NEW p \in Promise, p \notin d, Lives(W, p)
      PROVE  Lives(W', p) /\ W'.gen[p] = W.gen[p]
  BY <1>5 DEF Swept, Lives
<1>6. ASSUME NEW p \in Promise, NEW i \in DOMAIN W'.st[p].handlers
      PROVE  {W'.st[p].handlers[i].onF, W'.st[p].handlers[i].onR, W'.st[p].handlers[i].result} \subseteq Marked
  <2>1. p \notin d /\ W'.st[p].handlers = W.st[p].handlers /\ i \in DOMAIN W.st[p].handlers
    BY <1>1, SweptHandlers
  <2>2. st[p].state # "free"
    BY <1>1, <2>1 DEF Fit
  <2>3. Prom(p) \in Marked
    BY <2>1, <2>2
  <2>4. st[p].handlers[i] \in Range(st[p].handlers)
    BY <1>1, <2>1 DEF Range
  <2>5. Prom(p).k = "promise" /\ Prom(p).p = p
    BY RefKinds
  <2>6. Traces(Prom(p)) = {st[p].val} \cup (UNION {{h.onF, h.onR, h.result} : h \in Range(st[p].handlers)})
    BY <2>5 DEF Traces
  <2>7. Traces(Prom(p)) \subseteq Marked
    BY <1>2, <2>3
  <2> QED
    BY <1>1, <2>1, <2>4, <2>6, <2>7
<1>7. ASSUME NEW x \in Marked, x \in Ref, Good(W, x) PROVE Good(W', x)
  <2>1. CASE x \in Proms
    <3>1. x.k = "promise" /\ x.p \in Promise /\ x = Prom(x.p)
      BY <2>1, RefSets
    <3>2. Lives(W, x.p) /\ x.p \notin d
      BY <1>4, <1>7, <3>1 DEF Good
    <3> QED
      BY <1>5, <3>1, <3>2 DEF Good
  <2>2. CASE x \in Pairs
    <3>1. x.k = "pair" /\ x.p \in Promise
      BY <2>2, RefSets
    <3>2. Prom(x.p) \in Traces(x)
      BY <3>1 DEF Traces
    <3>3. Lives(W, x.p) /\ x.n \in 1 .. W.gen[x.p] /\ Prom(x.p) \in Marked
      BY <1>2, <1>7, <3>1, <3>2 DEF Good
    <3>4. x.p \notin d
      BY <1>4, <3>1, <3>3
    <3>5. Lives(W', x.p) /\ W'.gen[x.p] = W.gen[x.p]
      BY <1>5, <3>1, <3>3, <3>4
    <3> QED
      BY <3>1, <3>3, <3>5 DEF Good
  <2>3. CASE x \in Elems
    <3>1. x.k = "elem"
      BY <2>3, RefSets
    <3>2. W.comb.kind # "none" /\ x.i \in 1 .. W.comb.at
      BY <1>7, <3>1 DEF Good
    <3>3. Prom(comb.result) \in Traces(x)
      BY <1>1, <3>1, <3>2 DEF Traces, Held
    <3>4. comb.result \in Promise /\ Good(W, CapPair(comb))
      BY <1>1, <3>2, CombParts
    <3>5. Lives(W, comb.result)
      BY <3>4, RefKinds DEF Good, CapPair
    <3>6. comb.result \notin d
      BY <1>2, <1>4, <3>3, <3>4, <3>5
    <3>7. W'.comb.kind = W.comb.kind /\ W'.comb.at = W.comb.at
      BY <1>1, <3>6 DEF Swept
    <3> QED
      BY <3>1, <3>2, <3>7 DEF Good
  <2>4. CASE x \notin Proms \cup Pairs \cup Elems
    <3>1. x \in Plain \cup {Js, Thenable, BadThen}
      BY <1>7, <2>4 DEF Ref, Value
    <3>2. x.k \notin {"promise", "pair", "elem"}
      BY <3>1, RefKinds, RefSets
    <3> QED
      BY <3>2 DEF Good
  <2> QED
    BY <2>1, <2>2, <2>3, <2>4
<1> QED
  BY <1>3, <1>6, <1>7 DEF Reached

LEMMA CollectKeeps == JobInv /\ Collect => JobInv'
<1> SUFFICES ASSUME JobInv, Collect PROVE JobInv'
  OBVIOUS
<1>1. PICK d \in SUBSET Promise :
           /\ d = {p \in Promise : st[p].state # "free" /\ Prom(p) \notin Marked}
           /\ Swept(W, W', d) /\ ran' = [p \in Promise |-> IF p \in d THEN 0 ELSE ran[p]]
           /\ UNCHANGED <<run, held, ops>>
  BY CollectSweeps
<1>2. Reached(W, W', Marked)
  BY <1>1, CollectReaches
<1>3. Inv(W, Hand, ran) /\ W \in World /\ Fit(W) /\ Sound(W) /\ Once(W, Hand) /\ Ordered(W, ran)
      /\ ran \in [Promise -> Nat]
  BY InvParts DEF Inv
<1>4. Hand' = Hand
  BY <1>1 DEF Hand
<1>5. Roots \subseteq Marked
  BY MarkedFacts
<1>6. run # NoRun => run \in Job /\ run.kind # "none" /\ JobRoots(run) \subseteq Marked
                     /\ \A x \in JobRoots(run) : x \in Ref /\ Good(W', x)
  <2>1. ASSUME run # NoRun
        PROVE  run \in Job /\ run.kind # "none" /\ JobRoots(run) \subseteq Marked
               /\ \A x \in JobRoots(run) : x \in Ref /\ Good(W', x)
    <3>1. run \in Job /\ \A x \in JobRoots(run) : Good(W, x)
      BY <2>1 DEF JobInv, ScriptOK
    <3>2. run.kind # "none" /\ JobRoots(run) \subseteq Ref
      BY <3>1, JobFacts
    <3>3. JobRoots(run) \subseteq Marked
      BY <1>5, <3>2 DEF Roots, InFlight
    <3> QED
      BY <1>2, <3>1, <3>2, <3>3 DEF Reached
  <2> QED
    BY <2>1
<1>7. ASSUME NEW x \in Hand PROVE x.p \notin d
  <2>1. run.kind = "react" /\ x = run.r.result /\ run # NoRun
    BY DEF Hand, NoRun
  <2>2. x \in JobRoots(run) /\ x \in Proms
    BY <1>3, <1>6, <2>1 DEF JobRoots, Once
  <2>3. x \in Marked /\ x = Prom(x.p)
    BY <1>6, <2>1, <2>2, RefSets
  <2> QED
    BY <1>1, <2>3
<1>8. Fit(W') /\ Sound(W') /\ Once(W', Hand)
  BY <1>1, <1>2, <1>3, <1>7, SweptFit, SweptSound, SweptOnce
<1>9. Ordered(W', ran')
  <2>1. \A p \in Promise : ran'[p] = IF p \in d THEN 0 ELSE ran[p]
    BY <1>1
  <2> QED
    BY <1>1, <1>3, <2>1, SweptOrdered
<1>10. ran' \in [Promise -> Nat]
  BY <1>1, <1>3
<1>11. Inv(W', Hand', ran')
  BY <1>4, <1>8, <1>9, <1>10 DEF Inv
<1>12. \A x \in held : Good(W', x)
  <2>1. \A x \in held : x \in Marked
    BY <1>5 DEF Roots
  <2> QED
    BY <1>2, <2>1, InvParts DEF Reached
<1>13. ScriptOK'
  <2>1. /\ run' \in Job \cup {NoRun} /\ ops' \in 0 .. MaxOps
        /\ held' \subseteq Proms \cup Pairs \cup Elems
        /\ run'.kind = "react" => run'.r.result \in Proms
    BY <1>1 DEF JobInv, ScriptOK
  <2>2. \A x \in held' : Good(W', x)
    BY <1>1, <1>12
  <2>3. run' # NoRun => \A x \in JobRoots(run') : Good(W', x)
    BY <1>1, <1>6
  <2> QED
    BY <2>1, <2>2, <2>3 DEF ScriptOK, JobRoots, NoRun
<1> QED
  BY <1>11, <1>13 DEF JobInv

LEMMA InitInv == Init => JobInv
<1> SUFFICES ASSUME Init PROVE JobInv
  OBVIOUS
<1>1. /\ W.st = [p \in Promise |-> Free] /\ W.jobs = <<>> /\ W.open = {} /\ W.gen = [p \in Promise |-> 0]
      /\ W.comb = NoComb /\ W.cnt = [p \in Promise |-> 0] /\ W.follows = [p \in Promise |-> Nothing]
  BY DEF Init, W
<1>2. /\ ran = [p \in Promise |-> 0] /\ run = NoRun /\ run.kind = "none" /\ held = {} /\ ops = 0 /\ Hand = {}
  BY DEF Init, NoRun, Hand
<1>3. W \in World
  <2>1. Free \in Cell
    BY DEF Free, Cell, Plain
  <2>2. <<>> \in Seq(Job)
    OBVIOUS
  <2>3. W = [st |-> W.st, jobs |-> W.jobs, open |-> W.open, gen |-> W.gen, comb |-> W.comb, cnt |-> W.cnt,
             follows |-> W.follows]
    BY DEF W
  <2>4. /\ W.st \in [Promise -> Cell] /\ W.jobs \in Seq(Job) /\ W.open \in SUBSET Pairs
        /\ W.gen \in [Promise -> Nat] /\ W.cnt \in [Promise -> Nat]
        /\ W.follows \in [Promise -> Proms \cup {Nothing, Thenable}]
    BY <1>1, <2>1, <2>2
  <2>5. W.comb \in Call0
    BY <1>1, NoCombFits
  <2> QED
    BY <2>3, <2>4, <2>5 DEF World
<1>4. \A p \in Promise : W.st[p] = Free /\ W.st[p].state = "free" /\ W.st[p].handlers = <<>> /\ W.gen[p] = 0
                         /\ W.cnt[p] = 0 /\ W.follows[p] = Nothing /\ ran[p] = 0
  BY <1>1, <1>2 DEF Free
<1>5. W.comb.kind = "none" /\ W.comb.at = 0 /\ W.comb.phase = "none"
  BY <1>1 DEF NoComb
<1>6. DOMAIN W.jobs = {} /\ \A p \in Promise : DOMAIN W.st[p].handlers = {}
  BY <1>1, <1>4
<1>7. Fit(W)
  BY <1>3, <1>4, <1>5 DEF Fit
<1>8. Sound(W)
  BY <1>1, <1>4, <1>5, <1>6, RefKinds DEF Sound, Good
<1>9. Once(W, Hand)
  BY <1>1, <1>2, <1>6 DEF Once
<1>10. Ordered(W, ran)
  BY <1>4 DEF Ordered, OrderedAt
<1>11. ScriptOK
  BY <1>2, PromiseAssumption DEF ScriptOK
<1> QED
  BY <1>2, <1>7, <1>8, <1>9, <1>10, <1>11 DEF JobInv, Inv

LEMMA NextKeeps == JobInv /\ [Next]_vars => JobInv'
<1> SUFFICES ASSUME JobInv, [Next]_vars PROVE JobInv'
  OBVIOUS
<1>1. CASE NewPromise
  BY <1>1, NewPromiseKeeps
<1>2. CASE Call
  BY <1>2, CallKeeps
<1>3. CASE Then
  BY <1>3, ThenActionKeeps
<1>4. CASE Drop
  BY <1>4, DropKeeps
<1>5. CASE Collect
  BY <1>5, CollectKeeps
<1>6. CASE \E kind \in Kinds : CombStart(kind)
  BY <1>6, CombStartKeeps
<1>7. CASE CombNext
  BY <1>7, CombNextKeeps
<1>8. CASE CombThrow
  BY <1>8, CombThrowKeeps
<1>9. CASE CombEnd
  BY <1>9, CombEndKeeps
<1>10. ASSUME NEW j \in {jobs[i] : i \in 1 .. (IF jobs = <<>> THEN 0 ELSE 1)},
              Pass(j) \/ React(j) \/ ReactJs(j) \/ Adopt(j) \/ AdoptJs(j)
       PROVE  JobInv'
  <2>1. j = jobs[1]
    <3>1. PICK i \in 1 .. (IF jobs = <<>> THEN 0 ELSE 1) : j = jobs[i]
      OBVIOUS
    <3>2. i = 1
      BY <3>1
    <3> QED
      BY <3>1, <3>2
  <2> QED
    BY <1>10, <2>1, PassKeeps, ReactKeeps, ReactJsKeeps, AdoptKeeps, AdoptJsKeeps
<1>11. CASE Return
  BY <1>11, ReturnKeeps
<1>12. CASE Throw
  BY <1>12, ThrowKeeps
<1>13. CASE UNCHANGED vars
  BY <1>13 DEF vars, world, JobInv, ScriptOK, W, Hand
<1> QED
  BY <1>1, <1>2, <1>3, <1>4, <1>5, <1>6, <1>7, <1>8, <1>9, <1>10, <1>11, <1>12, <1>13 DEF Next

-----------------------------------------------------------------------------
(* What the invariant shows. *)

(* The world is sound at every step of the script, of a job and of the       *)
(* collector: nothing that is gone is referred to, what can settle a promise *)
(* is alone in that, and the reactions are where their promise says.         *)
THEOREM JobInvariance == Spec => []JobInv
<1>1. Init => JobInv
  BY InitInv
<1>2. JobInv /\ [Next]_vars => JobInv'
  BY NextKeeps
<1> QED
  BY <1>1, <1>2, PTL DEF Spec

LEMMA JobInvDecides == JobInv => DecidedOnce
<1> SUFFICES ASSUME JobInv, NEW p \in Promise, Alive(p)
             PROVE  /\ \A d, e \in Deciders(p) : d = e
                    /\ Deciders(p) # {} => st[p].state = "pending"
  BY DEF DecidedOnce
<1>1. /\ W \in World /\ W.st = st /\ W.jobs = jobs /\ W.open = open /\ Once(W, Hand)
  BY InvParts, WorldFields DEF Inv
<1> DEFINE A == {<<"function", f>> : f \in {g \in open : g.p = p}}
           B == {<<"job", i>> : i \in {n \in DOMAIN jobs : IF jobs[n].kind = "adopt" THEN jobs[n].p = p
                                                         ELSE jobs[n].r.result = Prom(p)}}
           C == UNION {{<<"handler", <<q, i>>>> :
                  i \in {n \in DOMAIN st[q].handlers : st[q].handlers[n].result = Prom(p)}} : q \in Promise}
           D == {<<"running", r>> : r \in IF run.kind = "react" /\ run.r.result = Prom(p) THEN {run} ELSE {}}
<1>2. Deciders(p) = A \cup B \cup C \cup D
  BY DEF Deciders
<1>3. Prom(p).p = p /\ Prom(p) # Nothing
  BY RefKinds
<1>4. ASSUME NEW x \in A PROVE \E f \in open : x = <<"function", f>> /\ f.p = p
  OBVIOUS
<1>5. ASSUME NEW x \in B PROVE \E i \in DOMAIN jobs : x = <<"job", i>> /\ Target(jobs[i]) = Prom(p)
  BY DEF Target
<1>6. ASSUME NEW x \in C
      PROVE  \E q \in Promise : \E i \in DOMAIN st[q].handlers : /\ x = <<"handler", <<q, i>>>>
                                                                 /\ st[q].handlers[i].result = Prom(p)
  OBVIOUS
<1>7. ASSUME NEW x \in D PROVE x = <<"running", run>> /\ Prom(p) \in Hand
  BY DEF Hand
<1> HIDE DEF A, B, C, D
<1>8. (\E f \in open : f.p = p) => /\ st[p].state = "pending" /\ Prom(p) \notin Hand
                                   /\ \A i \in DOMAIN jobs : Target(jobs[i]) # Prom(p)
                                   /\ \A q \in Promise : \A i \in DOMAIN st[q].handlers :
                                        st[q].handlers[i].result # Prom(p)
  BY <1>1 DEF Once
<1>9. (\E i \in DOMAIN jobs : Target(jobs[i]) = Prom(p)) =>
         /\ st[p].state = "pending" /\ Prom(p) \notin Hand
         /\ \A q \in Promise : \A i \in DOMAIN st[q].handlers : st[q].handlers[i].result # Prom(p)
  BY <1>1, <1>3 DEF Once
<1>10. (\E q \in Promise : \E i \in DOMAIN st[q].handlers : st[q].handlers[i].result = Prom(p)) =>
         st[p].state = "pending" /\ Prom(p) \notin Hand
  BY <1>1, <1>3 DEF Once
<1>11. Prom(p) \in Hand => st[p].state = "pending"
  BY <1>1, <1>3 DEF Once
<1>12. Deciders(p) # {} => st[p].state = "pending"
  BY <1>2, <1>4, <1>5, <1>6, <1>7, <1>8, <1>9, <1>10, <1>11
<1>13. \A d, e \in A : d = e
  BY <1>1, <1>4 DEF Once
<1>14. \A d, e \in B : d = e
  <2> SUFFICES ASSUME NEW d \in B, NEW e \in B PROVE d = e
    OBVIOUS
  <2>1. PICK i \in DOMAIN jobs : d = <<"job", i>> /\ Target(jobs[i]) = Prom(p)
    BY <1>5
  <2>2. PICK j \in DOMAIN jobs : e = <<"job", j>> /\ Target(jobs[j]) = Prom(p)
    BY <1>5
  <2>3. i = j
    BY <1>1, <1>3, <2>1, <2>2 DEF Once
  <2> QED
    BY <2>1, <2>2, <2>3
<1>15. \A d, e \in C : d = e
  <2> SUFFICES ASSUME NEW d \in C, NEW e \in C PROVE d = e
    OBVIOUS
  <2>1. PICK q \in Promise : \E i \in DOMAIN st[q].handlers :
          d = <<"handler", <<q, i>>>> /\ st[q].handlers[i].result = Prom(p)
    BY <1>6
  <2>2. PICK i \in DOMAIN st[q].handlers : d = <<"handler", <<q, i>>>> /\ st[q].handlers[i].result = Prom(p)
    BY <2>1
  <2>3. PICK m \in Promise : \E j \in DOMAIN st[m].handlers :
          e = <<"handler", <<m, j>>>> /\ st[m].handlers[j].result = Prom(p)
    BY <1>6
  <2>4. PICK j \in DOMAIN st[m].handlers : e = <<"handler", <<m, j>>>> /\ st[m].handlers[j].result = Prom(p)
    BY <2>3
  <2>5. q = m /\ i = j
    BY <1>1, <1>3, <2>2, <2>4 DEF Once
  <2> QED
    BY <2>2, <2>4, <2>5
<1>16. \A d, e \in D : d = e
  BY <1>7
<1>17. /\ A # {} => B = {} /\ C = {} /\ D = {}
       /\ B # {} => C = {} /\ D = {}
       /\ C # {} => D = {}
  BY <1>4, <1>5, <1>6, <1>7, <1>8, <1>9, <1>10
<1> QED
  BY <1>2, <1>12, <1>13, <1>14, <1>15, <1>16, <1>17

(* A promise is decided once: of the resolve functions not yet called, the   *)
(* adoptions in the queue, the reactions waiting or queued and the running   *)
(* one, at most one can settle it, and none once it is settled               *)
(* (builtin_promise.go done, resolvePromise).                                *)
THEOREM Decided == Spec => []DecidedOnce
BY JobInvariance, JobInvDecides, PTL

LEMMA JobInvOrders == JobInv => RunsOnceInOrder
<1> SUFFICES ASSUME JobInv, NEW p \in Promise, Alive(p)
             PROVE  \E m \in ran[p] .. cnt[p] :
                      /\ {jobs[i].r.at : i \in Queued(p)} = ran[p] + 1 .. m
                      /\ \A i, j \in Queued(p) : i < j => jobs[i].r.at < jobs[j].r.at
                      /\ Len(st[p].handlers) = cnt[p] - m
                      /\ \A i \in DOMAIN st[p].handlers : st[p].handlers[i].at = m + i
  BY DEF RunsOnceInOrder
<1>1. /\ W \in World /\ Fit(W) /\ W.st = st /\ W.jobs = jobs /\ W.cnt = cnt /\ OrderedAt(W, ran, p)
      /\ ran \in [Promise -> Nat]
  BY InvParts, WorldFields DEF Inv, Ordered
<1>2. Queued(p) = From(W, p)
  BY <1>1 DEF Queued, From
<1>3. /\ cnt[p] \in Nat /\ ran[p] \in Nat /\ Len(st[p].handlers) \in Nat
      /\ DOMAIN st[p].handlers = 1 .. Len(st[p].handlers) /\ st[p].state \in {"free", "pending", "ful", "rej"}
  BY <1>1, WorldParts
<1>4. CASE st[p].state = "pending"
  <2>1. /\ ran[p] = 0 /\ Queued(p) = {} /\ Len(st[p].handlers) = cnt[p]
        /\ \A i \in DOMAIN st[p].handlers : st[p].handlers[i].at = i
    BY <1>1, <1>2, <1>4 DEF OrderedAt
  <2>2. 0 \in ran[p] .. cnt[p]
    BY <1>3, <2>1
  <2>3. {jobs[i].r.at : i \in Queued(p)} = ran[p] + 1 .. 0
    BY <2>1
  <2>4. Len(st[p].handlers) = cnt[p] - 0
    BY <1>3, <2>1
  <2>5. \A i \in DOMAIN st[p].handlers : st[p].handlers[i].at = 0 + i
    BY <1>3, <2>1
  <2> QED
    BY <2>1, <2>2, <2>3, <2>4, <2>5
<1>5. CASE st[p].state \in {"ful", "rej"}
  <2>1. /\ ran[p] <= cnt[p]
        /\ \A i \in Queued(p) : jobs[i].r.at \in ran[p] + 1 .. cnt[p]
        /\ \A i, j \in Queued(p) : i < j => jobs[i].r.at < jobs[j].r.at
        /\ \A n \in ran[p] + 1 .. cnt[p] : \E i \in Queued(p) : jobs[i].r.at = n
    BY <1>1, <1>2, <1>5 DEF OrderedAt
  <2>2. cnt[p] \in ran[p] .. cnt[p]
    BY <1>3, <2>1
  <2>3. {jobs[i].r.at : i \in Queued(p)} = ran[p] + 1 .. cnt[p]
    BY <2>1
  <2>4. st[p].handlers = <<>>
    BY <1>1, <1>5 DEF Fit
  <2>5. Len(st[p].handlers) = cnt[p] - cnt[p] /\ DOMAIN st[p].handlers = {}
    BY <1>3, <2>4
  <2> QED
    BY <2>1, <2>2, <2>3, <2>5
<1> QED
  BY <1>3, <1>4, <1>5, Zenon DEF Alive

(* The reactions of a promise run once each and in the order they were       *)
(* registered, whether before or after it settled: those queued are the next *)
(* ones in order and those waiting come after them (flushReactions,          *)
(* promiseThenCap).                                                          *)
THEOREM InOrder == Spec => []RunsOnceInOrder
BY JobInvariance, JobInvOrders, PTL

(* Of the combinators over arrays, what is used is traced.  Those over keys  *)
(* do not give holdCaptures their array.                                     *)
LEMMA UsesTraced ==
  ASSUME JobInv, Kinds \cap {"allKeyed", "allSettledKeyed"} = {}
  PROVE  /\ InUse \subseteq Roots
         /\ \A x \in Refs : Uses(x) \subseteq Traces(x)
<1>1. ASSUME NEW j \in Job PROVE JobUses(j) \subseteq JobRoots(j)
  BY DEF JobUses, JobRoots
<1>2. \A j \in Range(jobs) : j \in Job
  BY InvParts, WorldFields, WorldParts DEF Range
<1>3. run.kind # "none" => run \in Job
  BY DEF JobInv, ScriptOK, NoRun
<1>4. InUse \subseteq Roots
  BY <1>1, <1>2, <1>3 DEF InUse, Roots, InFlight
<1>5. ASSUME NEW x \in Refs PROVE Uses(x) \subseteq Traces(x)
  <2>1. CASE x.k = "elem" /\ comb.kind # "none"
    <3>1. comb.kind \notin {"allKeyed", "allSettledKeyed"}
      BY <2>1, CombParts
    <3>2. {Arr, CapPair(comb)} \subseteq Held(comb)
      BY <3>1 DEF Held
    <3> QED
      BY <2>1, <3>2 DEF Uses, Traces
  <2>2. CASE x.k = "pair"
    BY <2>2 DEF Uses, Traces
  <2>3. CASE x.k # "pair" /\ ~(x.k = "elem" /\ comb.kind # "none")
    BY <2>3 DEF Uses
  <2> QED
    BY <2>1, <2>2, <2>3
<1> QED
  BY <1>4, <1>5

LEMMA JobInvFinds ==
  ASSUME JobInv, Kinds \cap {"allKeyed", "allSettledKeyed"} = {}
  PROVE  UsedIsFound
<1> DEFINE e == [x \in Refs |-> Uses(x)]
<1>1. /\ Roots \subseteq Refs /\ Marked \subseteq Refs /\ Roots \subseteq Marked
      /\ \A x \in Marked : Traces(x) \subseteq Marked
  BY MarkedFacts
<1>2. InUse \subseteq Roots /\ \A x \in Refs : Uses(x) \subseteq Traces(x)
  BY UsesTraced
<1>3. e \in [Refs -> SUBSET Refs]
  BY <1>2, TracesAreRefs
<1>4. ClosedBy(Marked, e)
  BY <1>1, <1>2 DEF ClosedBy
<1>5. IsFiniteSet(Refs)
  BY GoodRefs
<1>6. Close(InUse, e) \subseteq Marked
  <2> HIDE DEF e
  <2>1. InUse \in SUBSET Refs /\ Marked \in SUBSET Refs /\ InUse \subseteq Marked
    BY <1>1, <1>2
  <2> QED
    BY <1>3, <1>4, <1>5, <2>1, CloseIsLeast
<1>7. Used = Close(InUse, e)
  BY DEF Used
<1> QED
  BY <1>6, <1>7 DEF UsedIsFound

(* Whatever the queued jobs, the running one and the built-ins the script    *)
(* can call will work with, a collection finds, as long as the script keeps  *)
(* to the combinators over arrays (job.roots, inFlight, holdCaptures,        *)
(* markFromRoots): of those over keys it does not hold.                      *)
THEOREM Found ==
  ASSUME Kinds \cap {"allKeyed", "allSettledKeyed"} = {}
  PROVE  Spec => []UsedIsFound
<1>1. JobInv => UsedIsFound
  BY JobInvFinds
<1> QED
  BY <1>1, JobInvariance, PTL

-----------------------------------------------------------------------------
(* Adoption.  X are the functions others than a reaction may call.           *)
(* A promise that follows another can be settled by a queued adoption of     *)
(* that one, or by a function that only reactions on that one call, and then *)
(* with its outcome; or it is settled so.                                    *)
Calls(r, f) == f \in {r.onF, r.onR}
TiedAt(w, T, X, p) ==
  LET q == w.follows[p].p
  IN  /\ w.st[p].state \in {"ful", "rej"} => w.st[q].state = w.st[p].state /\ w.st[q].val = w.st[p].val
      /\ Prom(p) \notin T
      /\ \A i \in DOMAIN w.jobs : Target(w.jobs[i]) = Prom(p) =>
           w.jobs[i].kind = "adopt" /\ w.jobs[i].v = w.follows[p]
      /\ \A m \in Promise : \A i \in DOMAIN w.st[m].handlers : w.st[m].handlers[i].result # Prom(p)
      /\ \A f \in w.open : f.p = p =>
           /\ f \notin X
           /\ \A m \in Promise : \A i \in DOMAIN w.st[m].handlers : Calls(w.st[m].handlers[i], f) => m = q
           /\ \A i \in DOMAIN w.jobs : w.jobs[i].kind = "react" /\ Calls(w.jobs[i].r, f) =>
                w.jobs[i].s = w.st[q].state /\ w.jobs[i].v = w.st[q].val
Tied(w, T, X) == \A p \in Promise : w.follows[p] \in Proms => TiedAt(w, T, X, p)

Others == held \cup (IF comb.kind = "none" THEN {} ELSE {CapPair(comb)})
               \cup (IF run.kind = "adopt" THEN {Pair(run.p, gen[run.p])} ELSE {})
AdoptInv == JobInv /\ Tied(W, Hand, Others)

(* A step of which p, which follows another, has nothing to fear. *)
Apart(u, p, j) ==
  /\ Target(j) # Prom(p)
  /\ \A f \in u.open : f.p = p /\ j.kind = "react" /\ Calls(j.r, f) =>
       j.s = u.st[u.follows[p].p].state /\ j.v = u.st[u.follows[p].p].val
Passes(w, u, p) ==
  LET q == w.follows[p].p
  IN  /\ u.follows[p] = w.follows[p]
      /\ u.st[p].state = w.st[p].state /\ u.st[p].val = w.st[p].val
      /\ w.st[q].state = "pending" \/ (u.st[q].state = w.st[q].state /\ u.st[q].val = w.st[q].val)
      /\ \A f \in u.open : f.p = p => f \in w.open
      /\ \A i \in DOMAIN u.jobs : (\E k \in DOMAIN w.jobs : u.jobs[i] = w.jobs[k]) \/ Apart(u, p, u.jobs[i])
      /\ \A m \in Promise : \A i \in DOMAIN u.st[m].handlers :
           \/ \E k \in DOMAIN w.st[m].handlers : u.st[m].handlers[i] = w.st[m].handlers[k]
           \/ /\ u.st[m].handlers[i].result # Prom(p)
              /\ \A f \in u.open : f.p = p /\ Calls(u.st[m].handlers[i], f) => m = q

LEMMA TiedStep ==
  ASSUME NEW w \in World, NEW u \in World, NEW T, NEW X, NEW p \in Promise, w.follows[p] \in Proms,
         TiedAt(w, T, X, p), Passes(w, u, p)
  PROVE  TiedAt(u, T, X, p)
<1> DEFINE q == w.follows[p].p
<1>1. q \in Promise /\ u.follows[p] = w.follows[p] /\ u.follows[p].p = q
  BY RefSets, SMTT(30) DEF Passes
<1>2. u.st[p].state = w.st[p].state /\ u.st[p].val = w.st[p].val
  BY SMTT(30) DEF Passes
<1>3. w.st[q].state = "pending" \/ (u.st[q].state = w.st[q].state /\ u.st[q].val = w.st[q].val)
  BY DEF Passes
<1>4. w.st[p].state \in {"ful", "rej"} => w.st[q].state = w.st[p].state /\ w.st[q].val = w.st[p].val
  BY DEF TiedAt
<1>5. u.st[p].state \in {"ful", "rej"} => u.st[q].state = u.st[p].state /\ u.st[q].val = u.st[p].val
  BY <1>2, <1>3, <1>4
<1>6. Prom(p) \notin T
  BY DEF TiedAt
<1>7. ASSUME NEW i \in DOMAIN u.jobs, Target(u.jobs[i]) = Prom(p)
      PROVE  u.jobs[i].kind = "adopt" /\ u.jobs[i].v = u.follows[p]
  <2>1. PICK k \in DOMAIN w.jobs : u.jobs[i] = w.jobs[k]
    BY <1>7, SMTT(30) DEF Passes, Apart
  <2> QED
    BY <1>1, <1>7, <2>1, SMTT(30) DEF TiedAt
<1>8. ASSUME NEW m \in Promise, NEW i \in DOMAIN u.st[m].handlers PROVE u.st[m].handlers[i].result # Prom(p)
  <2>1. CASE \E k \in DOMAIN w.st[m].handlers : u.st[m].handlers[i] = w.st[m].handlers[k]
    BY <2>1 DEF TiedAt
  <2> QED
    BY <2>1 DEF Passes
<1>9. ASSUME NEW f \in u.open, f.p = p
      PROVE  /\ f \notin X
             /\ \A m \in Promise : \A i \in DOMAIN u.st[m].handlers : Calls(u.st[m].handlers[i], f) => m = q
             /\ \A i \in DOMAIN u.jobs : u.jobs[i].kind = "react" /\ Calls(u.jobs[i].r, f) =>
                  u.jobs[i].s = u.st[q].state /\ u.jobs[i].v = u.st[q].val
  <2>1. f \in w.open
    BY <1>9 DEF Passes
  <2>2. f \notin X
    BY <1>9, <2>1, SMTT(30) DEF TiedAt
  <2>3. ASSUME NEW m \in Promise, NEW i \in DOMAIN u.st[m].handlers, Calls(u.st[m].handlers[i], f) PROVE m = q
    <3>1. CASE \E k \in DOMAIN w.st[m].handlers : u.st[m].handlers[i] = w.st[m].handlers[k]
      BY <1>9, <2>1, <2>3, <3>1 DEF TiedAt
    <3> QED
      BY <1>9, <2>3, <3>1 DEF Passes
  <2>4. ASSUME NEW i \in DOMAIN u.jobs, u.jobs[i].kind = "react", Calls(u.jobs[i].r, f)
        PROVE  u.jobs[i].s = u.st[q].state /\ u.jobs[i].v = u.st[q].val
    <3>1. ASSUME NEW k \in DOMAIN w.jobs, u.jobs[i] = w.jobs[k]
          PROVE  u.jobs[i].s = u.st[q].state /\ u.jobs[i].v = u.st[q].val
      <4>1. w.jobs[k].s = w.st[q].state /\ w.jobs[k].v = w.st[q].val
        BY <1>9, <2>1, <2>4, <3>1 DEF TiedAt
      <4>2. w.jobs[k].s \in {"ful", "rej"}
        BY <2>4, <3>1, WorldParts, JobFacts
      <4> QED
        BY <1>3, <3>1, <4>1, <4>2
    <3>2. CASE Apart(u, p, u.jobs[i])
      BY <1>1, <1>9, <2>4, <3>2 DEF Apart
    <3> QED
      BY <3>1, <3>2, Zenon DEF Passes
  <2> QED
    BY <2>2, <2>3, <2>4, SMTT(30)
<1> QED
  BY <1>1, <1>5, <1>6, <1>7, <1>8, <1>9 DEF TiedAt

(* A promise that starts to follow another, or settles as it did. *)
LEMMA TiedNew ==
  ASSUME NEW u \in World, NEW T, NEW X, NEW p \in Promise, Prom(p) \notin T, \A f \in u.open : f.p # p,
         \A m \in Promise : \A i \in DOMAIN u.st[m].handlers : u.st[m].handlers[i].result # Prom(p),
         \A i \in DOMAIN u.jobs : Target(u.jobs[i]) = Prom(p) =>
           u.jobs[i].kind = "adopt" /\ u.jobs[i].v = u.follows[p],
         u.st[p].state \in {"ful", "rej"} =>
           u.st[u.follows[p].p].state = u.st[p].state /\ u.st[u.follows[p].p].val = u.st[p].val
  PROVE  TiedAt(u, T, X, p)
BY DEF TiedAt

(* The outcome that p is to have is that of the promise it follows. *)
Agrees(w, p, s, v) ==
  w.follows[p] \in Proms => w.st[w.follows[p].p].state = s /\ w.st[w.follows[p].p].val = v

LEMMA TiedFlushed ==
  ASSUME NEW w \in World, NEW u \in World, NEW p \in Promise, NEW s \in {"ful", "rej"}, NEW v \in Plain, NEW T, NEW X,
         Flushed(w, u, p, s, v), Undecided(w, T, p), Tied(w, T, X), Agrees(w, p, s, v)
  PROVE  Tied(u, T, X)
<1>1. Moved(w, u, p, s, v) /\ u.follows = w.follows /\ u.open = w.open /\ w.st[p].state = "pending"
  BY FlushedJobs, ZenonT(40) DEF Flushed
<1>2. ASSUME NEW i \in DOMAIN u.jobs
      PROVE  \/ \E k \in DOMAIN w.jobs : u.jobs[i] = w.jobs[k]
             \/ \E k \in DOMAIN w.st[p].handlers :
                  u.jobs[i] = [kind |-> "react", r |-> w.st[p].handlers[k], s |-> s, v |-> v]
  <2>1. CASE i \in DOMAIN w.jobs
    BY <1>1, <2>1 DEF Moved
  <2>2. ASSUME NEW k \in DOMAIN w.st[p].handlers, i = Len(w.jobs) + k
        PROVE  u.jobs[i] = [kind |-> "react", r |-> w.st[p].handlers[k], s |-> s, v |-> v]
    BY <1>1, <2>2 DEF Moved
  <2>3. i \in DOMAIN w.jobs \/ \E k \in DOMAIN w.st[p].handlers : i = Len(w.jobs) + k
    BY <1>1 DEF Moved
  <2> QED
    BY <2>1, <2>2, <2>3, Zenon
<1>3. \A m \in Promise : \A i \in DOMAIN u.st[m].handlers :
        m # p /\ i \in DOMAIN w.st[m].handlers /\ u.st[m].handlers[i] = w.st[m].handlers[i]
  BY <1>1 DEF Moved
<1>4. (\A m \in Promise : m # p => u.st[m] = w.st[m]) /\ u.st[p].state = s /\ u.st[p].val = v
  BY <1>1 DEF Moved
<1>5. ASSUME u.follows[p] \in Proms PROVE TiedAt(u, T, X, p)
  <2>1. w.follows[p].p \in Promise /\ w.follows[p].p # p
    BY <1>1, <1>5, RefSets DEF Agrees
  <2>2. u.st[p].state \in {"ful", "rej"} =>
           u.st[u.follows[p].p].state = u.st[p].state /\ u.st[u.follows[p].p].val = u.st[p].val
    BY <1>1, <1>4, <1>5, <2>1 DEF Agrees
  <2>3. ASSUME NEW i \in DOMAIN u.jobs PROVE Target(u.jobs[i]) # Prom(p)
    <3>1. ASSUME NEW k \in DOMAIN w.st[p].handlers,
                 u.jobs[i] = [kind |-> "react", r |-> w.st[p].handlers[k], s |-> s, v |-> v]
          PROVE  Target(u.jobs[i]) # Prom(p)
      BY <3>1 DEF Target, Undecided
    <3>2. ASSUME NEW k \in DOMAIN w.jobs, u.jobs[i] = w.jobs[k] PROVE Target(u.jobs[i]) # Prom(p)
      BY <3>2 DEF Undecided
    <3> QED
      BY <1>2, <3>1, <3>2, Zenon
  <2>4. \A m \in Promise : \A i \in DOMAIN u.st[m].handlers : u.st[m].handlers[i].result # Prom(p)
    BY <1>3 DEF Undecided
  <2>5. Prom(p) \notin T /\ \A f \in u.open : f.p # p
    BY <1>1 DEF Undecided
  <2> QED
    BY <2>2, <2>3, <2>4, <2>5, TiedNew
<1>6. ASSUME NEW x \in Promise, x # p, u.follows[x] \in Proms PROVE TiedAt(u, T, X, x)
  <2> DEFINE q == w.follows[x].p
  <2>1. w.follows[x] \in Proms /\ TiedAt(w, T, X, x) /\ q \in Promise
    BY <1>1, <1>6, RefSets DEF Tied
  <2>2. w.st[q].state = "pending" \/ (u.st[q].state = w.st[q].state /\ u.st[q].val = w.st[q].val)
    BY <1>1, <1>4, <2>1
  <2>3. ASSUME NEW i \in DOMAIN u.jobs, NEW k \in DOMAIN w.st[p].handlers,
               u.jobs[i] = [kind |-> "react", r |-> w.st[p].handlers[k], s |-> s, v |-> v]
        PROVE  Apart(u, x, u.jobs[i])
    <3>1. Target(u.jobs[i]) # Prom(x)
      BY <2>1, <2>3 DEF Target, TiedAt
    <3>2. ASSUME NEW f \in u.open, f.p = x, Calls(w.st[p].handlers[k], f) PROVE p = q
      BY <1>1, <2>1, <3>2 DEF TiedAt
    <3>3. u.jobs[i].s = s /\ u.jobs[i].v = v /\ u.jobs[i].r = w.st[p].handlers[k]
      BY <2>3
    <3> QED
      BY <1>1, <1>4, <3>1, <3>2, <3>3 DEF Apart
  <2>4. Passes(w, u, x)
    BY <1>1, <1>2, <1>3, <1>4, <1>6, <2>2, <2>3, Zenon DEF Passes
  <2> QED
    BY <2>1, <2>4, TiedStep
<1> QED
  BY <1>5, <1>6 DEF Tied

LEMMA TiedKept ==
  ASSUME NEW w \in World, NEW u \in World, NEW T, NEW X, Tied(w, T, X),
         \A p \in Promise : u.follows[p] \in Proms => w.follows[p] \in Proms /\ Passes(w, u, p)
  PROVE  Tied(u, T, X)
BY TiedStep DEF Tied

LEMMA TiedSettle ==
  ASSUME NEW w, NEW T, NEW rn, Inv(w, T, rn), NEW X, Tied(w, T, X), NEW p \in Promise, Undecided(w, T, p),
         NEW s \in {"ful", "rej"}, NEW v \in Plain, w.st[p].state = "pending" => Agrees(w, p, s, v)
  PROVE  Tied(Settle(w, p, s, v), T, X)
<1> DEFINE u == Settle(w, p, s, v)
<1>1. w \in World
  BY DEF Inv, Fit
<1>2. u \in World /\ IF w.st[p].state = "pending" THEN Flushed(w, u, p, s, v) ELSE u = w
  BY <1>1, SettleParts
<1> HIDE DEF u
<1>3. Tied(u, T, X)
  <2>1. CASE w.st[p].state = "pending"
    BY <1>1, <1>2, <2>1, TiedFlushed
  <2>2. CASE w.st[p].state # "pending"
    BY <1>2, <2>2
  <2> QED
    BY <2>1, <2>2
<1> QED
  BY <1>3 DEF u

(* p is resolved with what the promise it follows was fulfilled with, if it  *)
(* follows one already.                                                      *)
LEMMA TiedResolve ==
  ASSUME NEW w, NEW T, NEW rn, Inv(w, T, rn), NEW X, Tied(w, T, X), NEW p \in Promise, Undecided(w, T, p),
         NEW v \in Value, Good(w, v),
         w.st[p].state = "pending" /\ w.follows[p] \in Proms => v \in Plain /\ Agrees(w, p, "ful", v)
  PROVE  Tied(Resolve(w, p, v), T, X)
<1>1. w \in World /\ Fit(w)
  BY DEF Inv, Fit
<1>2. CASE w.st[p].state # "pending"
  BY <1>2 DEF Resolve
<1>3. CASE w.st[p].state = "pending" /\ v \in {Prom(p), BadThen}
  <2>1. Data("err") \in Plain
    BY RefSets
  <2>2. v \notin Plain
    BY <1>3, RefSets, RefKinds
  <2>3. Agrees(w, p, "rej", Data("err"))
    BY <1>3, <2>2 DEF Agrees
  <2> QED
    BY <1>3, <2>1, <2>3, TiedSettle DEF Resolve
<1>4. CASE w.st[p].state = "pending" /\ v \notin {Prom(p), BadThen} /\ v.k \in {"promise", "thenable"}
  <2> DEFINE j == [kind |-> "adopt", p |-> p, v |-> v]
             u == [w EXCEPT !.jobs = Append(@, j), !.follows[p] = v]
  <2>1. Resolve(w, p, v) = u
    BY <1>4 DEF Resolve
  <2>2. v \in Proms \cup {Thenable} /\ v \notin Plain
    BY <1>4, RefSets, RefKinds DEF Value
  <2>3. j \in Job
    BY <2>2 DEF Job, AdoptJob
  <2>4. Target(j) = Prom(p) /\ j.kind = "adopt" /\ j.v = v
    BY DEF Target
  <2> HIDE DEF j
  <2>5. Queues(w, u, j) /\ u.follows = [w.follows EXCEPT ![p] = v]
    BY <1>1 DEF Queues, World
  <2>6. u \in World
    <3>1. Append(w.jobs, j) \in Seq(Job) /\ [w.follows EXCEPT ![p] = v] \in [Promise -> Proms \cup {Nothing, Thenable}]
      BY <1>1, <2>2, <2>3, WorldParts
    <3> QED
      BY <1>1, <3>1, Zenon DEF World
  <2> HIDE DEF u
  <2>7. /\ u.st = w.st /\ u.open = w.open /\ u.follows[p] = v
        /\ \A x \in Promise : x # p => u.follows[x] = w.follows[x]
    BY <1>1, <2>5, WorldParts DEF Queues
  <2>8. /\ \A i \in DOMAIN w.jobs : u.jobs[i] = w.jobs[i]
        /\ \A i \in DOMAIN u.jobs : i \in DOMAIN w.jobs \/ u.jobs[i] = j
    BY <1>1, <2>3, <2>5, QueuesJobs
  <2>9. TiedAt(u, T, X, p)
    <3>1. \A i \in DOMAIN u.jobs : Target(u.jobs[i]) = Prom(p) => u.jobs[i].kind = "adopt" /\ u.jobs[i].v = u.follows[p]
      BY <2>4, <2>7, <2>8 DEF Undecided
    <3>2. /\ Prom(p) \notin T /\ \A f \in u.open : f.p # p
          /\ \A m \in Promise : \A i \in DOMAIN u.st[m].handlers : u.st[m].handlers[i].result # Prom(p)
      BY <2>7 DEF Undecided
    <3>3. u.st[p].state = "pending"
      BY <1>4, <2>7
    <3> QED
      BY <2>6, <3>1, <3>2, <3>3, TiedNew
  <2>10. ASSUME NEW x \in Promise, x # p, u.follows[x] \in Proms PROVE TiedAt(u, T, X, x)
    <3>1. Prom(p) # Prom(x)
      BY <2>10, RefKinds
    <3>2. Apart(u, x, j)
      BY <2>4, <3>1 DEF Apart
    <3>3. Passes(w, u, x)
      BY <2>7, <2>8, <2>10, <3>2 DEF Passes
    <3> QED
      BY <1>1, <2>6, <2>7, <2>10, <3>3, TiedStep DEF Tied
  <2> QED
    BY <2>1, <2>9, <2>10 DEF Tied
<1>5. CASE w.st[p].state = "pending" /\ v \notin {Prom(p), BadThen} /\ v.k \notin {"promise", "thenable"}
  <2>1. v \in Plain
    BY <1>5, RefSets, RefKinds DEF Value
  <2>2. Agrees(w, p, "ful", v)
    BY <1>5 DEF Agrees
  <2> QED
    BY <1>5, <2>1, <2>2, TiedSettle DEF Resolve
<1> QED
  BY <1>2, <1>3, <1>4, <1>5

LEMMA OneMore ==
  ASSUME NEW S, NEW a \in Seq(S), NEW x, NEW b, b = Append(a, x) \/ b = a \o <<x>>
  PROVE  \A i \in DOMAIN b : b[i] = x \/ \E k \in DOMAIN a : b[i] = a[k]
BY SMTT(30)

LEMMA TiedThen ==
  ASSUME NEW w, NEW T, NEW rn, Inv(w, T, rn), NEW X, Tied(w, T, X), NEW p \in Promise, Lives(w, p),
         NEW onF, NEW onR, NEW result,
         promiseThenCap(w, p, onF, onR, result) \in World,
         \A x \in Promise : w.follows[x] \in Proms =>
           /\ result # Prom(x)
           /\ \A f \in w.open : f.p = x /\ f \in {onF, onR} => p = w.follows[x].p
  PROVE  Tied(promiseThenCap(w, p, onF, onR, result), T, X)
<1> DEFINE r == [onF |-> onF, onR |-> onR, result |-> result, src |-> p, at |-> w.cnt[p] + 1]
           u == promiseThenCap(w, p, onF, onR, result)
           n == w.st[p].state
           c == [w.st[p] EXCEPT !.handlers = Append(@, r)]
           j == [kind |-> "react", r |-> r, s |-> w.st[p].state, v |-> w.st[p].val]
<1>1. w \in World /\ w.st \in [Promise -> Cell] /\ w.jobs \in Seq(Job)
  BY WorldParts DEF Inv, Fit
<1>2. r.result = result /\ r.onF = onF /\ r.onR = onR
  OBVIOUS
<1>3. j.kind = "react" /\ j.r = r /\ j.s = w.st[p].state /\ j.v = w.st[p].val /\ Target(j) = result
  BY DEF Target
<1>4. u.open = w.open /\ u.follows = w.follows
  BY <1>1 DEF promiseThenCap, World
<1>5. CASE n = "pending"
  <2>1. u.st = [w.st EXCEPT ![p] = c] /\ u.jobs = w.jobs
    BY <1>1, <1>5 DEF promiseThenCap, World
  <2>2. c.state = w.st[p].state /\ c.val = w.st[p].val /\ c.handlers = Append(w.st[p].handlers, r)
        /\ w.st[p].handlers \in Seq(Reaction)
    BY <1>1, WorldParts DEF Cell
  <2> HIDE DEF c, r, u, j
  <2>4. u.st[p] = c /\ \A m \in Promise : m # p => u.st[m] = w.st[m]
    BY <1>1, <2>1
  <2>5. \A m \in Promise : u.st[m].state = w.st[m].state /\ u.st[m].val = w.st[m].val
    BY <2>2, <2>4
  <2>6. \A m \in Promise : \A i \in DOMAIN u.st[m].handlers :
           (m = p /\ u.st[m].handlers[i] = r) \/ \E k \in DOMAIN w.st[m].handlers : u.st[m].handlers[i] = w.st[m].handlers[k]
    <3>1. u.st[p].handlers = Append(w.st[p].handlers, r) /\ w.st[p].handlers \in Seq(Reaction)
      BY <2>2, <2>4
    <3>2. \A i \in DOMAIN u.st[p].handlers :
            u.st[p].handlers[i] = r \/ \E k \in DOMAIN w.st[p].handlers : u.st[p].handlers[i] = w.st[p].handlers[k]
      BY <3>1, OneMore
    <3> QED
      BY <2>4, <3>2
  <2>7. ASSUME NEW x \in Promise, u.follows[x] \in Proms PROVE w.follows[x] \in Proms /\ Passes(w, u, x)
    <3>1. w.follows[x] \in Proms /\ w.follows[x].p \in Promise
      BY <1>4, <2>7, RefSets
    <3>2. \A f \in u.open : f.p = x /\ Calls(r, f) => p = w.follows[x].p
      BY <1>2, <1>4, <3>1 DEF Calls
    <3>3. r.result # Prom(x)
      BY <1>2, <3>1
    <3>4. \A m \in Promise : \A i \in DOMAIN u.st[m].handlers :
            \/ \E k \in DOMAIN w.st[m].handlers : u.st[m].handlers[i] = w.st[m].handlers[k]
            \/ /\ u.st[m].handlers[i].result # Prom(x)
               /\ \A f \in u.open : f.p = x /\ Calls(u.st[m].handlers[i], f) => m = w.follows[x].p
      BY <2>6, <3>2, <3>3, SMTT(30)
    <3> QED
      BY <1>4, <2>1, <2>5, <3>1, <3>4 DEF Passes
  <2> QED
    BY <1>1, <2>7, TiedKept DEF u
<1>6. CASE n # "pending"
  <2>1. u.st = w.st /\ u.jobs = w.jobs \o Reacts(<<r>>, w.st[p].state, w.st[p].val)
    BY <1>1, <1>6 DEF promiseThenCap, World
  <2>2. Reacts(<<r>>, w.st[p].state, w.st[p].val) = <<j>>
    BY DEF Reacts
  <2> HIDE DEF c, r, u, j
  <2>4. \A i \in DOMAIN u.jobs : u.jobs[i] = j \/ \E k \in DOMAIN w.jobs : u.jobs[i] = w.jobs[k]
    <3>1. u.jobs = w.jobs \o <<j>> /\ w.jobs \in Seq(Job)
      BY <1>1, <2>1, <2>2, Zenon
    <3> QED
      BY <3>1, OneMore
  <2>5. ASSUME NEW x \in Promise, u.follows[x] \in Proms PROVE w.follows[x] \in Proms /\ Passes(w, u, x)
    <3>1. w.follows[x] \in Proms /\ w.follows[x].p \in Promise
      BY <1>4, <2>5, RefSets
    <3>2. Apart(u, x, j)
      BY <1>2, <1>3, <1>4, <2>1, <3>1 DEF Apart, Calls
    <3> QED
      BY <1>4, <2>1, <2>4, <3>1, <3>2, Zenon DEF Passes
  <2> QED
    BY <1>1, <2>5, TiedKept DEF u
<1> QED
  BY <1>5, <1>6

(* A call of f settles a promise that follows another as that one is. *)
Answers(w, f, ok, v) ==
  f \in w.open /\ w.follows[f.p] \in Proms =>
    v \in Plain /\ Agrees(w, f.p, IF ok THEN "ful" ELSE "rej", v)

LEMMA TiedCallPair ==
  ASSUME NEW w, NEW T, NEW rn, Inv(w, T, rn), NEW X, Tied(w, T, X), NEW f \in Pairs, NEW ok \in BOOLEAN,
         NEW v \in Value, Good(w, v), ok \/ v \in Plain, Answers(w, f, ok, v)
  PROVE  Tied(CallPair(w, f, ok, v), T, X)
<1> DEFINE u == [w EXCEPT !.open = @ \ {f}]
<1>1. w \in World
  BY DEF Inv, Fit
<1>2. CASE f \notin w.open
  BY <1>2 DEF CallPair
<1>3. CASE f \in w.open
  <2>1. Inv(u, T, rn) /\ Later(w, u) /\ Undecided(u, T, f.p) /\ f.p \in Promise
    BY <1>3, ShutKeeps
  <2>2. u.st = w.st /\ u.jobs = w.jobs /\ u.open \subseteq w.open /\ u.follows = w.follows
    BY <1>1 DEF World
  <2>3. CallPair(w, f, ok, v) = IF ok THEN Resolve(u, f.p, v) ELSE Settle(u, f.p, "rej", v)
    BY <1>3 DEF CallPair
  <2> HIDE DEF u
  <2>4. u \in World
    BY <2>1 DEF Inv, Fit
  <2>5. Good(u, v)
    BY <1>1, <2>1, <2>4, GoodLater DEF Ref
  <2>6. Tied(u, T, X)
    <3>1. \A p \in Promise : u.follows[p] \in Proms => w.follows[p] \in Proms /\ Passes(w, u, p)
      BY <2>2 DEF Passes
    <3> QED
      BY <1>1, <2>4, <3>1, TiedKept
  <2>7. CASE ok
    <3>1. u.follows[f.p] \in Proms => v \in Plain /\ Agrees(u, f.p, "ful", v)
      BY <1>3, <2>2, <2>7 DEF Answers, Agrees
    <3> QED
      BY <2>1, <2>3, <2>5, <2>6, <2>7, <3>1, TiedResolve
  <2>8. CASE ~ ok
    <3>1. Agrees(u, f.p, "rej", v)
      BY <1>3, <2>2, <2>8 DEF Answers, Agrees
    <3> QED
      BY <2>1, <2>3, <2>6, <2>8, <3>1, TiedSettle
  <2> QED
    BY <2>7, <2>8
<1> QED
  BY <1>2, <1>3

(* A change of the combinator's variables. *)
LEMMA TiedSame ==
  ASSUME NEW w \in World, NEW u \in World, NEW T, NEW X, Tied(w, T, X),
         u.st = w.st, u.jobs = w.jobs, u.open = w.open, u.follows = w.follows
  PROVE  Tied(u, T, X)
<1>1. \A p \in Promise : u.follows[p] \in Proms => w.follows[p] \in Proms /\ Passes(w, u, p)
  BY DEF Passes
<1> QED
  BY <1>1, TiedKept

(* The result's own functions are in X: what they settle follows no promise. *)
LEMMA TiedTryFinish ==
  ASSUME NEW w, NEW T, NEW rn, Inv(w, T, rn), NEW X, Tied(w, T, X), w.comb.kind # "none", CapPair(w.comb) \in X
  PROVE  LET x == tryFinish(w)
         IN  Tied(x, T, X) /\ x.comb.kind = w.comb.kind /\ x.comb.result = w.comb.result
<1> DEFINE x == tryFinish(w)
<1>1. PICK u : /\ Inv(u, T, rn) /\ u \in World /\ w \in World /\ CapPair(u.comb) \in Pairs
               /\ u.st = w.st /\ u.jobs = w.jobs /\ u.open = w.open /\ u.follows = w.follows
               /\ u.comb.kind = w.comb.kind /\ u.comb.result = w.comb.result
               /\ x = u \/ \E ok \in BOOLEAN : x = CallPair(u, CapPair(u.comb), ok, Arr)
  BY tryFinishParts
<1> HIDE DEF x
<1>2. Tied(u, T, X)
  BY <1>1, TiedSame
<1>3. Arr \in Value /\ Arr \in Plain /\ Good(u, Arr)
  BY RefSets, RefKinds DEF Value, Good
<1>4. CASE x = u
  BY <1>1, <1>2, <1>4 DEF x
<1>5. ASSUME NEW ok \in BOOLEAN, x = CallPair(u, CapPair(u.comb), ok, Arr)
      PROVE  Tied(x, T, X) /\ x.comb.kind = w.comb.kind /\ x.comb.result = w.comb.result
  <2>1. Answers(u, CapPair(u.comb), ok, Arr)
    <3>1. ASSUME CapPair(u.comb) \in u.open, u.follows[CapPair(u.comb).p] \in Proms PROVE FALSE
      <4>1. CapPair(u.comb).p \in Promise /\ CapPair(u.comb) = CapPair(w.comb)
        BY <1>1, RefSets DEF CapPair
      <4> QED
        BY <1>2, <3>1, <4>1 DEF Tied, TiedAt
    <3> QED
      BY <3>1 DEF Answers
  <2>2. Tied(x, T, X)
    BY <1>1, <1>2, <1>3, <1>5, <2>1, TiedCallPair
  <2>3. x.comb = u.comb
    BY <1>1, <1>3, <1>5, CallPairKeeps
  <2> QED
    BY <1>1, <2>2, <2>3
<1> QED
  BY <1>1, <1>4, <1>5 DEF x

LEMMA TiedCallElem ==
  ASSUME NEW w, NEW T, NEW rn, Inv(w, T, rn), NEW X, Tied(w, T, X), NEW i \in {1, 2}, Good(w, Elem(i)),
         NEW ok \in BOOLEAN, NEW v \in Value, CapPair(w.comb) \in X
  PROVE  LET x == CallElem(w, i, ok, v)
         IN  Tied(x, T, X) /\ x.comb.kind = w.comb.kind /\ x.comb.result = w.comb.result
<1> DEFINE x == CallElem(w, i, ok, v)
<1>1. PICK u : /\ Inv(u, T, rn) /\ u \in World /\ w \in World
               /\ u.st = w.st /\ u.jobs = w.jobs /\ u.open = w.open /\ u.follows = w.follows
               /\ u.comb.kind = w.comb.kind /\ u.comb.result = w.comb.result /\ w.comb.kind # "none"
               /\ x = w \/ x = tryFinish(u)
  BY CallElemParts
<1> HIDE DEF x
<1>2. Tied(u, T, X)
  BY <1>1, TiedSame
<1>3. CapPair(u.comb) \in X /\ u.comb.kind # "none"
  BY <1>1 DEF CapPair
<1>4. ASSUME x = tryFinish(u)
      PROVE  Tied(x, T, X) /\ x.comb.kind = w.comb.kind /\ x.comb.result = w.comb.result
  BY <1>1, <1>2, <1>3, <1>4, TiedTryFinish
<1> QED
  BY <1>1, <1>4 DEF x

LEMMA TiedCallNative ==
  ASSUME NEW w, NEW T, NEW rn, Inv(w, T, rn), NEW X, Tied(w, T, X), NEW f \in Pairs \cup Elems, Good(w, f),
         NEW ok \in BOOLEAN, NEW v \in Value, Good(w, v), ok \/ v \in Plain,
         Answers(w, f, ok, v), w.comb.kind # "none" => CapPair(w.comb) \in X
  PROVE  LET x == CallNative(w, f, ok, v)
         IN  Tied(x, T, X) /\ x.comb.kind = w.comb.kind /\ x.comb.result = w.comb.result
<1>1. CASE f \in Pairs
  <2>1. f.k = "pair"
    BY <1>1, RefSets
  <2>2. CallNative(w, f, ok, v) = CallPair(w, f, ok, v)
    BY <2>1 DEF CallNative
  <2> QED
    BY <1>1, <2>2, TiedCallPair, CallPairKeeps
<1>2. CASE f \in Elems
  <2>1. f.k = "elem" /\ f.i \in {1, 2} /\ f = Elem(f.i)
    BY <1>2, RefSets
  <2>2. CallNative(w, f, ok, v) = CallElem(w, f.i, ok, v)
    BY <2>1 DEF CallNative
  <2>3. w.comb.kind # "none"
    BY <2>1 DEF Good
  <2> QED
    BY <2>1, <2>2, <2>3, TiedCallElem
<1> QED
  BY <1>1, <1>2

LEMMA TiedOther ==
  ASSUME NEW w, NEW T, NEW X, Tied(w, T, X), NEW T1, NEW X1,
         \A p \in Promise : w.follows[p] \in Proms => Prom(p) \notin T1 /\ \A f \in w.open : f.p = p /\ f \in X1 => f \in X
  PROVE  Tied(w, T1, X1)
<1> SUFFICES ASSUME NEW p \in Promise, w.follows[p] \in Proms PROVE TiedAt(w, T1, X1, p)
  BY DEF Tied
<1>1. TiedAt(w, T, X, p)
  BY DEF Tied
<1>2. Prom(p) \notin T1 /\ \A f \in w.open : f.p = p => f \notin X1
  BY <1>1 DEF TiedAt
<1> QED
  BY <1>1, <1>2 DEF TiedAt

(* A new function of p is nobody's yet. *)
LEMMA TiedNewPair ==
  ASSUME NEW w, NEW T, NEW rn, Inv(w, T, rn), NEW X, Tied(w, T, X), NEW p \in Promise,
         NewPair(w, p) \in World,
         w.follows[p] \in Proms => \A x \in X : Good(w, x)
  PROVE  Tied(NewPair(w, p), T, X)
<1> DEFINE f == Pair(p, w.gen[p] + 1)
           u == NewPair(w, p)
<1>1. w \in World /\ Sound(w) /\ w.gen \in [Promise -> Nat]
  BY WorldParts DEF Inv, Fit
<1>2. u.open = w.open \cup {f} /\ u.st = w.st /\ u.jobs = w.jobs /\ u.follows = w.follows
  BY <1>1 DEF World, NewPair
<1>3. f.p = p /\ ~ Good(w, f)
  <2>1. f.k = "pair" /\ f.p = p /\ f.n = w.gen[p] + 1 /\ w.gen[p] \in Nat
    BY <1>1, RefKinds
  <2> QED
    BY <2>1 DEF Good
<1> HIDE DEF f, u
<1>4. ASSUME NEW x \in Promise, x # p, u.follows[x] \in Proms PROVE TiedAt(u, T, X, x)
  <2>1. Passes(w, u, x)
    BY <1>2, <1>3, <1>4 DEF Passes
  <2> QED
    BY <1>1, <1>2, <1>4, <2>1, TiedStep DEF Tied, u
<1>5. ASSUME u.follows[p] \in Proms PROVE TiedAt(u, T, X, p)
  <2>1. TiedAt(w, T, X, p)
    BY <1>2, <1>5 DEF Tied
  <2>2. f \notin X
    BY <1>2, <1>3, <1>5
  <2>3. \A m \in Promise : \A i \in DOMAIN w.st[m].handlers : ~ Calls(w.st[m].handlers[i], f)
    BY <1>1, <1>3 DEF Sound, Calls
  <2>4. \A i \in DOMAIN w.jobs : ~ (w.jobs[i].kind = "react" /\ Calls(w.jobs[i].r, f))
    BY <1>1, <1>3 DEF Sound, Calls, JobRoots
  <2> QED
    BY <1>2, <1>5, <2>1, <2>2, <2>3, <2>4 DEF TiedAt
<1> QED
  BY <1>4, <1>5 DEF Tied, u

LEMMA TiedFresh ==
  ASSUME NEW w, NEW T, NEW rn, Inv(w, T, rn), NEW X, Tied(w, T, X), NEW p \in Promise, w.st[p].state = "free",
         [w EXCEPT !.st[p] = Fresh] \in World
  PROVE  LET u == [w EXCEPT !.st[p] = Fresh]
         IN  Tied(u, T, X) /\ u.follows[p] = Nothing
<1> DEFINE u == [w EXCEPT !.st[p] = Fresh]
<1>1. w \in World /\ Fit(w) /\ Sound(w) /\ w.st \in [Promise -> Cell]
  BY WorldParts DEF Inv, Fit
<1>2. u.st = [w.st EXCEPT ![p] = Fresh] /\ u.open = w.open /\ u.jobs = w.jobs /\ u.follows = w.follows
  BY <1>1 DEF World
<1>3. w.follows[p] = Nothing /\ Nothing \notin Proms
  BY <1>1, RefSets, RefKinds DEF Fit
<1>4. DOMAIN Fresh.handlers = {}
  BY DEF Fresh
<1>5. u.st[p] = Fresh /\ \A m \in Promise : m # p => u.st[m] = w.st[m]
  BY <1>1, <1>2
<1> HIDE DEF u
<1>6. ASSUME NEW x \in Promise, u.follows[x] \in Proms PROVE w.follows[x] \in Proms /\ Passes(w, u, x)
  <2>1. w.follows[x] \in Proms /\ x # p
    BY <1>2, <1>3, <1>6
  <2>2. w.follows[x].p \in Promise /\ w.follows[x].p # p
    BY <1>1, <2>1, RefSets, Zenon DEF Sound, Good, Lives
  <2>3. \A m \in Promise : \A i \in DOMAIN u.st[m].handlers :
          \E k \in DOMAIN w.st[m].handlers : u.st[m].handlers[i] = w.st[m].handlers[k]
    BY <1>4, <1>5
  <2> QED
    BY <1>2, <1>5, <2>1, <2>2, <2>3 DEF Passes
<1> QED
  BY <1>1, <1>2, <1>3, <1>6, TiedKept, Zenon DEF u

LEMMA TiedTake ==
  ASSUME NEW w, NEW T, NEW rn, Inv(w, T, rn), NEW X, Tied(w, T, X), w.jobs # <<>>,
         [w EXCEPT !.jobs = Tail(@)] \in World
  PROVE  Tied([w EXCEPT !.jobs = Tail(@)], T, X)
<1> DEFINE u == [w EXCEPT !.jobs = Tail(@)]
<1>1. w \in World
  BY DEF Inv, Fit
<1>2. u.st = w.st /\ u.jobs = Tail(w.jobs) /\ u.open = w.open /\ u.follows = w.follows
  BY <1>1 DEF World
<1> HIDE DEF u
<1>3. \A i \in DOMAIN u.jobs : i + 1 \in DOMAIN w.jobs /\ u.jobs[i] = w.jobs[i + 1]
  BY <1>1, <1>2, TailFacts
<1>4. \A p \in Promise : u.follows[p] \in Proms => w.follows[p] \in Proms /\ Passes(w, u, p)
  BY <1>2, <1>3 DEF Passes
<1> QED
  BY <1>1, <1>4, TiedKept, Zenon DEF u

LEMMA TiedSwept ==
  ASSUME NEW w \in World, NEW u, NEW d, Swept(w, u, d), NEW T, NEW X, Tied(w, T, X)
  PROVE  Tied(u, T, X)
<1>1. u \in World /\ u.jobs = w.jobs /\ u.open \subseteq w.open
  BY DEF Swept
<1>2. ASSUME NEW p \in Promise, u.follows[p] \in Proms PROVE w.follows[p] \in Proms /\ Passes(w, u, p)
  <2>1. p \notin d
    BY <1>2, RefSets, RefKinds DEF Swept
  <2>2. u.follows[p] = w.follows[p] /\ (\A q \in d : w.follows[p] # Prom(q)) /\ u.st[p] = w.st[p]
    BY <1>2, <2>1, RefSets, RefKinds DEF Swept
  <2>3. w.follows[p].p \in Promise /\ w.follows[p].p \notin d
    BY <1>2, <2>2, RefSets
  <2>4. u.st[w.follows[p].p] = w.st[w.follows[p].p]
    BY <2>3 DEF Swept
  <2>5. \A m \in Promise : \A i \in DOMAIN u.st[m].handlers :
          \E k \in DOMAIN w.st[m].handlers : u.st[m].handlers[i] = w.st[m].handlers[k]
    BY SweptHandlers
  <2> QED
    BY <1>1, <1>2, <2>2, <2>4, <2>5 DEF Passes
<1> QED
  BY <1>1, <1>2, TiedKept

(* A step that leaves the world as u: what it adds to the others, H, settles *)
(* no promise that follows another.                                          *)
LEMMA TiedStepKeeps ==
  ASSUME NEW u \in World, Becomes(u), NEW T, Tied(u, T, Others), NEW H, held' \subseteq held \cup H,
         \/ u.comb.kind = "none"
         \/ CapPair(u.comb) \in H
         \/ comb.kind # "none" /\ u.comb.result = comb.result,
         \/ run' = NoRun
         \/ run' # run /\ (run'.kind = "adopt" => Pair(run'.p, u.gen[run'.p]) \in H)
         \/ run' = run /\ (run.kind = "adopt" => u.gen[run.p] = gen[run.p]),
         \A h \in H : h \in u.open => u.follows[h.p] \notin Proms,
         \A x \in Hand' : x \in Proms => u.follows[x.p] \notin Proms
  PROVE  (Tied(W, Hand, Others))'
<1>1. W' = u /\ comb' = u.comb /\ gen' = u.gen
  BY BecomesWorld DEF Becomes
<1>2. ASSUME NEW x, x \in Others' PROVE x \in Others \cup H
  <2>1. CASE x \in held'
    BY <2>1 DEF Others
  <2>2. CASE comb'.kind # "none" /\ x = CapPair(comb')
    BY <1>1, <2>2 DEF Others, CapPair
  <2>3. CASE run'.kind = "adopt" /\ x = Pair(run'.p, gen'[run'.p])
    <3>1. run' # NoRun
      BY <2>3 DEF NoRun
    <3> QED
      BY <1>1, <2>3, <3>1 DEF Others
  <2> QED
    BY <1>2, <2>1, <2>2, <2>3 DEF Others, CapPair
<1>3. \A p \in Promise : Prom(p) \in Proms /\ Prom(p).p = p
  BY RefSets, RefKinds DEF Proms
<1>4. \A p \in Promise : u.follows[p] \in Proms =>
        Prom(p) \notin Hand' /\ \A f \in u.open : f.p = p /\ f \in Others' => f \in Others
  BY <1>2, <1>3
<1>5. Tied(u, Hand', Others')
  BY <1>4, TiedOther
<1> QED
  BY <1>1, <1>5

LEMMA AdoptParts ==
  ASSUME AdoptInv
  PROVE  /\ JobInv /\ Tied(W, Hand, Others) /\ W \in World /\ Inv(W, Hand, ran)
         /\ W.comb = comb /\ W.gen = gen /\ W.follows = follows /\ W.open = open
         /\ held \subseteq Others /\ (comb.kind # "none" => CapPair(comb) \in Others)
         /\ run.kind = "adopt" => run.p \in Promise /\ Lives(W, run.p) /\ Pair(run.p, gen[run.p]) \in Others
         /\ \A x \in Hand : x \in Proms => follows[x.p] \notin Proms
         /\ \A f \in Others : f \in open => follows[f.p] \notin Proms
<1>1. /\ JobInv /\ Tied(W, Hand, Others) /\ W \in World /\ Inv(W, Hand, ran)
      /\ W.comb = comb /\ W.gen = gen /\ W.follows = follows /\ W.open = open
  BY InvParts, WorldFields DEF AdoptInv
<1>2. /\ held \subseteq Others /\ (comb.kind # "none" => CapPair(comb) \in Others)
      /\ run.kind = "adopt" => Pair(run.p, gen[run.p]) \in Others
  BY DEF Others
<1>3. ASSUME run.kind = "adopt" PROVE run.p \in Promise /\ Lives(W, run.p)
  <2>1. run # NoRun /\ run \in Job /\ \A x \in JobRoots(run) : Good(W, x)
    BY <1>1, <1>3, NoJobRuns DEF JobInv, ScriptOK
  <2>2. run.p \in Promise /\ JobRoots(run) = {Prom(run.p), run.v}
    BY <1>3, <2>1, JobFacts
  <2> QED
    BY <2>1, <2>2, RefKinds DEF Good
<1>4. ASSUME NEW x \in Hand, x \in Proms PROVE follows[x.p] \notin Proms
  <2>1. x.p \in Promise /\ x = Prom(x.p)
    BY <1>4, RefSets
  <2> QED
    BY <1>1, <2>1 DEF Tied, TiedAt
<1>5. ASSUME NEW f \in Others, f \in open PROVE follows[f.p] \notin Proms
  <2>1. f.p \in Promise
    BY <1>1, <1>5, WorldParts, RefSets
  <2> QED
    BY <1>1, <1>5, <2>1 DEF Tied, TiedAt
<1> QED
  BY <1>1, <1>2, <1>3, <1>4, <1>5

LEMMA NewPromiseTied == AdoptInv /\ NewPromise => (Tied(W, Hand, Others))'
<1> SUFFICES ASSUME AdoptInv,
                    NEW p \in FreeCells, Becomes(NewPair([W EXCEPT !.st[p] = Fresh], p)),
                    held' = held \cup {Prom(p), Pair(p, 1)}, UNCHANGED <<run, ran>>
             PROVE  (Tied(W, Hand, Others))'
  BY DEF NewPromise
<1> DEFINE w == [W EXCEPT !.st[p] = Fresh]
           u == NewPair(w, p)
           H == {Prom(p), Pair(p, 1)}
<1>1. p \in Promise /\ W.st[p].state = "free" /\ From(W, p) = {}
  BY AdoptParts, InvParts
<1>2. /\ Inv(w, Hand, ran) /\ Undecided(w, Hand, p) /\ w.st[p].state = "pending"
      /\ w.comb = W.comb /\ w.gen = W.gen /\ w.follows = W.follows
  BY <1>1, AdoptParts, FreshKeeps
<1>3. w \in World
  BY <1>2 DEF Inv, Fit
<1>4. Tied(w, Hand, Others) /\ w.follows[p] = Nothing
  BY <1>1, <1>3, AdoptParts, TiedFresh
<1> HIDE DEF w
<1>5. Inv(u, Hand, ran) /\ u.comb = w.comb /\ u.follows = w.follows /\ u.gen = [w.gen EXCEPT ![p] = @ + 1]
  BY <1>1, <1>2, NewPairKeeps, SMTT(30)
<1>6. u \in World
  BY <1>5 DEF Inv, Fit
<1>7. Nothing \notin Proms
  BY RefSets, RefKinds
<1>8. Tied(u, Hand, Others)
  BY <1>1, <1>2, <1>4, <1>6, <1>7, TiedNewPair
<1> HIDE DEF u
<1>9. Becomes(u) /\ run' = run /\ Hand' = Hand /\ held' \subseteq held \cup H
  BY DEF u, w, Hand
<1>10. run.kind = "adopt" => u.gen[run.p] = gen[run.p]
  BY <1>1, <1>2, <1>3, <1>5, AdoptParts, WorldParts DEF Lives
<1>11. \A h \in H : h \in u.open => u.follows[h.p] \notin Proms
  <2>1. \A h \in H : h.p = p
    BY RefKinds
  <2> QED
    BY <1>4, <1>5, <1>7, <2>1
<1>12. \A x \in Hand' : x \in Proms => u.follows[x.p] \notin Proms
  BY <1>2, <1>5, <1>9, AdoptParts
<1>13. u.comb.kind = "none" \/ (comb.kind # "none" /\ u.comb.result = comb.result)
  BY <1>2, <1>5, AdoptParts
<1> HIDE DEF H
<1> QED
  BY <1>6, <1>8, <1>9, <1>10, <1>11, <1>12, <1>13, TiedStepKeeps

LEMMA CallTied == AdoptInv /\ Call => (Tied(W, Hand, Others))'
<1> SUFFICES ASSUME AdoptInv, NEW f \in held, NEW ok \in BOOLEAN, f.k \in {"pair", "elem"},
                    NEW v \in IF ok THEN Vals ELSE {Data("err")}, Becomes(CallNative(W, f, ok, v)),
                    UNCHANGED <<run, held, ran>>
             PROVE  (Tied(W, Hand, Others))'
  BY DEF Call
<1> DEFINE u == CallNative(W, f, ok, v)
<1>1. f \in Pairs \cup Elems /\ Good(W, f)
  <2>1. f \in Proms => f.k = "promise"
    BY RefSets
  <2> QED
    BY <2>1, AdoptParts, InvParts
<1>2. v \in Value /\ Good(W, v) /\ (ok \/ v \in Plain)
  <2>1. Data("a") \in Plain /\ Data("err") \in Plain
    BY DEF Plain
  <2>2. \A x \in Vals : x \in {Data("a"), Thenable} \/ (x \in held /\ x \in Value)
    BY AdoptParts, InvParts DEF Vals
  <2>3. \A x \in Vals : x \in Value /\ Good(W, x)
    BY <2>1, <2>2, AdoptParts, InvParts, PlainValues
  <2>4. CASE ok
    BY <2>3, <2>4
  <2>5. CASE ~ ok
    BY <2>1, <2>5, PlainValues
  <2> QED
    BY <2>4, <2>5
<1>3. Answers(W, f, ok, v)
  BY AdoptParts DEF Answers
<1>4. Inv(u, Hand, ran) /\ Later(W, u) /\ u.gen = W.gen
  BY <1>1, <1>2, AdoptParts, CallNativeKeeps
<1>5. Tied(u, Hand, Others) /\ u.comb.kind = W.comb.kind /\ u.comb.result = W.comb.result
  BY <1>1, <1>2, <1>3, AdoptParts, TiedCallNative
<1> HIDE DEF u
<1>6. u \in World
  BY <1>4 DEF Inv, Fit
<1>7. Becomes(u) /\ run' = run /\ Hand' = Hand /\ held' = held
  BY DEF u, Hand
<1>8. \A x \in Hand' : x \in Proms => u.follows[x.p] \notin Proms
  <2>1. Hand' \subseteq Proms /\ \A x \in Hand' : x = Prom(x.p) /\ x.p \in Promise
    BY <1>7, AdoptParts, RefSets DEF Inv, Once
  <2> QED
    BY <1>5, <1>7, <2>1 DEF Tied, TiedAt
<1>9. (u.comb.kind = "none" \/ (comb.kind # "none" /\ u.comb.result = comb.result)) /\ u.gen = gen
  BY <1>4, <1>5, AdoptParts
<1> DEFINE H == {}
<1>10. (\A h \in H : h \in u.open => u.follows[h.p] \notin Proms) /\ held' \subseteq held \cup H
  BY <1>7
<1> HIDE DEF H
<1> QED
  BY <1>5, <1>6, <1>7, <1>8, <1>9, <1>10, TiedStepKeeps, Zenon

LEMMA ThenTied == AdoptInv /\ Then => (Tied(W, Hand, Others))'
<1> SUFFICES ASSUME AdoptInv, NEW x \in held, NEW d \in FreeCells, NEW hs \in {<<Js, Nothing>>, <<Nothing, Js>>},
                    x.k = "promise",
                    Becomes(promiseThenCap([W EXCEPT !.st[d] = Fresh], x.p, hs[1], hs[2], Prom(d))),
                    held' = held \cup {Prom(d)}, UNCHANGED <<run, ran>>
             PROVE  (Tied(W, Hand, Others))'
  BY DEF Then
<1> DEFINE w == [W EXCEPT !.st[d] = Fresh]
           u == promiseThenCap(w, x.p, hs[1], hs[2], Prom(d))
<1>1. d \in Promise /\ W.st[d].state = "free" /\ From(W, d) = {} /\ x.p \in Promise /\ Lives(W, x.p)
  BY AdoptParts, InvParts
<1>2. /\ Inv(w, Hand, ran) /\ Later(W, w) /\ Undecided(w, Hand, d) /\ w.st[d].state = "pending"
      /\ w.comb = W.comb /\ w.gen = W.gen /\ w.follows = W.follows
  BY <1>1, AdoptParts, FreshKeeps
<1>3. w \in World
  BY <1>2 DEF Inv, Fit
<1>4. Tied(w, Hand, Others) /\ w.follows[d] = Nothing
  BY <1>1, <1>3, AdoptParts, TiedFresh
<1> HIDE DEF w
<1>5. hs[1] \in {Js, Nothing} /\ hs[2] \in {Js, Nothing} /\ Good(w, hs[1]) /\ Good(w, hs[2])
  BY RefKinds DEF Good
<1>6. Sole(w, Hand, Prom(d)) /\ Prom(d) \in Proms /\ Lives(w, x.p)
  BY <1>1, <1>2, RefKinds, RefSets DEF Sole, Later
<1>7. Inv(u, Hand, ran) /\ u.gen = w.gen /\ u.comb = w.comb /\ u.open = w.open
  BY <1>1, <1>2, <1>5, <1>6, ThenKeeps
<1>8. u \in World
  BY <1>7 DEF Inv, Fit
<1>9. Nothing \notin Proms /\ \A p \in Promise : Prom(p) = Prom(d) => p = d
  BY RefSets, RefKinds
<1>10. \A f \in w.open : f \notin {Js, Nothing}
  BY <1>3, WorldParts, RefSets, RefKinds
<1>11. Tied(u, Hand, Others)
  <2>1. \A p \in Promise : w.follows[p] \in Proms =>
          Prom(d) # Prom(p) /\ \A f \in w.open : f.p = p /\ f \in {hs[1], hs[2]} => x.p = w.follows[p].p
    BY <1>4, <1>5, <1>9, <1>10
  <2> QED
    BY <1>1, <1>2, <1>4, <1>6, <1>8, <2>1, TiedThen
<1>12. u.follows = w.follows
  BY <1>3 DEF promiseThenCap, World
<1> HIDE DEF u
<1>13. Becomes(u) /\ run' = run /\ Hand' = Hand /\ held' \subseteq held \cup {Prom(d)}
  BY DEF u, w, Hand
<1>14. \A y \in Hand' : y \in Proms => u.follows[y.p] \notin Proms
  BY <1>2, <1>12, <1>13, AdoptParts
<1>15. Prom(d) \notin u.open
  BY <1>8, WorldParts, RefSets, RefKinds, Zenon
<1>16. (u.comb.kind = "none" \/ (comb.kind # "none" /\ u.comb.result = comb.result)) /\ u.gen = gen
  BY <1>2, <1>7, AdoptParts
<1> QED
  BY <1>8, <1>11, <1>13, <1>14, <1>15, <1>16, TiedStepKeeps, ZenonT(40)

LEMMA DropTied == AdoptInv /\ Drop => (Tied(W, Hand, Others))'
<1> SUFFICES ASSUME AdoptInv, held' \subseteq held, UNCHANGED <<world, run, ran>> PROVE (Tied(W, Hand, Others))'
  BY DEF Drop
<1>1. Becomes(W) /\ run' = run /\ Hand' = Hand /\ held' \subseteq held \cup {}
  BY DEF Becomes, W, world, Hand
<1> QED
  BY <1>1, AdoptParts, TiedStepKeeps

LEMMA CombStartTied == ASSUME AdoptInv, NEW kind \in Kinds, CombStart(kind) PROVE (Tied(W, Hand, Others))'
<1>1. PICK p \in FreeCells, es \in [1 .. 2 -> {x \in held : x.k = "promise"} \cup {Nothing}] :
        /\ Becomes(NewPair([W EXCEPT !.st[p] = Fresh,
                                     !.comb = [NoComb EXCEPT !.kind = kind, !.result = p, !.elems = es,
                                                             !.remaining = 1, !.phase = "iter"]], p))
        /\ held' = held \cup {Prom(p)}
        /\ UNCHANGED <<run, ran>>
  BY Zenon DEF CombStart
<1> DEFINE c == [NoComb EXCEPT !.kind = kind, !.result = p, !.elems = es, !.remaining = 1, !.phase = "iter"]
           w == [W EXCEPT !.st[p] = Fresh]
           x == NewPair(w, p)
           u == [x EXCEPT !.comb = c]
           H == {Prom(p), Pair(p, 1)}
<1>2. p \in Promise /\ W.st[p].state = "free" /\ From(W, p) = {} /\ W \in World
  BY AdoptParts, InvParts
<1>3. /\ Inv(w, Hand, ran) /\ Undecided(w, Hand, p) /\ w.st[p].state = "pending"
      /\ w.gen = W.gen /\ w.follows = W.follows
  BY <1>2, AdoptParts, FreshKeeps
<1>4. w \in World
  BY <1>3 DEF Inv, Fit
<1>5. Tied(w, Hand, Others) /\ w.follows[p] = Nothing
  BY <1>2, <1>4, AdoptParts, TiedFresh
<1>6. NewPair([W EXCEPT !.st[p] = Fresh, !.comb = c], p) = u
  BY <1>2, Zenon DEF World, NewPair
<1>7. c.result = p
  BY DEF NoComb
<1> HIDE DEF w, c
<1>8. Inv(x, Hand, ran) /\ x.follows = w.follows /\ x.gen = [w.gen EXCEPT ![p] = @ + 1]
  BY <1>2, <1>3, NewPairKeeps
<1>9. x \in World
  BY <1>8 DEF Inv, Fit
<1>10. Nothing \notin Proms
  BY RefSets, RefKinds
<1>11. Tied(x, Hand, Others)
  BY <1>2, <1>3, <1>5, <1>9, <1>10, TiedNewPair
<1> HIDE DEF x
<1>12. u.st = x.st /\ u.jobs = x.jobs /\ u.open = x.open /\ u.follows = x.follows /\ u.gen = x.gen /\ u.comb = c
  BY <1>9 DEF World
<1> HIDE DEF u
<1>13. Becomes(u) /\ run' = run /\ Hand' = Hand /\ held' \subseteq held \cup H
  BY <1>1, <1>6 DEF c, Hand
<1>14. u \in World
  <2>1. JobInv'
    BY AdoptParts, CombStartKeeps
  <2>2. (W \in World)'
    BY <2>1 DEF JobInv, Inv, Fit
  <2>3. W' \in World /\ W'.comb = c
    BY <1>12, <1>13, <2>2 DEF Becomes, W
  <2>4. c \in Call0
    BY <2>3, WorldParts
  <2> QED
    BY <1>9, <2>4, Zenon DEF World, u
<1>15. Tied(u, Hand, Others)
  BY <1>9, <1>11, <1>12, <1>14, TiedSame
<1>16. CapPair(u.comb) \in H
  BY <1>7, <1>12 DEF CapPair
<1>17. run.kind = "adopt" => u.gen[run.p] = gen[run.p]
  BY <1>2, <1>3, <1>4, <1>8, <1>12, AdoptParts, WorldParts DEF Lives
<1>18. \A h \in H : h \in u.open => u.follows[h.p] \notin Proms
  <2>1. \A h \in H : h.p = p
    BY RefKinds
  <2> QED
    BY <1>5, <1>8, <1>10, <1>12, <2>1
<1>19. \A y \in Hand' : y \in Proms => u.follows[y.p] \notin Proms
  BY <1>3, <1>8, <1>12, <1>13, AdoptParts
<1> HIDE DEF H
<1> QED
  BY <1>13, <1>14, <1>15, <1>16, <1>17, <1>18, <1>19, TiedStepKeeps


(* A step that adds nothing to the others. *)
LEMMA TiedQuietStep ==
  ASSUME NEW u \in World, Becomes(u), NEW T, Tied(u, T, Others), held' = held,
         u.comb.kind = "none" \/ comb.kind # "none", u.comb.result = comb.result, u.gen = gen,
         run' = NoRun \/ (run' = run /\ \A p \in Promise : u.follows[p] \in Proms => Prom(p) \notin Hand)
  PROVE  (Tied(W, Hand, Others))'
<1> DEFINE H == {}
<1>1. (\A h \in H : h \in u.open => u.follows[h.p] \notin Proms) /\ held' \subseteq held \cup H
  OBVIOUS
<1>2. \A x \in Hand' : x \in Proms => u.follows[x.p] \notin Proms
  <2>1. CASE run' = NoRun
    BY <2>1 DEF Hand, NoRun
  <2>2. CASE run' = run /\ \A p \in Promise : u.follows[p] \in Proms => Prom(p) \notin Hand
    <3>1. Hand' = Hand
      BY <2>2 DEF Hand
    <3> QED
      BY <2>2, <3>1, RefSets
  <2> QED
    BY <2>1, <2>2
<1> HIDE DEF H
<1>3. \/ u.comb.kind = "none"
      \/ comb.kind # "none" /\ u.comb.result = comb.result
  OBVIOUS
<1>4. run' = NoRun \/ (run' = run /\ (run.kind = "adopt" => u.gen[run.p] = gen[run.p]))
  OBVIOUS
<1> QED
  BY <1>1, <1>2, <1>3, <1>4, TiedStepKeeps, Zenon

LEMMA CombNextTied == AdoptInv /\ CombNext => (Tied(W, Hand, Others))'
<1> SUFFICES ASSUME AdoptInv, CombNext PROVE (Tied(W, Hand, Others))'
  OBVIOUS
<1>1. JobInv /\ UNCHANGED <<run, ops, ran>> /\ comb.kind # "none"
  BY AdoptParts, CombNextParts
<1>2. PICK w, f, g :
        /\ Inv(w, Hand, ran) /\ Later(W, w) /\ w \in World /\ W \in World
        /\ w.st = W.st /\ w.jobs = W.jobs /\ w.open = W.open /\ w.follows = W.follows /\ w.gen = W.gen
        /\ w.comb.kind = comb.kind /\ w.comb.result = comb.result
        /\ \A x \in {f, g} : x \in {CapPair(comb), Elem(1), Elem(2)} /\ x \in Pairs \cup Elems /\ Good(w, x)
        /\ Gives(w, f, g)
  BY <1>1, CombNextParts, Zenon
<1>3. Tied(w, Hand, Others)
  BY <1>2, AdoptParts, TiedSame
<1>4. \A x \in {f, g} : x \in w.open => x \in Others /\ w.follows[x.p] \notin Proms
  <2>1. \A x \in w.open : x # Elem(1) /\ x # Elem(2)
    BY <1>2, WorldParts, RefSets, RefKinds
  <2> QED
    BY <1>1, <1>2, <2>1, AdoptParts
<1>5. CASE Becomes(w) /\ held' = held \cup {f, g}
  <2>1. \A x \in Hand' : x \in Proms => w.follows[x.p] \notin Proms
    BY <1>1, <1>2, AdoptParts DEF Hand
  <2>2. w.gen = gen /\ (comb.kind # "none" /\ w.comb.result = comb.result) /\ run' = run
    BY <1>1, <1>2, AdoptParts
  <2> DEFINE H == {f, g}
  <2>3. (\A h \in H : h \in w.open => w.follows[h.p] \notin Proms) /\ held' \subseteq held \cup H
    BY <1>4, <1>5
  <2> HIDE DEF H
  <2> QED
    BY <1>2, <1>3, <1>5, <2>1, <2>2, <2>3, TiedStepKeeps
<1>6. ASSUME NEW p \in Promise, Lives(w, p), Becomes(promiseThenCap(w, p, f, g, Nothing)), held' = held
      PROVE  (Tied(W, Hand, Others))'
  <2> DEFINE u == promiseThenCap(w, p, f, g, Nothing)
  <2>1. Sole(w, Hand, Nothing)
    BY DEF Sole
  <2>2. Inv(u, Hand, ran) /\ u.gen = w.gen /\ u.comb = w.comb
    BY <1>2, <1>6, <2>1, ThenKeeps
  <2>3. u \in World
    BY <2>2 DEF Inv, Fit
  <2>4. Tied(u, Hand, Others)
    <3>1. \A x \in Promise : w.follows[x] \in Proms =>
            Nothing # Prom(x) /\ \A h \in w.open : h.p = x /\ h \in {f, g} => p = w.follows[x].p
      BY <1>4, RefKinds
    <3> QED
      BY <1>2, <1>3, <1>6, <2>3, <3>1, TiedThen
  <2>5. Becomes(u)
    BY <1>6
  <2> HIDE DEF u
  <2>6. \A x \in Promise : u.follows[x] \in Proms => Prom(x) \notin Hand
    BY <2>4 DEF Tied, TiedAt
  <2>7. u.gen = gen /\ u.comb.result = comb.result
    BY <1>2, <2>2, AdoptParts
  <2> QED
    BY <1>1, <1>6, <2>3, <2>4, <2>5, <2>6, <2>7, TiedQuietStep
<1> QED
  BY <1>2, <1>5, <1>6 DEF Gives

LEMMA CombThrowTied == AdoptInv /\ CombThrow => (Tied(W, Hand, Others))'
<1> SUFFICES ASSUME AdoptInv, CombThrow PROVE (Tied(W, Hand, Others))'
  OBVIOUS
<1> DEFINE c == [comb EXCEPT !.phase = "thrown"]
           w == [W EXCEPT !.comb = c]
           x == CallPair(w, CapPair(comb), FALSE, Data("err"))
<1>1. comb.phase = "iter" /\ Becomes(x) /\ UNCHANGED <<run, held, ran>>
  <2>1. w = [W EXCEPT !.comb.phase = "thrown"]
    BY WorldFields DEF W
  <2> QED
    BY <2>1, Zenon DEF CombThrow
<1>2. /\ comb \in Call0 /\ comb.kind # "none" /\ comb.kind \in Kinds /\ comb.result \in Promise
      /\ Len(comb.elems) = 2 /\ Len(comb.res) = comb.at /\ comb.called \subseteq 1 .. comb.at
      /\ CapPair(comb) \in Pairs
  BY <1>1, AdoptParts, CombParts
<1>3. c.kind = comb.kind /\ c.result = comb.result /\ c.elems = comb.elems /\ c.at = comb.at /\ c.called = comb.called
      /\ c.res = comb.res /\ c.phase = "thrown" /\ c \in Call0
  BY <1>2, Zenon DEF Call0
<1> HIDE DEF c
<1>4. /\ Inv(w, Hand, ran) /\ w.gen = W.gen /\ w.comb = c
      /\ w.st = W.st /\ w.jobs = W.jobs /\ w.open = W.open /\ w.follows = W.follows
  <2>1. comb.at <= c.at
    BY <1>2, <1>3, CombFacts
  <2> QED
    BY <1>2, <1>3, <2>1, AdoptParts, CombKeeps
<1> HIDE DEF w
<1>5. w \in World
  BY <1>4 DEF Inv, Fit
<1>6. Tied(w, Hand, Others)
  BY <1>4, <1>5, AdoptParts, TiedSame
<1>7. Data("err") \in Plain /\ Data("err") \in Value /\ Good(w, Data("err"))
  BY RefSets, PlainValues
<1>8. Answers(w, CapPair(comb), FALSE, Data("err"))
  BY <1>2, <1>4, AdoptParts DEF Answers
<1>9. Tied(x, Hand, Others)
  BY <1>2, <1>4, <1>6, <1>7, <1>8, TiedCallPair, Zenon
<1>10. Inv(x, Hand, ran) /\ x.gen = gen /\ x.comb = c
  BY <1>2, <1>4, <1>7, AdoptParts, CallPairKeeps, ZenonT(40)
<1> HIDE DEF x
<1>11. x \in World
  BY <1>10 DEF Inv, Fit
<1>12. \A p \in Promise : x.follows[p] \in Proms => Prom(p) \notin Hand
  BY <1>9 DEF Tied, TiedAt
<1> QED
  BY <1>1, <1>2, <1>3, <1>9, <1>10, <1>11, <1>12, TiedQuietStep

LEMMA CombEndTied == AdoptInv /\ CombEnd => (Tied(W, Hand, Others))'
<1> SUFFICES ASSUME AdoptInv, CombEnd PROVE (Tied(W, Hand, Others))'
  OBVIOUS
<1> DEFINE c == [comb EXCEPT !.phase = "done"]
           w == [W EXCEPT !.comb = c]
<1>1. comb.phase = "iter" /\ (Becomes(tryFinish(w)) \/ Becomes(w)) /\ UNCHANGED <<run, held, ops, ran>>
  <2>1. w = [W EXCEPT !.comb.phase = "done"]
    BY WorldFields DEF W
  <2> QED
    BY <2>1 DEF CombEnd
<1>2. /\ comb \in Call0 /\ comb.kind # "none" /\ comb.kind \in Kinds /\ comb.result \in Promise
      /\ Len(comb.elems) = 2 /\ Len(comb.res) = comb.at /\ comb.called \subseteq 1 .. comb.at
      /\ CapPair(comb) \in Pairs
  BY <1>1, AdoptParts, CombParts
<1>3. c.kind = comb.kind /\ c.result = comb.result /\ c.elems = comb.elems /\ c.at = comb.at /\ c.called = comb.called
      /\ c.res = comb.res /\ c.phase = "done" /\ c \in Call0
  BY <1>2, Zenon DEF Call0
<1> HIDE DEF c
<1>4. /\ Inv(w, Hand, ran) /\ w.gen = W.gen /\ w.comb = c
      /\ w.st = W.st /\ w.jobs = W.jobs /\ w.open = W.open /\ w.follows = W.follows
  <2>1. comb.at <= c.at
    BY <1>2, <1>3, CombFacts
  <2> QED
    BY <1>2, <1>3, <2>1, AdoptParts, CombKeeps
<1> HIDE DEF w
<1>5. w \in World
  BY <1>4 DEF Inv, Fit
<1>6. Tied(w, Hand, Others)
  BY <1>4, <1>5, AdoptParts, TiedSame
<1>7. PICK u : Becomes(u) /\ (u = w \/ u = tryFinish(w))
  BY <1>1
<1>8. Tied(u, Hand, Others) /\ u.comb.result = comb.result /\ u.gen = gen /\ u \in World
  <2>1. CASE u = w
    BY <1>3, <1>4, <1>5, <1>6, <2>1, AdoptParts
  <2>2. CASE u = tryFinish(w)
    <3>1. w.comb.kind # "none" /\ CapPair(w.comb) \in Others
      BY <1>2, <1>3, <1>4, AdoptParts DEF CapPair
    <3>2. Inv(u, Hand, ran) /\ u.gen = w.gen
      BY <1>4, <2>2, <3>1, tryFinishKeeps
    <3>3. Tied(u, Hand, Others) /\ u.comb.result = w.comb.result
      BY <1>4, <1>6, <2>2, <3>1, TiedTryFinish
    <3> QED
      BY <1>3, <1>4, <3>2, <3>3, AdoptParts DEF Inv, Fit
  <2> QED
    BY <1>7, <2>1, <2>2
<1>9. \A p \in Promise : u.follows[p] \in Proms => Prom(p) \notin Hand
  BY <1>8 DEF Tied, TiedAt
<1> QED
  BY <1>1, <1>2, <1>7, <1>8, <1>9, TiedQuietStep

LEMMA HeadTied ==
  ASSUME AdoptInv, run = NoRun, jobs # <<>>, NEW j, j = jobs[1]
  PROVE  /\ Inv(Took, {}, Taken(ran, W, j)) /\ Tied(Took, {}, Others) /\ Took \in World /\ j \in Job
         /\ Took.follows = follows /\ Took.open = open /\ Took.gen = gen /\ Took.comb = comb
         /\ \A x \in JobRoots(j) : Good(Took, x)
         /\ \A p \in Promise : follows[p] \in Proms /\ Target(j) = Prom(p) => j.kind = "adopt" /\ j.v = follows[p]
         /\ j.kind = "react" => \A f \in open : follows[f.p] \in Proms /\ Calls(j.r, f) =>
              j.s = Took.st[follows[f.p].p].state /\ j.v = Took.st[follows[f.p].p].val
<1>1. /\ Inv(Took, {}, Taken(ran, W, j)) /\ Took \in World /\ j \in Job /\ Hand = {}
      /\ \A x \in JobRoots(j) : Good(Took, x)
  BY AdoptParts, HeadFacts, Zenon
<1>2. /\ W \in World /\ Tied(W, {}, Others) /\ Inv(W, {}, ran) /\ W.jobs = jobs
      /\ W.follows = follows /\ W.open = open /\ W.gen = gen /\ W.comb = comb
  BY <1>1, AdoptParts, WorldFields
<1>3. Tied(Took, {}, Others)
  BY <1>1, <1>2, TiedTake DEF Took
<1>4. Took.st = W.st /\ Took.follows = follows /\ Took.open = open /\ Took.gen = gen /\ Took.comb = comb
  BY DEF Took, W
<1>5. 1 \in DOMAIN W.jobs /\ W.jobs[1] = j
  BY <1>2, TailFacts
<1>6. \A p \in Promise : follows[p] \in Proms /\ Target(j) = Prom(p) => j.kind = "adopt" /\ j.v = follows[p]
  BY <1>2, <1>5 DEF Tied, TiedAt
<1>7. ASSUME j.kind = "react", NEW f \in open, follows[f.p] \in Proms, Calls(j.r, f)
      PROVE  j.s = Took.st[follows[f.p].p].state /\ j.v = Took.st[follows[f.p].p].val
  <2>1. f.p \in Promise
    BY <1>2, <1>7, WorldParts, RefSets
  <2> QED
    BY <1>2, <1>4, <1>5, <1>7, <2>1 DEF Tied, TiedAt
<1> QED
  BY <1>1, <1>3, <1>4, <1>6, <1>7

LEMMA PassTied == ASSUME AdoptInv, NEW j, j = jobs[1], Pass(j) PROVE (Tied(W, Hand, Others))'
<1> DEFINE p == j.r.result.p
           u == IF j.s = "ful" THEN Resolve(Took, p, j.v) ELSE Settle(Took, p, "rej", j.v)
<1>1. /\ run = NoRun /\ jobs # <<>> /\ j.kind = "react" /\ Handler(j) = Nothing
      /\ Becomes(u) /\ run' = NoRun /\ held' = held
  BY DEF Pass, Draining
<1>2. /\ Inv(Took, {}, Taken(ran, W, j)) /\ Tied(Took, {}, Others) /\ Took \in World /\ j \in Job
      /\ Took.follows = follows /\ Took.gen = gen /\ Took.comb = comb
      /\ \A x \in Promise : follows[x] \in Proms /\ Target(j) = Prom(x) => j.kind = "adopt"
  BY <1>1, HeadTied
<1>3. \A x \in Proms : x = Target(j) => x.p \in Promise /\ Undecided(Took, {}, x.p)
  BY <1>1, AdoptParts, HeadFacts, Zenon
<1>4. j.r.result \in Proms /\ j.r.result = Target(j) /\ j.v \in Plain
  BY <1>1, <1>2, HandlerFacts
<1>5. j.v \in Value /\ Good(Took, j.v) /\ p \in Promise /\ Undecided(Took, {}, p) /\ j.r.result = Prom(p)
  BY <1>3, <1>4, PlainValues, RefSets
<1>6. Took.follows[p] \notin Proms
  BY <1>1, <1>2, <1>4, <1>5
<1> HIDE DEF p
<1>7. Tied(u, {}, Others) /\ Inv(u, {}, Taken(ran, W, j)) /\ u.gen = Took.gen /\ u.comb = Took.comb
  <2>1. CASE j.s = "ful"
    BY <1>2, <1>5, <1>6, <2>1, TiedResolve, ResolveKeeps
  <2>2. CASE j.s # "ful"
    BY <1>2, <1>4, <1>5, <1>6, <2>2, TiedSettle, SettleKeeps DEF Agrees
  <2> QED
    BY <2>1, <2>2
<1> HIDE DEF u
<1>8. u \in World
  BY <1>7 DEF Inv, Fit
<1> QED
  BY <1>1, <1>2, <1>7, <1>8, TiedQuietStep DEF p, u

LEMMA ReactTied == ASSUME AdoptInv, NEW j, j = jobs[1], React(j) PROVE (Tied(W, Hand, Others))'
<1> DEFINE f == Handler(j)
           ok == j.s = "ful"
           u == CallNative(Took, f, ok, j.v)
<1>1. /\ run = NoRun /\ jobs # <<>> /\ j.kind = "react" /\ Handler(j).k \in {"pair", "elem"}
      /\ Becomes(u) /\ run' = NoRun /\ held' = held
  BY DEF React, Draining
<1>2. /\ Inv(Took, {}, Taken(ran, W, j)) /\ Tied(Took, {}, Others) /\ Took \in World /\ j \in Job
      /\ Took.follows = follows /\ Took.gen = gen /\ Took.comb = comb /\ Took.open = open
      /\ \A x \in JobRoots(j) : Good(Took, x)
      /\ \A g \in open : follows[g.p] \in Proms /\ Calls(j.r, g) =>
           j.s = Took.st[follows[g.p].p].state /\ j.v = Took.st[follows[g.p].p].val
  BY <1>1, HeadTied
<1>3. f \in Pairs \cup Elems /\ Good(Took, f) /\ j.v \in Plain /\ j.s \in {"ful", "rej"}
  BY <1>1, <1>2, HandlerFacts
<1>4. j.v \in Value /\ Good(Took, j.v) /\ ok \in BOOLEAN
  BY <1>3, PlainValues
<1>5. Answers(Took, f, ok, j.v)
  <2>1. Calls(j.r, f)
    BY DEF Handler, Calls
  <2>2. j.s = IF ok THEN "ful" ELSE "rej"
    BY <1>3
  <2> HIDE DEF f, ok
  <2> QED
    BY <1>2, <1>3, <2>1, <2>2 DEF Answers, Agrees
<1>6. comb.kind # "none" => CapPair(comb) \in Others
  BY AdoptParts
<1> HIDE DEF f, ok
<1>7. Tied(u, {}, Others) /\ u.comb.kind = comb.kind /\ u.comb.result = comb.result
  BY <1>2, <1>3, <1>4, <1>5, <1>6, TiedCallNative
<1>8. Inv(u, {}, Taken(ran, W, j)) /\ u.gen = Took.gen
  BY <1>2, <1>3, <1>4, CallNativeKeeps
<1> HIDE DEF u
<1>9. u \in World
  BY <1>8 DEF Inv, Fit
<1> QED
  BY <1>1, <1>2, <1>7, <1>8, <1>9, TiedQuietStep DEF f, ok, u

LEMMA ReactJsTied == ASSUME AdoptInv, NEW j, j = jobs[1], ReactJs(j) PROVE (Tied(W, Hand, Others))'
<1>1. /\ run = NoRun /\ jobs # <<>> /\ j.kind = "react" /\ Handler(j) = Js
      /\ Becomes(Took) /\ run' = j /\ held' = held
  BY DEF ReactJs, Draining
<1>2. /\ Tied(Took, {}, Others) /\ Took \in World /\ j \in Job /\ Took.follows = follows /\ Took.comb = comb
      /\ \A p \in Promise : follows[p] \in Proms /\ Target(j) = Prom(p) => j.kind = "adopt"
  BY <1>1, HeadTied
<1>3. j.r.result = Target(j)
  BY <1>1, <1>2, HandlerFacts
<1>4. \A x \in Hand' : x \in Proms => Took.follows[x.p] \notin Proms
  <2>1. \A x \in Hand' : x = Target(j)
    BY <1>1, <1>3 DEF Hand
  <2> QED
    BY <1>1, <1>2, <2>1, RefSets
<1>5. run' # run /\ run'.kind # "adopt"
  BY <1>1, <1>2, NoJobRuns
<1> DEFINE H == {}
<1>6. (\A h \in H : h \in Took.open => Took.follows[h.p] \notin Proms) /\ held' \subseteq held \cup H
  BY <1>1
<1> HIDE DEF H
<1>7. Took.comb.kind = "none" \/ (comb.kind # "none" /\ Took.comb.result = comb.result)
  BY <1>2
<1> QED
  BY <1>1, <1>2, <1>4, <1>5, <1>6, <1>7, TiedStepKeeps

LEMMA AdoptTied == ASSUME AdoptInv, NEW j, j = jobs[1], Adopt(j) PROVE (Tied(W, Hand, Others))'
<1> DEFINE w == NewPair(Took, j.p)
           f == Pair(j.p, w.gen[j.p])
           u == promiseThenCap(w, j.v.p, f, f, Nothing)
<1>1. /\ run = NoRun /\ jobs # <<>> /\ j.kind = "adopt" /\ j.v.k = "promise"
      /\ Becomes(u) /\ run' = NoRun /\ held' = held
  BY DEF Adopt, Draining
<1>2. /\ Inv(Took, {}, ran) /\ Tied(Took, {}, Others) /\ Took \in World /\ j \in Job
      /\ Took.follows = follows /\ Took.gen = gen /\ Took.comb = comb
      /\ \A x \in JobRoots(j) : Good(Took, x)
      /\ \A p \in Promise : follows[p] \in Proms /\ Target(j) = Prom(p) => j.v = follows[p]
  BY <1>1, HeadTied, HeadFacts, AdoptParts, Zenon
<1>3. j.p \in Promise /\ Target(j) = Prom(j.p) /\ JobRoots(j) = {Prom(j.p), j.v} /\ j.v \in Proms /\ j.v.p \in Promise
  BY <1>1, <1>2, JobFacts, RefSets, RefKinds
<1>4. Took.st[j.p].state = "pending" /\ Undecided(Took, {}, j.p)
  <2>1. Prom(j.p) \in Proms /\ Prom(j.p).p = j.p
    BY <1>3, RefSets, RefKinds
  <2> QED
    BY <1>1, <1>3, <2>1, HeadFacts, AdoptParts, Zenon
<1>5. /\ Inv(w, {}, ran) /\ Later(Took, w) /\ w.gen = [Took.gen EXCEPT ![j.p] = @ + 1] /\ w.gen[j.p] \in Nat
      /\ Good(w, f) /\ w.follows = Took.follows /\ w.comb = Took.comb
  BY <1>2, <1>3, <1>4, NewPairKeeps
<1>6. w \in World
  BY <1>5 DEF Inv, Fit
<1>7. \A x \in Others : Good(Took, x)
  <2>1. \A x \in held : x \in Ref /\ Good(W, x)
    BY AdoptParts, InvParts
  <2>2. comb.kind # "none" => CapPair(comb) \in Ref /\ Good(W, CapPair(comb))
    BY AdoptParts, CombParts DEF Ref
  <2>3. \A x \in Others : x \in Ref /\ Good(W, x)
    BY <1>1, <2>1, <2>2, NoJobRuns DEF Others
  <2>4. Later(W, Took) /\ W \in World
    BY <1>1, AdoptParts, HeadFacts, Zenon
  <2> QED
    BY <1>2, <2>3, <2>4, GoodLater
<1>8. Tied(w, {}, Others)
  BY <1>2, <1>3, <1>6, <1>7, TiedNewPair
<1>9. f \in Pairs /\ f.p = j.p
  BY <1>3, <1>5, RefKinds DEF Pairs
<1>10. Lives(w, j.v.p) /\ Sole(w, {}, Nothing)
  BY <1>1, <1>2, <1>3, <1>5 DEF Good, Later, Sole
<1> HIDE DEF w, f
<1>11. Inv(u, {}, ran) /\ u.gen = w.gen /\ u.comb = w.comb
  BY <1>3, <1>5, <1>9, <1>10, ThenKeeps
<1>12. u \in World
  BY <1>11 DEF Inv, Fit
<1>13. Tied(u, {}, Others)
  <2>1. \A x \in Promise : w.follows[x] \in Proms =>
          Nothing # Prom(x) /\ \A g \in w.open : g.p = x /\ g \in {f, f} => j.v.p = w.follows[x].p
    BY <1>2, <1>3, <1>5, <1>9, RefKinds
  <2> QED
    BY <1>3, <1>5, <1>8, <1>10, <1>12, <2>1, TiedThen
<1> DEFINE H == {}
<1>14. (\A h \in H : h \in u.open => u.follows[h.p] \notin Proms) /\ held' \subseteq held \cup H
  BY <1>1
<1>15. Becomes(u)
  BY <1>1 DEF w, f
<1> HIDE DEF H, u
<1>16. u.comb.kind = "none" \/ (comb.kind # "none" /\ u.comb.result = comb.result)
  BY <1>2, <1>5, <1>11
<1>17. \A x \in Hand' : x \in Proms => u.follows[x.p] \notin Proms
  BY <1>1, NoJobRuns DEF Hand
<1> QED
  BY <1>1, <1>12, <1>13, <1>14, <1>15, <1>16, <1>17, TiedStepKeeps, Zenon

LEMMA AdoptJsTied == ASSUME AdoptInv, NEW j, j = jobs[1], AdoptJs(j) PROVE (Tied(W, Hand, Others))'
<1> DEFINE w == NewPair(Took, j.p)
           f == Pair(j.p, w.gen[j.p])
<1>1. /\ run = NoRun /\ jobs # <<>> /\ j.kind = "adopt" /\ j.v = Thenable
      /\ Becomes(w) /\ held' = held \cup {f} /\ run' = j
  BY DEF AdoptJs, Draining
<1>2. /\ Inv(Took, {}, ran) /\ Tied(Took, {}, Others) /\ Took \in World /\ j \in Job
      /\ Took.follows = follows /\ Took.comb = comb
      /\ \A p \in Promise : follows[p] \in Proms /\ Target(j) = Prom(p) => j.v = follows[p]
  BY <1>1, HeadTied, HeadFacts, AdoptParts, Zenon
<1>3. j.p \in Promise /\ Target(j) = Prom(j.p)
  BY <1>1, <1>2, JobFacts
<1>4. Took.st[j.p].state = "pending" /\ Undecided(Took, {}, j.p)
  <2>1. Prom(j.p) \in Proms /\ Prom(j.p).p = j.p
    BY <1>3, RefSets, RefKinds
  <2> QED
    BY <1>1, <1>3, <2>1, HeadFacts, AdoptParts, Zenon
<1>5. /\ Inv(w, {}, ran) /\ Later(Took, w) /\ w.gen = [Took.gen EXCEPT ![j.p] = @ + 1] /\ w.gen[j.p] \in Nat
      /\ Good(w, f) /\ w.follows = Took.follows /\ w.comb = Took.comb
  <2>1. Inv(Took, {}, ran) /\ j.p \in Promise
    BY <1>2, <1>3
  <2> QED
    BY <2>1, <1>4, NewPairKeeps
<1>6. w \in World
  BY <1>5 DEF Inv, Fit
<1>7. Took.follows[j.p] \notin Proms
  <2>1. Thenable \notin Proms
    BY RefSets, RefKinds
  <2> QED
    BY <1>1, <1>2, <1>3, <2>1
<1>8. Tied(w, {}, Others)
  BY <1>2, <1>3, <1>6, <1>7, TiedNewPair
<1> DEFINE H == {f}
<1>9. Pair(run'.p, w.gen[run'.p]) \in H /\ run' # run
  BY <1>1, <1>2, NoJobRuns
<1>10. \A h \in H : h \in w.open => w.follows[h.p] \notin Proms
  BY <1>5, <1>7, RefKinds
<1>11. \A x \in Hand' : x \in Proms => w.follows[x.p] \notin Proms
  BY <1>1 DEF Hand
<1>12. w.comb.kind = "none" \/ (comb.kind # "none" /\ w.comb.result = comb.result)
  BY <1>2, <1>5
<1>13. held' \subseteq held \cup H
  BY <1>1
<1> HIDE DEF w, f, H
<1> QED
  BY <1>1, <1>6, <1>8, <1>9, <1>10, <1>11, <1>12, <1>13, TiedStepKeeps

(* The job whose script is running settles a promise that follows none. *)
LEMMA RunTied ==
  ASSUME AdoptInv, run # NoRun
  PROVE  /\ Inv(W, {}, ran) /\ Tied(W, {}, Others) /\ W \in World
         /\ run.kind = "react" => /\ run.r.result.p \in Promise /\ Undecided(W, {}, run.r.result.p)
                                  /\ W.follows[run.r.result.p] \notin Proms
         /\ run.kind # "react" => run.kind = "adopt" /\ run.p \in Promise
<1>1. Inv(W, {}, ran) /\ W \in World
  BY AdoptParts, RunFacts
<1>2. Tied(W, {}, Others)
  BY AdoptParts, TiedOther
<1>3. ASSUME run.kind = "react"
      PROVE  /\ run.r.result.p \in Promise /\ Undecided(W, {}, run.r.result.p)
             /\ W.follows[run.r.result.p] \notin Proms
  <2>1. run.r.result.p \in Promise /\ Undecided(W, {}, run.r.result.p)
    BY <1>3, AdoptParts, RunFacts
  <2>2. run.r.result \in Hand /\ run.r.result \in Proms
    BY <1>3, AdoptParts DEF Hand, JobInv, ScriptOK
  <2> QED
    BY <2>1, <2>2, AdoptParts
<1>4. run.kind # "react" => run.kind = "adopt" /\ run.p \in Promise
  BY AdoptParts, RunFacts, JobFacts DEF JobInv, ScriptOK
<1> QED
  BY <1>1, <1>2, <1>3, <1>4

LEMMA ReturnTied == AdoptInv /\ Return => (Tied(W, Hand, Others))'
<1> SUFFICES ASSUME AdoptInv, Return PROVE (Tied(W, Hand, Others))'
  OBVIOUS
<1>1. run # NoRun /\ run' = NoRun /\ held' = held
  BY DEF Return
<1>2. W.gen = gen /\ W.comb = comb
  BY WorldFields
<1>3. CASE run.kind = "react"
  <2>1. PICK v \in Vals \cup {BadThen} : Becomes(Resolve(W, run.r.result.p, v))
    BY <1>3 DEF Return
  <2>2. v \in Value /\ Good(W, v)
    <3>1. v \in Plain \cup {Thenable, BadThen} \/ (v \in held /\ v.k = "promise")
      BY DEF Vals, Plain
    <3> QED
      BY <3>1, AdoptParts, InvParts, PlainValues
  <2> DEFINE p == run.r.result.p
             u == Resolve(W, p, v)
  <2>3. Inv(W, {}, ran) /\ p \in Promise /\ Undecided(W, {}, p) /\ Tied(W, {}, Others) /\ W.follows[p] \notin Proms
    BY <1>1, <1>3, RunTied
  <2> HIDE DEF p
  <2>4. Inv(u, {}, ran) /\ u.gen = W.gen /\ u.comb = W.comb
    BY <2>2, <2>3, ResolveKeeps
  <2>5. Tied(u, {}, Others)
    BY <2>2, <2>3, TiedResolve
  <2>6. Becomes(u)
    BY <2>1 DEF p
  <2> HIDE DEF u
  <2>7. u \in World
    BY <2>4 DEF Inv, Fit
  <2> QED
    BY <1>1, <1>2, <2>4, <2>5, <2>6, <2>7, TiedQuietStep
<1>4. CASE run.kind # "react"
  <2>1. Becomes(W)
    BY <1>4 DEF Return, Becomes, W, world
  <2> QED
    BY <1>1, <1>2, <2>1, AdoptParts, TiedQuietStep
<1> QED
  BY <1>3, <1>4

LEMMA ThrowTied == AdoptInv /\ Throw => (Tied(W, Hand, Others))'
<1> SUFFICES ASSUME AdoptInv, Throw PROVE (Tied(W, Hand, Others))'
  OBVIOUS
<1>1. run # NoRun /\ run' = NoRun /\ held' = held
  BY DEF Throw
<1>2. W.gen = gen /\ W.comb = comb
  BY WorldFields
<1>3. Data("err") \in Plain /\ Data("err") \in Value /\ Good(W, Data("err"))
  BY RefSets, PlainValues
<1>4. CASE run.kind = "react"
  <2> DEFINE p == run.r.result.p
             u == Settle(W, p, "rej", Data("err"))
  <2>1. Inv(W, {}, ran) /\ p \in Promise /\ Undecided(W, {}, p) /\ Tied(W, {}, Others) /\ W.follows[p] \notin Proms
    BY <1>1, <1>4, RunTied
  <2>2. Becomes(u)
    BY <1>4 DEF Throw
  <2> HIDE DEF p
  <2>3. Inv(u, {}, ran) /\ u.gen = W.gen /\ u.comb = W.comb
    BY <1>3, <2>1, SettleKeeps
  <2>4. Tied(u, {}, Others)
    BY <1>3, <2>1, TiedSettle DEF Agrees
  <2> HIDE DEF u
  <2>5. u \in World
    BY <2>3 DEF Inv, Fit
  <2> QED
    BY <1>1, <1>2, <2>2, <2>3, <2>4, <2>5, TiedQuietStep
<1>5. CASE run.kind # "react"
  <2> DEFINE f == Pair(run.p, gen[run.p])
             u == CallPair(W, f, FALSE, Data("err"))
  <2>1. Becomes(u)
    BY <1>5, Zenon DEF Throw
  <2>2. Inv(W, {}, ran) /\ Tied(W, {}, Others) /\ run.kind = "adopt" /\ run.p \in Promise
    BY <1>1, <1>5, RunTied
  <2>3. f \in Pairs /\ f \in Others
    BY <2>2, AdoptParts, WorldParts DEF Pairs
  <2> HIDE DEF f
  <2>4. Answers(W, f, FALSE, Data("err"))
    BY <2>3, AdoptParts DEF Answers
  <2>5. Inv(u, {}, ran) /\ u.gen = W.gen /\ u.comb = W.comb
    BY <1>3, <2>2, <2>3, CallPairKeeps, Zenon
  <2>6. Tied(u, {}, Others)
    BY <1>3, <2>2, <2>3, <2>4, TiedCallPair, Zenon
  <2> HIDE DEF u
  <2>7. u \in World
    BY <2>5 DEF Inv, Fit
  <2> QED
    BY <1>1, <1>2, <2>1, <2>5, <2>6, <2>7, TiedQuietStep
<1> QED
  BY <1>4, <1>5

LEMMA CollectTied == AdoptInv /\ Collect => (Tied(W, Hand, Others))'
<1> SUFFICES ASSUME AdoptInv, Collect PROVE (Tied(W, Hand, Others))'
  OBVIOUS
<1>1. PICK d \in SUBSET Promise :
           /\ d = {p \in Promise : st[p].state # "free" /\ Prom(p) \notin Marked}
           /\ Swept(W, W', d) /\ UNCHANGED <<run, held, ops>>
  BY AdoptParts, CollectSweeps
<1>2. Tied(W', Hand, Others)
  BY <1>1, AdoptParts, TiedSwept
<1>3. W'.gen = gen' /\ W'.comb = comb' /\ W.gen = gen /\ W.comb = comb
  BY WorldFields DEF W
<1>4. Hand' = Hand
  BY <1>1 DEF Hand
<1>5. ASSUME run.kind = "adopt" PROVE gen'[run.p] = gen[run.p]
  <2>1. run # NoRun /\ run.p \in Promise
    BY <1>5, AdoptParts, NoJobRuns
  <2>2. Prom(run.p) \in Roots
    BY <1>5, <2>1, NoJobRuns DEF Roots, InFlight, JobRoots, NoRun
  <2>3. Prom(run.p) \in Marked
    BY <2>2, AdoptParts, MarkedFacts
  <2>4. run.p \notin d
    BY <1>1, <2>3
  <2> QED
    BY <1>1, <1>3, <2>1, <2>4 DEF Swept
<1>6. comb'.kind = "none" \/ (comb'.kind = comb.kind /\ comb'.result = comb.result)
  BY <1>1, <1>3 DEF Swept
<1>7. Others' \subseteq Others
  <2>1. ASSUME NEW x, x \in Others' PROVE x \in Others
    <3>1. CASE x \in held'
      BY <1>1, <3>1 DEF Others
    <3>2. CASE comb'.kind # "none" /\ x = CapPair(comb')
      BY <1>6, <3>2 DEF Others, CapPair
    <3>3. CASE run'.kind = "adopt" /\ x = Pair(run'.p, gen'[run'.p])
      BY <1>1, <1>5, <3>3 DEF Others
    <3> QED
      BY <2>1, <3>1, <3>2, <3>3 DEF Others, CapPair
  <2> QED
    BY <2>1
<1>8. Tied(W', Hand, Others')
  <2>1. \A p \in Promise : W'.follows[p] \in Proms => Prom(p) \notin Hand
    BY <1>2 DEF Tied, TiedAt
  <2> QED
    BY <1>2, <1>7, <2>1, TiedOther
<1> QED
  BY <1>4, <1>8

LEMMA InitTied == Init => Tied(W, Hand, Others)
<1> SUFFICES ASSUME Init PROVE Tied(W, Hand, Others)
  OBVIOUS
<1>1. W.follows = [p \in Promise |-> Nothing]
  BY DEF Init, W
<1>2. Nothing \notin Proms
  BY RefSets, RefKinds
<1> QED
  BY <1>1, <1>2 DEF Tied

LEMMA NextTied == AdoptInv /\ [Next]_vars => AdoptInv'
<1> SUFFICES ASSUME AdoptInv, [Next]_vars PROVE AdoptInv'
  OBVIOUS
<1>1. JobInv'
  BY AdoptParts, NextKeeps
<1>2. CASE NewPromise
  BY <1>1, <1>2, NewPromiseTied DEF AdoptInv
<1>3. CASE Call
  BY <1>1, <1>3, CallTied DEF AdoptInv
<1>4. CASE Then
  BY <1>1, <1>4, ThenTied DEF AdoptInv
<1>5. CASE Drop
  BY <1>1, <1>5, DropTied DEF AdoptInv
<1>6. CASE Collect
  BY <1>1, <1>6, CollectTied DEF AdoptInv
<1>7. CASE \E kind \in Kinds : CombStart(kind)
  BY <1>1, <1>7, CombStartTied DEF AdoptInv
<1>8. CASE CombNext
  BY <1>1, <1>8, CombNextTied DEF AdoptInv
<1>9. CASE CombThrow
  BY <1>1, <1>9, CombThrowTied DEF AdoptInv
<1>10. CASE CombEnd
  BY <1>1, <1>10, CombEndTied DEF AdoptInv
<1>11. ASSUME NEW j \in {jobs[i] : i \in 1 .. (IF jobs = <<>> THEN 0 ELSE 1)},
              Pass(j) \/ React(j) \/ ReactJs(j) \/ Adopt(j) \/ AdoptJs(j)
       PROVE  AdoptInv'
  <2>1. j = jobs[1]
    <3>1. PICK i \in 1 .. (IF jobs = <<>> THEN 0 ELSE 1) : j = jobs[i]
      OBVIOUS
    <3>2. i = 1
      BY <3>1
    <3> QED
      BY <3>1, <3>2
  <2>2. (Tied(W, Hand, Others))'
    BY <1>11, <2>1, PassTied, ReactTied, ReactJsTied, AdoptTied, AdoptJsTied
  <2> QED
    BY <1>1, <2>2 DEF AdoptInv
<1>12. CASE Return
  BY <1>1, <1>12, ReturnTied DEF AdoptInv
<1>13. CASE Throw
  BY <1>1, <1>13, ThrowTied DEF AdoptInv
<1>14. CASE UNCHANGED vars
  BY <1>1, <1>14 DEF vars, world, AdoptInv, Tied, TiedAt, W, Hand, Others
<1> QED
  BY <1>2, <1>3, <1>4, <1>5, <1>6, <1>7, <1>8, <1>9, <1>10, <1>11, <1>12, <1>13, <1>14 DEF Next

(* Nothing but the promise it follows can settle a promise that was resolved *)
(* with one: its adoption is queued, or its function waits on that promise   *)
(* or is queued with that promise's outcome (resolvePromise, runThenableJob, *)
(* promiseThenCap).                                                          *)
THEOREM AdoptInvariance == Spec => []AdoptInv
<1>1. Init => AdoptInv
  BY InitInv, InitTied DEF AdoptInv
<1>2. AdoptInv /\ [Next]_vars => AdoptInv'
  BY NextTied
<1> QED
  BY <1>1, <1>2, PTL DEF Spec

LEMMA AdoptInvAdopts == AdoptInv => AdoptsTheOutcome
<1> SUFFICES ASSUME AdoptInv, NEW p \in Promise, follows[p].k = "promise", st[p].state \in {"ful", "rej"}
             PROVE  st[follows[p].p].state = st[p].state /\ st[follows[p].p].val = st[p].val
  BY DEF AdoptsTheOutcome
<1>1. W \in World /\ W.follows = follows /\ W.st = st /\ Tied(W, Hand, Others)
  BY AdoptParts, WorldFields
<1>2. follows[p] \in Proms
  BY <1>1, WorldParts, RefKinds, ZenonT(40)
<1> QED
  BY <1>1, <1>2 DEF Tied, TiedAt

(* A promise resolved with a promise ends as that one ended (resolvePromise, *)
(* runThenableJob): by the invariant above nothing else could settle it.     *)
THEOREM Adopted == Spec => []AdoptsTheOutcome
BY AdoptInvariance, AdoptInvAdopts, PTL

-----------------------------------------------------------------------------
(* The combinator.  J are jobs that were taken from the queue.               *)

(* The array is known nowhere before the combinator hands it out, and then   *)
(* it is what the result was settled with.                                   *)
Outcome(c) == IF c.kind = "any" THEN "rej" ELSE "ful"
ArrIn(w)   == (\E p \in Promise : w.st[p].val = Arr) \/ \E i \in DOMAIN w.jobs : w.jobs[i].v = Arr
Earned(w)  == /\ w.comb.kind # "none" /\ w.comb.phase = "done" /\ w.comb.called = {1, 2}
              /\ w.st[w.comb.result].state = Outcome(w.comb) /\ w.st[w.comb.result].val = Arr
Known(w)   == Earned(w) \/ (w.comb.kind = "none" /\ w.comb.phase = "done")
HandedOut(w) == ArrIn(w) => Known(w)

Waits(c)  == Cardinality(1 .. c.at \ c.called)
Counts(c) ==
  /\ c.kind = "none" => c.remaining = 0
  /\ c.kind # "none" /\ c.phase = "done" => c.at = 2
  /\ c.kind # "none" /\ Counted(c) => c.remaining = Waits(c) + (IF c.phase = "done" THEN 0 ELSE 1)
  /\ c.kind = "race" => c.remaining = 1 /\ c.called = {}
Shut(w) == w.comb.kind # "none" /\ w.comb.remaining = 0 => CapPair(w.comb) \notin w.open

(* An element function is with the reactions of its element, or the script   *)
(* has it and the element is no promise.                                     *)
Serves(c, i, r) == r.onF = OnF(c, i) /\ r.onR = OnR(c, i)
HandlerFits(c, m, h) ==
  \A i \in {1, 2} : Calls(h, Elem(i)) => Serves(c, i, h) /\ c.elems[i] \in {Nothing, Prom(m)}
JobFits(w, j) ==
  j.kind = "react" => \A i \in {1, 2} : Calls(j.r, Elem(i)) =>
    /\ Serves(w.comb, i, j.r)
    /\ w.comb.elems[i] # Nothing => LET e == w.st[w.comb.elems[i].p] IN e.state = j.s /\ e.val = j.v
Placed(w, X) ==
  w.comb.kind # "none" =>
    /\ \A i \in {1, 2} : Elem(i) \in X => w.comb.kind # "race" /\ w.comb.elems[i] = Nothing
    /\ \A m \in Promise : \A k \in DOMAIN w.st[m].handlers : HandlerFits(w.comb, m, w.st[m].handlers[k])
    /\ \A k \in DOMAIN w.jobs : JobFits(w, w.jobs[k])

(* What was filled in is how the element ended. *)
Filled(w) ==
  LET c == w.comb
  IN  c.kind # "none" => \A i \in c.called : c.elems[i] # Nothing =>
        /\ w.st[c.elems[i].p].state = (IF c.res[i].ok THEN "ful" ELSE "rej") /\ c.res[i].v = w.st[c.elems[i].p].val
        /\ ~ Settled(c) => c.res[i].ok = (c.kind # "any")

(* As long as the result is open, every element that was registered will be  *)
(* heard of.                                                                 *)
Heard(w, i, J) ==
  LET e == w.comb.elems[i].p
  IN  \/ i \in w.comb.called
      \/ \E k \in DOMAIN w.st[e].handlers : Serves(w.comb, i, w.st[e].handlers[k])
      \/ \E k \in DOMAIN w.jobs : w.jobs[k].kind = "react" /\ Serves(w.comb, i, w.jobs[k].r)
      \/ \E j \in J : j.kind = "react" /\ Serves(w.comb, i, j.r)
Awaited(w, J) ==
  w.comb.kind # "none" /\ CapPair(w.comb) \in w.open =>
    \A i \in 1 .. w.comb.at : w.comb.elems[i] # Nothing => Heard(w, i, J)

Body(w, X, J) == Counts(w.comb) /\ Placed(w, X) /\ Filled(w) /\ Awaited(w, J)
Round(w, X, J) == Body(w, X, J) /\ HandedOut(w) /\ Shut(w)
CombInv == JobInv /\ Round(W, held, {})

(* A step of which the combinator has nothing to fear. *)
Carries(w, u, J) ==
  /\ u.comb = w.comb
  /\ w.comb.kind # "none" /\ CapPair(w.comb) \in u.open => CapPair(w.comb) \in w.open
  /\ \A m \in Promise : w.st[m].state \in {"ful", "rej"} => u.st[m].state = w.st[m].state /\ u.st[m].val = w.st[m].val
  /\ \A m \in Promise : \A k \in DOMAIN u.st[m].handlers :
       \/ \E n \in DOMAIN w.st[m].handlers : u.st[m].handlers[k] = w.st[m].handlers[n]
       \/ HandlerFits(w.comb, m, u.st[m].handlers[k])
  /\ \A k \in DOMAIN u.jobs :
       \/ \E n \in DOMAIN w.jobs : u.jobs[k] = w.jobs[n]
       \/ JobFits(u, u.jobs[k])
       \/ \E m \in Promise : \E n \in DOMAIN w.st[m].handlers :
            u.jobs[k].r = w.st[m].handlers[n] /\ u.jobs[k].s = u.st[m].state /\ u.jobs[k].v = u.st[m].val
  /\ \A m \in Promise : \A k \in DOMAIN w.st[m].handlers :
       \/ \E n \in DOMAIN u.st[m].handlers : u.st[m].handlers[n] = w.st[m].handlers[k]
       \/ \E n \in DOMAIN u.jobs : u.jobs[n].kind = "react" /\ u.jobs[n].r = w.st[m].handlers[k]
  /\ \A k \in DOMAIN w.jobs : w.jobs[k] \in J \/ \E n \in DOMAIN u.jobs : u.jobs[n] = w.jobs[k]

LEMMA ElemFacts ==
  ASSUME NEW w, Fit(w), w.comb.kind # "none"
  PROVE  /\ w \in World /\ w.comb.result \in Promise /\ DOMAIN w.comb.elems = {1, 2} /\ w.comb.at \in {0, 1, 2}
         /\ w.comb.kind \in AllKinds /\ w.comb.called \subseteq 1 .. w.comb.at /\ w.comb.called \subseteq {1, 2}
         /\ \A i \in {1, 2} : w.comb.elems[i] # Nothing =>
              w.comb.elems[i] \in Proms /\ w.comb.elems[i].p \in Promise /\ w.comb.elems[i] = Prom(w.comb.elems[i].p)
<1>1. w \in World /\ w.comb \in Call0
  BY WorldParts DEF Fit
<1>2. /\ w.comb.result \in Promise /\ Len(w.comb.elems) = 2 /\ w.comb.kind \in AllKinds
      /\ w.comb.called \subseteq 1 .. w.comb.at
  BY PromiseAssumption DEF Fit
<1>3. DOMAIN w.comb.elems = {1, 2} /\ \A i \in {1, 2} : w.comb.elems[i] \in Proms \cup {Nothing}
  <2>1. DOMAIN w.comb.elems = 1 .. 2
    BY <1>1, <1>2, CombFacts
  <2> QED
    BY <1>1, <2>1, CombFacts
<1> QED
  BY <1>1, <1>2, <1>3, CombFacts, RefSets

LEMMA PlacedKept ==
  ASSUME NEW w, NEW u \in World, NEW X, NEW J, Fit(w), Placed(w, X), Carries(w, u, J)
  PROVE  Placed(u, X)
<1> SUFFICES ASSUME w.comb.kind # "none"
             PROVE  /\ \A i \in {1, 2} : Elem(i) \in X => w.comb.kind # "race" /\ w.comb.elems[i] = Nothing
                    /\ \A m \in Promise : \A k \in DOMAIN u.st[m].handlers : HandlerFits(w.comb, m, u.st[m].handlers[k])
                    /\ \A k \in DOMAIN u.jobs : JobFits(u, u.jobs[k])
  BY DEF Placed, Carries
<1>1. w \in World /\ u.comb = w.comb
  BY DEF Fit, Carries
<1>2. \A i \in {1, 2} : Elem(i) \in X => w.comb.kind # "race" /\ w.comb.elems[i] = Nothing
  BY DEF Placed
<1>3. \A m \in Promise : \A k \in DOMAIN u.st[m].handlers : HandlerFits(w.comb, m, u.st[m].handlers[k])
  BY DEF Placed, Carries
<1>4. ASSUME NEW k \in DOMAIN u.jobs PROVE JobFits(u, u.jobs[k])
  <2>1. ASSUME NEW n \in DOMAIN w.jobs, u.jobs[k] = w.jobs[n] PROVE JobFits(u, u.jobs[k])
    <3> SUFFICES ASSUME w.jobs[n].kind = "react", NEW i \in {1, 2}, Calls(w.jobs[n].r, Elem(i))
                 PROVE  /\ Serves(w.comb, i, w.jobs[n].r)
                        /\ w.comb.elems[i] # Nothing => /\ u.st[w.comb.elems[i].p].state = w.jobs[n].s
                                                        /\ u.st[w.comb.elems[i].p].val = w.jobs[n].v
      BY <1>1, <2>1 DEF JobFits
    <3>1. /\ Serves(w.comb, i, w.jobs[n].r)
          /\ w.comb.elems[i] # Nothing => /\ w.st[w.comb.elems[i].p].state = w.jobs[n].s
                                          /\ w.st[w.comb.elems[i].p].val = w.jobs[n].v
      BY DEF Placed, JobFits
    <3>2. w.jobs[n].s \in {"ful", "rej"}
      BY <1>1, WorldParts, JobFacts
    <3>3. w.comb.elems[i] # Nothing => w.comb.elems[i].p \in Promise
      BY ElemFacts
    <3> QED
      BY <3>1, <3>2, <3>3 DEF Carries
  <2>2. ASSUME NEW m \in Promise, NEW n \in DOMAIN w.st[m].handlers,
               u.jobs[k].r = w.st[m].handlers[n], u.jobs[k].s = u.st[m].state, u.jobs[k].v = u.st[m].val
        PROVE  JobFits(u, u.jobs[k])
    <3>1. HandlerFits(w.comb, m, w.st[m].handlers[n])
      BY DEF Placed
    <3>2. Prom(m) # Nothing /\ Prom(m).p = m
      BY RefKinds
    <3>3. ASSUME NEW i \in {1, 2}, Calls(w.st[m].handlers[n], Elem(i))
          PROVE  Serves(w.comb, i, w.st[m].handlers[n]) /\ (w.comb.elems[i] # Nothing => w.comb.elems[i].p = m)
      BY <3>1, <3>2, <3>3, SMTT(30) DEF HandlerFits
    <3> QED
      BY <1>1, <2>2, <3>3 DEF JobFits
  <2> QED
    BY <2>1, <2>2 DEF Carries
<1> QED
  BY <1>2, <1>3, <1>4

LEMMA FilledKept ==
  ASSUME NEW w, NEW u \in World, NEW J, Fit(w), Filled(w), Carries(w, u, J)
  PROVE  Filled(u)
<1> SUFFICES ASSUME w.comb.kind # "none", NEW i \in w.comb.called, w.comb.elems[i] # Nothing
             PROVE  /\ u.st[w.comb.elems[i].p].state = (IF w.comb.res[i].ok THEN "ful" ELSE "rej")
                    /\ w.comb.res[i].v = u.st[w.comb.elems[i].p].val
                    /\ ~ Settled(w.comb) => w.comb.res[i].ok = (w.comb.kind # "any")
  BY DEF Filled, Carries
<1>1. /\ w.st[w.comb.elems[i].p].state = (IF w.comb.res[i].ok THEN "ful" ELSE "rej")
      /\ w.comb.res[i].v = w.st[w.comb.elems[i].p].val
      /\ ~ Settled(w.comb) => w.comb.res[i].ok = (w.comb.kind # "any")
  BY DEF Filled
<1>2. w.comb.elems[i].p \in Promise
  BY ElemFacts
<1> QED
  BY <1>1, <1>2, SMTT(30) DEF Carries

LEMMA AwaitedKept ==
  ASSUME NEW w, NEW u \in World, NEW J, NEW K, J \subseteq K, Fit(w), Awaited(w, J), Carries(w, u, K)
  PROVE  Awaited(u, K)
<1> SUFFICES ASSUME w.comb.kind # "none", CapPair(w.comb) \in w.open, NEW i \in 1 .. w.comb.at, w.comb.elems[i] # Nothing
             PROVE  Heard(u, i, K)
  BY DEF Awaited, Carries
<1>1. w.comb.elems[i].p \in Promise /\ u.comb = w.comb
  BY ElemFacts DEF Carries
<1>2. Heard(w, i, J)
  BY DEF Awaited
<1>3. ASSUME NEW k \in DOMAIN w.st[w.comb.elems[i].p].handlers,
             Serves(w.comb, i, w.st[w.comb.elems[i].p].handlers[k])
      PROVE  Heard(u, i, K)
  <2> DEFINE e == w.comb.elems[i].p
             h == w.st[e].handlers[k]
  <2>1. \/ \E n \in DOMAIN u.st[e].handlers : u.st[e].handlers[n] = h
        \/ \E n \in DOMAIN u.jobs : u.jobs[n].kind = "react" /\ u.jobs[n].r = h
    BY <1>1, <1>3, Zenon DEF Carries
  <2> QED
    BY <1>1, <1>3, <2>1, Zenon DEF Heard
<1>4. ASSUME NEW k \in DOMAIN w.jobs, w.jobs[k].kind = "react", Serves(w.comb, i, w.jobs[k].r)
      PROVE  Heard(u, i, K)
  BY <1>1, <1>4 DEF Carries, Heard
<1> QED
  BY <1>1, <1>2, <1>3, <1>4, Zenon DEF Heard

LEMMA BodyKept ==
  ASSUME NEW w, NEW u \in World, NEW X, NEW J, NEW K, J \subseteq K, Fit(w), Body(w, X, J), Carries(w, u, K)
  PROVE  Body(u, X, K) /\ (Shut(w) => Shut(u))
<1>1. u.comb = w.comb /\ (w.comb.kind # "none" /\ CapPair(w.comb) \in u.open => CapPair(w.comb) \in w.open)
  BY DEF Carries
<1> QED
  BY <1>1, PlacedKept, FilledKept, AwaitedKept DEF Body, Shut

LEMMA HandedKept ==
  ASSUME NEW w, NEW u \in World, NEW J, Fit(w), Carries(w, u, J)
  PROVE  Known(w) => Known(u)
<1>1. u.comb = w.comb
  BY DEF Carries
<1>2. ASSUME Earned(w) PROVE Earned(u)
  <2>1. w.comb.result \in Promise /\ w.st[w.comb.result].state \in {"ful", "rej"}
    BY <1>2, ElemFacts DEF Earned, Outcome
  <2> QED
    BY <1>1, <1>2, <2>1 DEF Earned, Carries
<1> QED
  BY <1>1, <1>2 DEF Known

LEMMA RoundKept ==
  ASSUME NEW w, NEW u \in World, NEW X, NEW J, NEW K, J \subseteq K, Fit(w), Round(w, X, J), Carries(w, u, K),
         ArrIn(u) => ArrIn(w) \/ Known(w)
  PROVE  Round(u, X, K)
BY BodyKept, HandedKept DEF Round, HandedOut

LEMMA FlushedCarries ==
  ASSUME NEW w \in World, NEW u \in World, NEW p \in Promise, NEW s \in {"ful", "rej"}, NEW v \in Plain, NEW J,
         Flushed(w, u, p, s, v)
  PROVE  Carries(w, u, J) /\ (ArrIn(u) => ArrIn(w) \/ v = Arr)
<1>1. Moved(w, u, p, s, v) /\ u.comb = w.comb /\ u.open = w.open /\ w.st[p].state = "pending"
  BY FlushedJobs, ZenonT(40) DEF Flushed
<1>2. (\A m \in Promise : m # p => u.st[m] = w.st[m]) /\ u.st[p].state = s /\ u.st[p].val = v
  BY <1>1 DEF Moved
<1>3. ASSUME NEW k \in DOMAIN u.jobs
      PROVE  \/ \E n \in DOMAIN w.jobs : u.jobs[k] = w.jobs[n]
             \/ \E n \in DOMAIN w.st[p].handlers :
                  u.jobs[k].r = w.st[p].handlers[n] /\ u.jobs[k].s = s /\ u.jobs[k].v = v
  <2>1. ASSUME NEW n \in DOMAIN w.st[p].handlers, k = Len(w.jobs) + n
        PROVE  u.jobs[k].r = w.st[p].handlers[n] /\ u.jobs[k].s = s /\ u.jobs[k].v = v
    <3>1. u.jobs[k] = [kind |-> "react", r |-> w.st[p].handlers[n], s |-> s, v |-> v]
      BY <1>1, <2>1 DEF Moved
    <3> QED
      BY <3>1
  <2> QED
    BY <1>1, <2>1 DEF Moved
<1>4. \A m \in Promise : \A k \in DOMAIN u.st[m].handlers :
        \E n \in DOMAIN w.st[m].handlers : u.st[m].handlers[k] = w.st[m].handlers[n]
  BY <1>1 DEF Moved
<1>5. ASSUME NEW m \in Promise, NEW k \in DOMAIN w.st[m].handlers
      PROVE  \/ \E n \in DOMAIN u.st[m].handlers : u.st[m].handlers[n] = w.st[m].handlers[k]
             \/ \E n \in DOMAIN u.jobs : u.jobs[n].kind = "react" /\ u.jobs[n].r = w.st[m].handlers[k]
  <2>1. CASE m = p
    <3>1. /\ Len(w.jobs) + k \in DOMAIN u.jobs
          /\ u.jobs[Len(w.jobs) + k] = [kind |-> "react", r |-> w.st[p].handlers[k], s |-> s, v |-> v]
      BY <1>1, <2>1 DEF Moved
    <3> QED
      BY <2>1, <3>1
  <2>2. CASE m # p
    BY <1>2, <2>2
  <2> QED
    BY <2>1, <2>2
<1>6. \A k \in DOMAIN w.jobs : \E n \in DOMAIN u.jobs : u.jobs[n] = w.jobs[k]
  BY <1>1 DEF Moved
<1>7. Carries(w, u, J)
  BY <1>1, <1>2, <1>3, <1>4, <1>5, <1>6 DEF Carries
<1>8. ArrIn(u) => ArrIn(w) \/ v = Arr
  BY <1>2, <1>3 DEF ArrIn
<1> QED
  BY <1>7, <1>8

LEMMA RoundSettle ==
  ASSUME NEW w, Fit(w), NEW X, NEW J, Round(w, X, J), NEW p \in Promise, NEW s \in {"ful", "rej"}, NEW v \in Plain,
         v = Arr => Known(w)
  PROVE  Round(Settle(w, p, s, v), X, J)
<1> DEFINE u == Settle(w, p, s, v)
<1>1. w \in World
  BY DEF Fit
<1>2. u \in World /\ IF w.st[p].state = "pending" THEN Flushed(w, u, p, s, v) ELSE u = w
  BY <1>1, SettleParts
<1> HIDE DEF u
<1>3. Round(u, X, J)
  <2>1. CASE w.st[p].state = "pending"
    <3>1. Carries(w, u, J) /\ (ArrIn(u) => ArrIn(w) \/ v = Arr)
      BY <1>1, <1>2, <2>1, FlushedCarries
    <3> QED
      BY <1>2, <3>1, RoundKept
  <2>2. CASE w.st[p].state # "pending"
    BY <1>2, <2>2
  <2> QED
    BY <2>1, <2>2
<1> QED
  BY <1>3 DEF u

LEMMA RoundResolve ==
  ASSUME NEW w, Fit(w), NEW X, NEW J, Round(w, X, J), NEW p \in Promise, NEW v \in Value, v = Arr => Known(w)
  PROVE  Round(Resolve(w, p, v), X, J)
<1>1. w \in World
  BY DEF Fit
<1>2. CASE w.st[p].state # "pending"
  BY <1>2 DEF Resolve
<1>3. CASE w.st[p].state = "pending" /\ v \in {Prom(p), BadThen}
  <2>1. Data("err") \in Plain /\ Data("err") # Arr
    BY RefSets, RefKinds
  <2> QED
    BY <1>3, <2>1, RoundSettle DEF Resolve
<1>4. CASE w.st[p].state = "pending" /\ v \notin {Prom(p), BadThen} /\ v.k \in {"promise", "thenable"}
  <2> DEFINE j == [kind |-> "adopt", p |-> p, v |-> v]
             u == [w EXCEPT !.jobs = Append(@, j), !.follows[p] = v]
  <2>1. Resolve(w, p, v) = u
    BY <1>4 DEF Resolve
  <2>2. v \in Proms \cup {Thenable} /\ v # Arr
    BY <1>4, RefSets, RefKinds DEF Value, Plain
  <2>3. j \in Job /\ j.kind = "adopt" /\ j.v = v
    BY <2>2 DEF Job, AdoptJob
  <2> HIDE DEF j
  <2>4. Queues(w, u, j) /\ u.st = w.st /\ u.open = w.open /\ u.comb = w.comb
    BY <1>1 DEF Queues, World
  <2>5. u \in World
    <3>1. Append(w.jobs, j) \in Seq(Job) /\ [w.follows EXCEPT ![p] = v] \in [Promise -> Proms \cup {Nothing, Thenable}]
      BY <1>1, <2>2, <2>3, WorldParts
    <3> QED
      BY <1>1, <3>1, Zenon DEF World
  <2> HIDE DEF u
  <2>6. /\ \A i \in DOMAIN w.jobs : i \in DOMAIN u.jobs /\ u.jobs[i] = w.jobs[i]
        /\ \A i \in DOMAIN u.jobs : i \in DOMAIN w.jobs \/ u.jobs[i] = j
    BY <1>1, <2>3, <2>4, QueuesJobs
  <2>7. JobFits(u, j)
    BY <2>3 DEF JobFits
  <2>8. Carries(w, u, J)
    BY <2>4, <2>6, <2>7 DEF Carries
  <2>9. ArrIn(u) => ArrIn(w)
    BY <2>2, <2>3, <2>4, <2>6 DEF ArrIn
  <2> QED
    BY <2>1, <2>5, <2>8, <2>9, RoundKept
<1>5. CASE w.st[p].state = "pending" /\ v \notin {Prom(p), BadThen} /\ v.k \notin {"promise", "thenable"}
  <2>1. v \in Plain
    BY <1>5, RefSets, RefKinds DEF Value
  <2> QED
    BY <1>5, <2>1, RoundSettle DEF Resolve
<1> QED
  BY <1>2, <1>3, <1>4, <1>5

LEMMA RoundCallPair ==
  ASSUME NEW w, NEW T, NEW rn, Inv(w, T, rn), NEW X, NEW J, Round(w, X, J), NEW f \in Pairs, NEW ok \in BOOLEAN,
         NEW v \in Value, ok \/ v \in Plain, v = Arr => Known(w)
  PROVE  Round(CallPair(w, f, ok, v), X, J)
<1> DEFINE u == [w EXCEPT !.open = @ \ {f}]
<1>1. w \in World /\ Fit(w)
  BY DEF Inv, Fit
<1>2. CASE f \notin w.open
  BY <1>2 DEF CallPair
<1>3. CASE f \in w.open
  <2>1. Inv(u, T, rn) /\ f.p \in Promise
    BY <1>3, ShutKeeps
  <2>2. u.st = w.st /\ u.jobs = w.jobs /\ u.open \subseteq w.open /\ u.comb = w.comb
    BY <1>1 DEF World
  <2>3. CallPair(w, f, ok, v) = IF ok THEN Resolve(u, f.p, v) ELSE Settle(u, f.p, "rej", v)
    BY <1>3 DEF CallPair
  <2> HIDE DEF u
  <2>4. u \in World /\ Fit(u)
    BY <2>1 DEF Inv, Fit
  <2>5. Round(u, X, J) /\ (v = Arr => Known(u))
    <3>1. Carries(w, u, J)
      BY <2>2 DEF Carries
    <3>2. ArrIn(u) <=> ArrIn(w)
      BY <2>2 DEF ArrIn
    <3> QED
      BY <1>1, <2>4, <3>1, <3>2, RoundKept, HandedKept
  <2> QED
    BY <2>1, <2>3, <2>4, <2>5, RoundResolve, RoundSettle
<1> QED
  BY <1>2, <1>3

LEMMA OneMoreKeeps ==
  ASSUME NEW S, NEW a \in Seq(S), NEW x, NEW b, b = Append(a, x) \/ b = a \o <<x>>
  PROVE  /\ \A i \in DOMAIN a : i \in DOMAIN b /\ b[i] = a[i]
         /\ \E i \in DOMAIN b : b[i] = x
<1>1. Len(a) \in Nat /\ Len(b) = Len(a) + 1 /\ DOMAIN a = 1 .. Len(a) /\ DOMAIN b = 1 .. Len(b)
  OBVIOUS
<1>2. \A i \in DOMAIN a : i \in DOMAIN b /\ b[i] = a[i]
  OBVIOUS
<1>3. Len(a) + 1 \in DOMAIN b /\ b[Len(a) + 1] = x
  OBVIOUS
<1> QED
  BY <1>2, <1>3

(* A reaction with an element function is one of that element's.             *)
LEMMA RoundThen ==
  ASSUME NEW w, NEW T, NEW rn, Inv(w, T, rn), NEW X, NEW J, Round(w, X, J), NEW p \in Promise,
         NEW onF, NEW onR, NEW result,
         promiseThenCap(w, p, onF, onR, result) \in World,
         \A i \in {1, 2} : Elem(i) \in {onF, onR} =>
           onF = OnF(w.comb, i) /\ onR = OnR(w.comb, i) /\ w.comb.elems[i] = Prom(p)
  PROVE  LET u == promiseThenCap(w, p, onF, onR, result)
         IN  /\ Round(u, X, J) /\ u.comb = w.comb
             /\ \A i : w.comb.elems[i] = Prom(p) /\ onF = OnF(w.comb, i) /\ onR = OnR(w.comb, i) => Heard(u, i, {})
<1> DEFINE r == [onF |-> onF, onR |-> onR, result |-> result, src |-> p, at |-> w.cnt[p] + 1]
           u == promiseThenCap(w, p, onF, onR, result)
           n == w.st[p].state
           c == [w.st[p] EXCEPT !.handlers = Append(@, r)]
           j == [kind |-> "react", r |-> r, s |-> w.st[p].state, v |-> w.st[p].val]
<1>1. w \in World /\ Fit(w) /\ w.st \in [Promise -> Cell] /\ w.jobs \in Seq(Job)
  BY WorldParts DEF Inv, Fit
<1>2. /\ HandlerFits(w.comb, p, r)
      /\ \A i : onF = OnF(w.comb, i) /\ onR = OnR(w.comb, i) => Serves(w.comb, i, r)
  BY DEF HandlerFits, Calls, Serves
<1>3. j.kind = "react" /\ j.r = r /\ j.s = w.st[p].state /\ j.v = w.st[p].val
  OBVIOUS
<1>4. u.open = w.open /\ u.comb = w.comb
  BY <1>1 DEF promiseThenCap, World
<1>5. Prom(p).p = p
  BY RefKinds
<1>6. CASE n = "pending"
  <2>1. u.st = [w.st EXCEPT ![p] = c] /\ u.jobs = w.jobs
    BY <1>1, <1>6 DEF promiseThenCap, World
  <2>2. c.state = w.st[p].state /\ c.val = w.st[p].val /\ c.handlers = Append(w.st[p].handlers, r)
        /\ w.st[p].handlers \in Seq(Reaction)
    BY <1>1, WorldParts DEF Cell
  <2> HIDE DEF c, r, u, j
  <2>3. u.st[p] = c /\ \A m \in Promise : m # p => u.st[m] = w.st[m]
    BY <1>1, <2>1
  <2>4. \A m \in Promise : u.st[m].state = w.st[m].state /\ u.st[m].val = w.st[m].val
    BY <2>2, <2>3
  <2>5. \A i \in DOMAIN u.st[p].handlers :
          u.st[p].handlers[i] = r \/ \E k \in DOMAIN w.st[p].handlers : u.st[p].handlers[i] = w.st[p].handlers[k]
    <3>1. u.st[p].handlers = Append(w.st[p].handlers, r) /\ w.st[p].handlers \in Seq(Reaction)
      BY <2>2, <2>3
    <3>2. \A b : b = Append(w.st[p].handlers, r) =>
            \A i \in DOMAIN b : b[i] = r \/ \E k \in DOMAIN w.st[p].handlers : b[i] = w.st[p].handlers[k]
      BY <3>1, OneMore
    <3> QED
      BY <3>1, <3>2
  <2>6. /\ \A i \in DOMAIN w.st[p].handlers : i \in DOMAIN u.st[p].handlers /\ u.st[p].handlers[i] = w.st[p].handlers[i]
        /\ \E i \in DOMAIN u.st[p].handlers : u.st[p].handlers[i] = r
    <3>1. u.st[p].handlers = Append(w.st[p].handlers, r) /\ w.st[p].handlers \in Seq(Reaction)
      BY <2>2, <2>3
    <3>2. \A b : b = Append(w.st[p].handlers, r) =>
            /\ \A i \in DOMAIN w.st[p].handlers : i \in DOMAIN b /\ b[i] = w.st[p].handlers[i]
            /\ \E i \in DOMAIN b : b[i] = r
      BY <3>1, OneMoreKeeps
    <3> QED
      BY <3>1, <3>2, Zenon
  <2>7. \A m \in Promise : \A k \in DOMAIN u.st[m].handlers :
          \/ \E i \in DOMAIN w.st[m].handlers : u.st[m].handlers[k] = w.st[m].handlers[i]
          \/ HandlerFits(w.comb, m, u.st[m].handlers[k])
    BY <1>2, <2>3, <2>5
  <2>8. \A m \in Promise : \A k \in DOMAIN w.st[m].handlers :
          \E i \in DOMAIN u.st[m].handlers : u.st[m].handlers[i] = w.st[m].handlers[k]
    BY <2>3, <2>6
  <2>9. Carries(w, u, J)
    BY <1>4, <2>1, <2>4, <2>7, <2>8 DEF Carries
  <2>10. ArrIn(u) => ArrIn(w)
    BY <2>1, <2>4 DEF ArrIn
  <2>11. Round(u, X, J)
    BY <1>1, <2>9, <2>10, RoundKept DEF u
  <2>12. \A i : w.comb.elems[i] = Prom(p) /\ onF = OnF(w.comb, i) /\ onR = OnR(w.comb, i) => Heard(u, i, {})
    BY <1>2, <1>4, <1>5, <2>6 DEF Heard
  <2> QED
    BY <1>4, <2>11, <2>12 DEF u
<1>7. CASE n # "pending"
  <2>1. u.st = w.st /\ u.jobs = w.jobs \o Reacts(<<r>>, w.st[p].state, w.st[p].val)
    BY <1>1, <1>7, Zenon DEF promiseThenCap, World
  <2>2. Reacts(<<r>>, w.st[p].state, w.st[p].val) = <<j>>
    BY DEF Reacts
  <2> HIDE DEF c, r, u, j
  <2>3. u.jobs = w.jobs \o <<j>> /\ w.jobs \in Seq(Job)
    BY <1>1, <2>1, <2>2, Zenon
  <2>4. \A i \in DOMAIN u.jobs : u.jobs[i] = j \/ \E k \in DOMAIN w.jobs : u.jobs[i] = w.jobs[k]
    BY <2>3, OneMore
  <2>5. /\ \A i \in DOMAIN w.jobs : i \in DOMAIN u.jobs /\ u.jobs[i] = w.jobs[i]
        /\ \E i \in DOMAIN u.jobs : u.jobs[i] = j
    BY <2>3, OneMoreKeeps, SMTT(30)
  <2>6. JobFits(u, j)
    <3>1. ASSUME NEW i \in {1, 2}, Calls(r, Elem(i))
          PROVE  Serves(w.comb, i, r) /\ (w.comb.elems[i] # Nothing => w.comb.elems[i].p = p)
      BY <1>2, <1>5, <3>1 DEF HandlerFits
    <3> QED
      BY <1>3, <1>4, <2>1, <3>1 DEF JobFits
  <2>7. Carries(w, u, J)
    BY <1>4, <2>1, <2>4, <2>5, <2>6, Zenon DEF Carries
  <2>8. ArrIn(u) => ArrIn(w)
    BY <1>3, <2>1, <2>4, Zenon DEF ArrIn
  <2>9. Round(u, X, J)
    BY <1>1, <2>7, <2>8, RoundKept DEF u
  <2>10. \A i : w.comb.elems[i] = Prom(p) /\ onF = OnF(w.comb, i) /\ onR = OnR(w.comb, i) => Heard(u, i, {})
    BY <1>2, <1>3, <1>4, <2>5 DEF Heard
  <2> QED
    BY <1>4, <2>9, <2>10 DEF u
<1> QED
  BY <1>6, <1>7

LEMMA RoundNewPair ==
  ASSUME NEW w, NEW T, NEW rn, Inv(w, T, rn), NEW X, NEW J, Round(w, X, J), NEW p \in Promise,
         NewPair(w, p) \in World
  PROVE  Round(NewPair(w, p), X, J)
<1> DEFINE f == Pair(p, w.gen[p] + 1)
           u == NewPair(w, p)
<1>1. w \in World /\ Fit(w) /\ Sound(w) /\ w.gen \in [Promise -> Nat]
  BY WorldParts DEF Inv, Fit
<1>2. u.open = w.open \cup {f} /\ u.st = w.st /\ u.jobs = w.jobs /\ u.comb = w.comb
  BY <1>1 DEF World, NewPair
<1>3. ~ Good(w, f)
  <2>1. f.k = "pair" /\ f.p = p /\ f.n = w.gen[p] + 1 /\ w.gen[p] \in Nat
    BY <1>1, RefKinds
  <2> QED
    BY <2>1 DEF Good
<1>4. w.comb.kind # "none" => CapPair(w.comb) # f
  BY <1>1, <1>3 DEF Sound
<1> HIDE DEF f, u
<1>5. Carries(w, u, J)
  BY <1>2, <1>4 DEF Carries
<1>6. ArrIn(u) => ArrIn(w)
  BY <1>2 DEF ArrIn
<1> QED
  BY <1>1, <1>5, <1>6, RoundKept DEF u

LEMMA RoundFresh ==
  ASSUME NEW w, NEW T, NEW rn, Inv(w, T, rn), NEW X, NEW J, Round(w, X, J), NEW p \in Promise, w.st[p].state = "free",
         [w EXCEPT !.st[p] = Fresh] \in World
  PROVE  Round([w EXCEPT !.st[p] = Fresh], X, J)
<1> DEFINE u == [w EXCEPT !.st[p] = Fresh]
<1>1. w \in World /\ Fit(w) /\ w.st \in [Promise -> Cell]
  BY WorldParts DEF Inv, Fit
<1>2. u.st = [w.st EXCEPT ![p] = Fresh] /\ u.open = w.open /\ u.jobs = w.jobs /\ u.comb = w.comb
  BY <1>1 DEF World
<1>3. DOMAIN Fresh.handlers = {} /\ Fresh.val # Arr /\ DOMAIN w.st[p].handlers = {}
  BY <1>1, RefKinds DEF Fresh, Fit
<1>4. u.st[p] = Fresh /\ \A m \in Promise : m # p => u.st[m] = w.st[m]
  BY <1>1, <1>2
<1> HIDE DEF u
<1>5. Carries(w, u, J)
  BY <1>2, <1>3, <1>4 DEF Carries
<1>6. ArrIn(u) => ArrIn(w)
  BY <1>2, <1>3, <1>4 DEF ArrIn
<1> QED
  BY <1>1, <1>5, <1>6, RoundKept DEF u

LEMMA RoundTake ==
  ASSUME NEW w, NEW T, NEW rn, Inv(w, T, rn), NEW X, Round(w, X, {}), w.jobs # <<>>,
         [w EXCEPT !.jobs = Tail(@)] \in World
  PROVE  Round([w EXCEPT !.jobs = Tail(@)], X, {w.jobs[1]})
<1> DEFINE u == [w EXCEPT !.jobs = Tail(@)]
           J == {w.jobs[1]}
<1>1. w \in World /\ Fit(w)
  BY DEF Inv, Fit
<1>2. u.st = w.st /\ u.jobs = Tail(w.jobs) /\ u.open = w.open /\ u.comb = w.comb
  BY <1>1 DEF World
<1> HIDE DEF u
<1>3. /\ \A i \in DOMAIN u.jobs : i + 1 \in DOMAIN w.jobs /\ u.jobs[i] = w.jobs[i + 1]
      /\ \A i \in DOMAIN w.jobs : i # 1 => \E k \in DOMAIN u.jobs : w.jobs[i] = u.jobs[k]
  <2>1. /\ \A i \in DOMAIN u.jobs : i + 1 \in DOMAIN w.jobs /\ u.jobs[i] = w.jobs[i + 1]
        /\ \A i \in DOMAIN w.jobs : i # 1 => \E k \in DOMAIN u.jobs : i = k + 1
    BY <1>1, <1>2, TailFacts
  <2> QED
    BY <2>1
<1>4. Carries(w, u, J)
  BY <1>2, <1>3 DEF Carries
<1>5. ArrIn(u) => ArrIn(w)
  BY <1>2, <1>3 DEF ArrIn
<1> HIDE DEF J
<1>6. {} \subseteq J
  OBVIOUS
<1> QED
  BY <1>1, <1>4, <1>5, <1>6, RoundKept DEF u, J

(* A job that was taken is forgotten once it did its part. *)
LEMMA RoundDone ==
  ASSUME NEW w, NEW X, NEW j, Round(w, X, {j}),
         w.comb.kind # "none" /\ CapPair(w.comb) \in w.open /\ j.kind = "react" =>
           \A i \in {1, 2} : Serves(w.comb, i, j.r) => i \in w.comb.called,
         w.comb.kind # "none" => w.comb.at \in {0, 1, 2}
  PROVE  Round(w, X, {})
<1>1. Awaited(w, {})
  <2> SUFFICES ASSUME w.comb.kind # "none", CapPair(w.comb) \in w.open, NEW i \in 1 .. w.comb.at, w.comb.elems[i] # Nothing
               PROVE  Heard(w, i, {})
    BY DEF Awaited
  <2>1. Heard(w, i, {j})
    BY DEF Round, Body, Awaited
  <2>2. i \in {1, 2}
    OBVIOUS
  <2> QED
    BY <2>1, <2>2, Zenon DEF Heard
<1> QED
  BY <1>1 DEF Round, Body

(* The script may be given the functions of an element that is no promise.   *)
LEMMA RoundHeld ==
  ASSUME NEW w, NEW X, NEW J, Round(w, X, J), NEW Y,
         \A i \in {1, 2} : Elem(i) \in Y => Elem(i) \in X \/ (w.comb.kind # "race" /\ w.comb.elems[i] = Nothing)
  PROVE  Round(w, Y, J)
BY DEF Round, Body, Placed

LEMMA WaitsFacts ==
  ASSUME NEW c, c.at \in Nat
  PROVE  /\ Waits(c) \in Nat /\ IsFiniteSet(1 .. c.at \ c.called)
         /\ Waits(c) = 0 => 1 .. c.at \subseteq c.called
         /\ 1 .. c.at \subseteq c.called => Waits(c) = 0
<1> DEFINE S == 1 .. c.at \ c.called
<1>1. IsFiniteSet(1 .. c.at)
  BY FS_Interval
<1>2. IsFiniteSet(S)
  BY <1>1, FS_Subset
<1>3. Cardinality(S) \in Nat /\ (Cardinality(S) = 0 <=> S = {})
  BY <1>2, FS_CardinalityType, FS_EmptySet, Zenon
<1> QED
  BY <1>2, <1>3 DEF Waits

LEMMA WaitsLess ==
  ASSUME NEW c, c.at \in Nat, NEW d, d.at = c.at, NEW i \in 1 .. c.at, i \notin c.called, d.called = c.called \cup {i}
  PROVE  Waits(d) = Waits(c) - 1
<1> DEFINE S == 1 .. c.at \ c.called
<1>1. IsFiniteSet(S) /\ i \in S /\ 1 .. d.at \ d.called = S \ {i}
  BY WaitsFacts
<1> HIDE DEF S
<1>2. Cardinality(S \ {i}) = Cardinality(S) - 1
  BY <1>1, FS_RemoveElement, Zenon
<1> QED
  BY <1>1, <1>2, Zenon DEF Waits, S

LEMMA WaitsMore ==
  ASSUME NEW c, c.at \in Nat, NEW d, d.at = c.at + 1, d.called = c.called, c.called \subseteq 1 .. c.at
  PROVE  Waits(d) = Waits(c) + 1
<1> DEFINE S == 1 .. c.at \ c.called
<1>1. IsFiniteSet(S) /\ c.at + 1 \notin S /\ 1 .. d.at \ d.called = S \cup {c.at + 1}
  BY WaitsFacts
<1> HIDE DEF S
<1>2. Cardinality(S \cup {c.at + 1}) = Cardinality(S) + 1
  BY <1>1, FS_AddElement, Zenon
<1> QED
  BY <1>1, <1>2 DEF Waits, S

(* The combinator goes one further: what it filled in is right, and what it  *)
(* counts will be heard of.                                                  *)
Advances(w, c, J) ==
  /\ c.kind = w.comb.kind /\ c.result = w.comb.result /\ c.elems = w.comb.elems
  /\ w.comb.kind # "none" /\ w.comb.called \subseteq c.called
  /\ \A i \in c.called : c.elems[i] # Nothing =>
       \/ i \in w.comb.called /\ c.res[i] = w.comb.res[i]
       \/ /\ w.st[c.elems[i].p].state = (IF c.res[i].ok THEN "ful" ELSE "rej") /\ c.res[i].v = w.st[c.elems[i].p].val
          /\ ~ Settled(c) => c.res[i].ok = (c.kind # "any")
  /\ \A i \in 1 .. c.at : c.elems[i] # Nothing =>
       i \in 1 .. w.comb.at \/ Heard(w, i, J)

LEMMA CombAdvances ==
  ASSUME NEW w, NEW u, NEW X, NEW J, Placed(w, X), Filled(w), Awaited(w, J), HandedOut(w), ~ Earned(w),
         u.st = w.st, u.jobs = w.jobs, u.open = w.open, Advances(w, u.comb, J)
  PROVE  Placed(u, X) /\ Filled(u) /\ Awaited(u, J) /\ ~ ArrIn(u)
<1> DEFINE c == u.comb
<1>1. CapPair(c) = CapPair(w.comb) /\ Settled(c) = Settled(w.comb) /\ c.kind # "none" /\ c.kind = w.comb.kind /\ c.elems = w.comb.elems
  BY DEF Advances, CapPair, Settled
<1>2. \A i, r : Serves(c, i, r) <=> Serves(w.comb, i, r)
  BY <1>1 DEF Serves, OnF, OnR
<1>3. Placed(u, X)
  <2>1. /\ \A i \in {1, 2} : Elem(i) \in X => w.comb.kind # "race" /\ w.comb.elems[i] = Nothing
        /\ \A m \in Promise : \A k \in DOMAIN w.st[m].handlers : HandlerFits(w.comb, m, w.st[m].handlers[k])
        /\ \A k \in DOMAIN w.jobs : JobFits(w, w.jobs[k])
    BY <1>1 DEF Placed
  <2>2. \A m, h : HandlerFits(w.comb, m, h) => HandlerFits(c, m, h)
    BY <1>1, <1>2 DEF HandlerFits
  <2>3. \A j : JobFits(w, j) => JobFits(u, j)
    BY <1>1, <1>2, SMTT(30) DEF JobFits
  <2> QED
    BY <1>1, <2>1, <2>2, <2>3 DEF Placed
<1>4. Filled(u)
  BY <1>1 DEF Filled, Advances
<1>5. Awaited(u, J)
  <2> SUFFICES ASSUME CapPair(w.comb) \in w.open, NEW i \in 1 .. c.at, c.elems[i] # Nothing
               PROVE  Heard(u, i, J)
    BY <1>1 DEF Awaited
  <2>1. CASE i \in 1 .. w.comb.at
    <3>1. Heard(w, i, J)
      BY <1>1, <2>1 DEF Awaited
    <3> QED
      BY <1>1, <1>2, <3>1, Zenon DEF Heard, Advances
  <2>2. CASE Heard(w, i, J)
    BY <1>1, <1>2, <2>2, Zenon DEF Heard, Advances
  <2> QED
    BY <2>1, <2>2 DEF Advances
<1>6. ~ Known(w) /\ ~ ArrIn(w)
  BY <1>1 DEF Known, HandedOut
<1>7. ~ ArrIn(u)
  BY <1>6 DEF ArrIn
<1> QED
  BY <1>3, <1>4, <1>5, <1>7

(* What has nothing more to wait for has its array delivered. *)
Delivers(u) == IF u.comb.remaining # 0 THEN u ELSE CallPair(u, CapPair(u.comb), u.comb.kind # "any", Arr)

LEMMA NothingLeft ==
  ASSUME NEW u, Fit(u), u.comb.kind # "none", Counts(u.comb), u.comb.remaining = 0
  PROVE  u.comb.kind # "race" /\ u.comb.phase = "done" /\ u.comb.called = {1, 2}
<1> DEFINE c == u.comb
<1>1. c \in Call0 /\ c.called \subseteq {1, 2} /\ c.at \in Nat
  BY ElemFacts, CombFacts, WorldParts DEF Fit
<1>2. c.kind # "race" /\ c.kind # "none" /\ c.remaining = 0 /\ Counts(c)
  BY DEF Counts
<1> HIDE DEF c
<1>3. Waits(c) + (IF c.phase = "done" THEN 0 ELSE 1) = 0 /\ Waits(c) \in Nat
  <2>1. Waits(c) \in Nat
    BY <1>1, WaitsFacts, Zenon
  <2> QED
    BY <1>2, <2>1 DEF Counts, Counted
<1>4. c.phase = "done" /\ Waits(c) = 0
  BY <1>3
<1>5. c.at = 2
  BY <1>2, <1>4 DEF Counts
<1>6. 1 .. c.at \subseteq c.called
  BY <1>1, <1>4, WaitsFacts, Zenon
<1>7. 1 .. 2 = {1, 2}
  OBVIOUS
<1> QED
  BY <1>1, <1>2, <1>4, <1>5, <1>6, <1>7 DEF c

LEMMA RoundDelivers ==
  ASSUME NEW u, NEW T, NEW rn, Inv(u, T, rn), u.comb.kind # "none", NEW X, NEW J, Body(u, X, J), HandedOut(u)
  PROVE  Round(Delivers(u), X, J) /\ Delivers(u).comb = u.comb
<1> DEFINE f == CapPair(u.comb)
           ok == u.comb.kind # "any"
           y == [u EXCEPT !.open = @ \ {f}]
           x == Delivers(u)
           s == Outcome(u.comb)
           p == u.comb.result
<1>1. u \in World /\ Fit(u) /\ p \in Promise /\ Once(u, T)
  BY ElemFacts DEF Inv, Fit
<1>2. CASE u.comb.remaining # 0
  BY <1>2 DEF Delivers, Round, Shut
<1>3. CASE u.comb.remaining = 0 /\ f \notin u.open
  BY <1>3 DEF Delivers, Round, Shut, CallPair
<1>4. CASE u.comb.remaining = 0 /\ f \in u.open
  <2>1. /\ Inv(y, T, rn) /\ y.comb = u.comb
    BY <1>4, ShutKeeps
  <2>2. y.st = u.st /\ y.jobs = u.jobs /\ y.open = u.open \ {f} /\ y.comb = u.comb
    BY <1>1 DEF World
  <2>3. f.p = p
    BY RefKinds DEF CapPair
  <2>4. y.st[p].state = "pending"
    BY <1>1, <1>4, <2>2, <2>3 DEF Once
  <2>5. Arr \in Plain /\ Arr.k = "arr" /\ Arr # Prom(p) /\ Arr # BadThen /\ s \in {"ful", "rej"}
    BY RefKinds, RefSets DEF Outcome
  <2>6. x = Settle(y, p, s, Arr)
    <3>1. x = IF ok THEN Resolve(y, p, Arr) ELSE Settle(y, p, "rej", Arr)
      BY <1>4, <2>3 DEF Delivers, CallPair
    <3>2. s = IF ok THEN "ful" ELSE "rej"
      BY DEF Outcome
    <3> HIDE DEF x, y, s, ok, p
    <3>3. Resolve(y, p, Arr) = Settle(y, p, "ful", Arr)
      BY <2>4, <2>5 DEF Resolve
    <3> QED
      BY <3>1, <3>2, <3>3
  <2> HIDE DEF x, y
  <2>7. y \in World /\ Fit(y)
    BY <2>1 DEF Inv, Fit
  <2>8. Body(y, X, J) /\ f \notin y.open
    <3>1. Carries(u, y, J)
      BY <2>2 DEF Carries
    <3> QED
      BY <1>1, <2>2, <2>7, <3>1, BodyKept
  <2>9. x \in World /\ Flushed(y, x, p, s, Arr)
    BY <1>1, <2>4, <2>5, <2>6, <2>7, SettleParts
  <2>10. Carries(y, x, J) /\ x.open = y.open /\ x.comb = y.comb /\ x.st[p].state = s /\ x.st[p].val = Arr
    <3> HIDE DEF p, s
    <3>1. Carries(y, x, J)
      BY <1>1, <2>5, <2>7, <2>9, FlushedCarries
    <3>2. x.st = [y.st EXCEPT ![p] = [state |-> s, val |-> Arr, handlers |-> <<>>]]
          /\ x.open = y.open /\ x.comb = y.comb
      BY <2>9 DEF Flushed
    <3>3. x.st[p] = [state |-> s, val |-> Arr, handlers |-> <<>>]
      BY <1>1, <2>7, <3>2, WorldParts
    <3> QED
      BY <3>1, <3>2, <3>3
  <2>11. Body(x, X, J)
    BY <2>7, <2>8, <2>9, <2>10, BodyKept, Zenon
  <2>12. Shut(x)
    BY <2>2, <2>8, <2>10 DEF Shut
  <2>13. Earned(x)
    <3>1. u.comb.phase = "done" /\ u.comb.called = {1, 2}
      BY <1>1, <1>4, NothingLeft DEF Body
    <3> QED
      BY <2>2, <2>10, <3>1 DEF Earned
  <2> QED
    BY <2>2, <2>10, <2>11, <2>12, <2>13 DEF Round, HandedOut, Known, x
<1> QED
  BY <1>2, <1>3, <1>4

(* tryFinish, when the last but this was counted. *)
LEMMA RoundTryFinish ==
  ASSUME NEW w, NEW T, NEW rn, Inv(w, T, rn), w.comb.kind # "none", NEW X, NEW J,
         Placed(w, X), Filled(w), Awaited(w, J), ~ ArrIn(w), Counts([w.comb EXCEPT !.remaining = @ - 1])
  PROVE  Round(tryFinish(w), X, J) 
         /\ tryFinish(w).comb.called = w.comb.called /\ tryFinish(w).comb.kind = w.comb.kind
         /\ tryFinish(w).comb.result = w.comb.result
<1> DEFINE c == [w.comb EXCEPT !.remaining = @ - 1]
           u == [w EXCEPT !.comb = c]
<1>1. w \in World /\ Fit(w) /\ w.comb \in Call0
  BY WorldParts DEF Inv, Fit
<1>2. c.kind = w.comb.kind /\ c.result = w.comb.result /\ c.elems = w.comb.elems /\ c.at = w.comb.at
      /\ c.called = w.comb.called /\ c.res = w.comb.res /\ c.phase = w.comb.phase
  BY <1>1 DEF Call0
<1>3. c \in Call0
  <2>1. w.comb.remaining - 1 \in Int
    BY <1>1, CombFacts
  <2> QED
    BY <1>1, <2>1, Zenon DEF Call0
<1>4. tryFinish(w) = Delivers(u)
  BY <1>1 DEF tryFinish, Delivers, World
<1>5. Counts(c)
  OBVIOUS
<1> HIDE DEF c
<1>6. /\ Inv(u, T, rn) /\ u.comb = c /\ u.st = w.st /\ u.jobs = w.jobs /\ u.open = w.open
  <2>1. /\ c.kind \in Kinds /\ c.result \in Promise /\ Len(c.elems) = 2 /\ Len(c.res) = c.at
        /\ c.called \subseteq 1 .. c.at /\ c.phase # "none" /\ c.kind # "none" /\ w.comb.at <= c.at
    <3>1. w.comb.at \in Nat
      BY <1>1, CombFacts
    <3> QED
      BY <1>1, <1>2, <3>1 DEF Fit
  <2> QED
    BY <1>1, <1>2, <1>3, <2>1, CombKeeps
<1> HIDE DEF u
<1>7. Body(u, X, J)
  <2>1. /\ \A i : OnF(c, i) = OnF(w.comb, i) /\ OnR(c, i) = OnR(w.comb, i)
        /\ CapPair(c) = CapPair(w.comb) /\ Settled(c) = Settled(w.comb)
    BY <1>2, SMTT(30) DEF OnF, OnR, CapPair, Settled
  <2>2. Placed(u, X)
    BY <1>2, <1>6, <2>1, SMTT(30) DEF Placed, HandlerFits, JobFits, Serves
  <2>3. Filled(u)
    BY <1>2, <1>6, <2>1 DEF Filled
  <2>4. Awaited(u, J)
    <3>1. \A i, r : Serves(c, i, r) <=> Serves(w.comb, i, r)
      BY <2>1 DEF Serves
    <3>2. \A i : Heard(w, i, J) => Heard(u, i, J)
      BY <1>2, <1>6, <3>1, Zenon DEF Heard
    <3> QED
      BY <1>2, <1>6, <2>1, <3>2 DEF Awaited
  <2> QED
    BY <1>5, <1>6, <2>2, <2>3, <2>4 DEF Body
<1>8. HandedOut(u)
  BY <1>6 DEF HandedOut, ArrIn
<1> QED
  BY <1>2, <1>4, <1>6, <1>7, <1>8, RoundDelivers

LEMMA CountsLess ==
  ASSUME NEW a \in Call0, Counts(a), a.kind \notin {"none", "race"}, NEW i \in 1 .. a.at, i \notin a.called,
         NEW d, d.kind = a.kind, d.phase = a.phase, d.at = a.at, d.called = a.called \cup {i}, d.remaining = a.remaining - 1
  PROVE  Counts(d)
<1>1. a.at \in Nat /\ a.remaining = Waits(a) + (IF a.phase = "done" THEN 0 ELSE 1)
  BY CombFacts DEF Counts, Counted
<1>2. Waits(d) = Waits(a) - 1 /\ Waits(a) \in Nat
  BY <1>1, WaitsLess, WaitsFacts, Zenon
<1>3. d.remaining = Waits(d) + (IF d.phase = "done" THEN 0 ELSE 1)
  BY <1>1, <1>2
<1> QED
  BY <1>3 DEF Counts

(* An element function called with how its element ended. *)
LEMMA RoundCallElem ==
  ASSUME NEW w, NEW T, NEW rn, Inv(w, T, rn), NEW X, NEW J, Round(w, X, J), NEW i \in {1, 2}, Good(w, Elem(i)),
         NEW ok \in BOOLEAN, NEW v \in Value, w.comb.kind # "race",
         w.comb.elems[i] # Nothing => /\ w.st[w.comb.elems[i].p].state = (IF ok THEN "ful" ELSE "rej")
                                      /\ v = w.st[w.comb.elems[i].p].val,
         ~ Settled(w.comb) => ok = (w.comb.kind # "any")
  PROVE  LET x == CallElem(w, i, ok, v)
         IN  Round(x, X, J) /\ i \in x.comb.called /\ x.comb.kind = w.comb.kind /\ x.comb.result = w.comb.result
<1> DEFINE x == CallElem(w, i, ok, v)
<1>1. PICK u : /\ Inv(u, T, rn) /\ Later(w, u) /\ u \in World /\ w \in World
               /\ u.gen = w.gen /\ u.st = w.st /\ u.jobs = w.jobs /\ u.open = w.open /\ u.follows = w.follows
               /\ u.comb.kind = w.comb.kind /\ u.comb.result = w.comb.result /\ w.comb.kind # "none"
               /\ x = w \/ x = tryFinish(u)
               /\ Fills(w, u, i, ok, v)
  BY CallElemParts
<1>2. /\ u.comb.elems = w.comb.elems /\ u.comb.at = w.comb.at /\ u.comb.phase = w.comb.phase
      /\ u.comb.remaining = w.comb.remaining /\ u.comb.called = w.comb.called \cup {i}
      /\ u.comb.res = [w.comb.res EXCEPT ![i] = [ok |-> ok, v |-> v]] /\ i \in 1 .. w.comb.at
      /\ x = IF i \in w.comb.called THEN w ELSE tryFinish(u)
  BY <1>1 DEF Fills
<1> HIDE DEF x
<1>3. CASE i \in w.comb.called
  BY <1>2, <1>3 DEF x
<1>4. CASE i \notin w.comb.called
  <2>1. Fit(w) /\ w.comb \in Call0 /\ u.comb \in Call0 /\ Len(w.comb.res) = w.comb.at /\ w.comb.called \subseteq 1 .. w.comb.at
    BY <1>1, WorldParts DEF Inv, Fit
  <2>2. w.comb.res \in Seq([ok : BOOLEAN, v : Value]) /\ DOMAIN w.comb.res = 1 .. w.comb.at
    <3>1. w.comb.res \in Seq([ok : BOOLEAN, v : Value])
      BY <2>1, CombFacts, Zenon
    <3> QED
      BY <2>1, <3>1
  <2>3. /\ u.comb.res[i].ok = ok /\ u.comb.res[i].v = v
        /\ \A k \in w.comb.called : u.comb.res[k] = w.comb.res[k]
    BY <1>2, <1>4, <2>1, <2>2
  <2>4. /\ Counts(w.comb) /\ Placed(w, X) /\ Filled(w) /\ Awaited(w, J) /\ HandedOut(w)
    BY DEF Round, Body
  <2>5. ~ Earned(w)
    BY <1>4, SMTT(30) DEF Earned
  <2>6. Advances(w, u.comb, J)
    <3>1. Settled(u.comb) = Settled(w.comb)
      BY <1>1 DEF Settled
    <3>2. \A k \in u.comb.called : u.comb.elems[k] # Nothing =>
            \/ k \in w.comb.called /\ u.comb.res[k] = w.comb.res[k]
            \/ /\ w.st[u.comb.elems[k].p].state = (IF u.comb.res[k].ok THEN "ful" ELSE "rej")
               /\ u.comb.res[k].v = w.st[u.comb.elems[k].p].val
               /\ ~ Settled(u.comb) => u.comb.res[k].ok = (u.comb.kind # "any")
      BY <1>1, <1>2, <2>3, <3>1
    <3> QED
      BY <1>1, <1>2, <3>2 DEF Advances
  <2>7. Placed(u, X) /\ Filled(u) /\ Awaited(u, J) /\ ~ ArrIn(u)
    BY <1>1, <2>4, <2>5, <2>6, CombAdvances
  <2>8. Counts([u.comb EXCEPT !.remaining = @ - 1])
    <3> DEFINE d == [u.comb EXCEPT !.remaining = @ - 1]
    <3>1. d.kind = w.comb.kind /\ d.phase = w.comb.phase /\ d.at = w.comb.at /\ d.called = w.comb.called \cup {i}
          /\ d.remaining = w.comb.remaining - 1
      BY <1>1, <1>2, <2>1 DEF Call0
    <3> HIDE DEF d
    <3>2. Counts(d)
      BY <1>1, <1>2, <1>4, <2>1, <2>4, <3>1, CountsLess
    <3> QED
      BY <3>2 DEF d
  <2>9. Round(tryFinish(u), X, J) /\ tryFinish(u).comb.called = u.comb.called
        /\ tryFinish(u).comb.kind = u.comb.kind /\ tryFinish(u).comb.result = u.comb.result
    BY <1>1, <2>7, <2>8, RoundTryFinish
  <2> QED
    BY <1>1, <1>2, <1>4, <2>9 DEF x
<1> QED
  BY <1>3, <1>4

LEMMA CallPairShuts ==
  ASSUME NEW w \in World, NEW f \in Pairs, NEW ok \in BOOLEAN, NEW v \in Value, ok \/ v \in Plain
  PROVE  f \notin CallPair(w, f, ok, v).open
<1> DEFINE u == [w EXCEPT !.open = @ \ {f}]
<1>1. u \in World /\ f \notin u.open /\ f.p \in Promise
  BY RefSets, Zenon DEF World
<1> HIDE DEF u
<1>2. \A p \in Promise, s \in {"ful", "rej"}, a \in Plain : Settle(u, p, s, a).open = u.open
  BY <1>1, SettleParts, ZenonT(40) DEF Flushed
<1>3. Resolve(u, f.p, v).open = u.open
  <2>1. Data("err") \in Plain
    BY RefSets
  <2>2. CASE u.st[f.p].state # "pending"
    BY <2>2 DEF Resolve
  <2>3. CASE u.st[f.p].state = "pending" /\ v \in {Prom(f.p), BadThen}
    BY <1>1, <1>2, <2>1, <2>3 DEF Resolve
  <2>4. CASE u.st[f.p].state = "pending" /\ v \notin {Prom(f.p), BadThen} /\ v.k \in {"promise", "thenable"}
    BY <1>1, <2>4 DEF Resolve, World
  <2>5. CASE u.st[f.p].state = "pending" /\ v \notin {Prom(f.p), BadThen} /\ v.k \notin {"promise", "thenable"}
    <3>1. v \in Plain
      BY <2>5, RefSets, RefKinds DEF Value
    <3> QED
      BY <1>1, <1>2, <2>5, <3>1 DEF Resolve
  <2> QED
    BY <2>2, <2>3, <2>4, <2>5
<1>4. ~ ok => Settle(u, f.p, "rej", v).open = u.open
  BY <1>1, <1>2
<1> QED
  BY <1>1, <1>3, <1>4, Zenon DEF CallPair, u

(* A native function called with what is no array. *)
LEMMA RoundCallNative ==
  ASSUME NEW w, NEW T, NEW rn, Inv(w, T, rn), NEW X, NEW J, Round(w, X, J), NEW f \in Pairs \cup Elems, Good(w, f),
         NEW ok \in BOOLEAN, NEW v \in Value, Good(w, v), ok \/ v \in Plain, v = Arr => Known(w),
         \A i \in {1, 2} : f = Elem(i) =>
           /\ w.comb.kind # "race" /\ (~ Settled(w.comb) => ok = (w.comb.kind # "any"))
           /\ w.comb.elems[i] # Nothing => /\ w.st[w.comb.elems[i].p].state = (IF ok THEN "ful" ELSE "rej")
                                           /\ v = w.st[w.comb.elems[i].p].val
  PROVE  LET x == CallNative(w, f, ok, v)
         IN  /\ Round(x, X, J) /\ x.comb.kind = w.comb.kind /\ x.comb.result = w.comb.result
             /\ f \in Pairs => f \notin x.open
             /\ \A i \in {1, 2} : f = Elem(i) => i \in x.comb.called
<1>1. CASE f \in Pairs
  <2>1. f.k = "pair" /\ \A i : f # Elem(i)
    BY <1>1, RefSets, RefKinds
  <2>2. CallNative(w, f, ok, v) = CallPair(w, f, ok, v)
    BY <2>1 DEF CallNative
  <2>3. Round(CallPair(w, f, ok, v), X, J)
    BY <1>1, RoundCallPair
  <2>4. CallPair(w, f, ok, v).comb = w.comb
    BY <1>1, CallPairKeeps
  <2>5. w \in World
    BY DEF Inv, Fit
  <2>6. f \notin CallPair(w, f, ok, v).open
    BY <1>1, <2>5, CallPairShuts
  <2> QED
    BY <2>1, <2>2, <2>3, <2>4, <2>6
<1>2. CASE f \in Elems
  <2>1. f.k = "elem" /\ f.i \in {1, 2} /\ f = Elem(f.i) /\ f \notin Pairs /\ \A i : f = Elem(i) => i = f.i
    BY <1>2, RefSets, RefKinds
  <2>2. CallNative(w, f, ok, v) = CallElem(w, f.i, ok, v)
    BY <2>1 DEF CallNative
  <2> DEFINE i == f.i
  <2>3. i \in {1, 2} /\ Good(w, Elem(i)) /\ f = Elem(i)
    BY <2>1, SMTT(30)
  <2> HIDE DEF i
  <2>4. Round(CallElem(w, i, ok, v), X, J) /\ i \in CallElem(w, i, ok, v).comb.called
        /\ CallElem(w, i, ok, v).comb.kind = w.comb.kind /\ CallElem(w, i, ok, v).comb.result = w.comb.result
    BY <2>3, RoundCallElem
  <2> QED
    BY <2>1, <2>2, <2>4 DEF i
<1> QED
  BY <1>1, <1>2

-----------------------------------------------------------------------------
(* The steps. *)

LEMMA RoundStep ==
  ASSUME NEW u \in World, Becomes(u), Round(u, held', {})
  PROVE  (Round(W, held, {}))'
BY BecomesWorld

LEMMA RoundParts ==
  ASSUME CombInv
  PROVE  /\ JobInv /\ Inv(W, Hand, ran) /\ W \in World /\ Fit(W) /\ Sound(W) /\ Round(W, held, {})
         /\ W.st = st /\ W.jobs = jobs /\ W.open = open /\ W.comb = comb /\ W.gen = gen
         /\ held \subseteq Proms \cup Pairs \cup Elems
         /\ comb.kind # "none" => comb.phase # "none"
BY InvParts, WorldFields DEF CombInv, Inv, Fit

LEMMA NoElems == \A p, n, i : Prom(p) # Elem(i) /\ Pair(p, n) # Elem(i) /\ Js # Elem(i) /\ Nothing # Elem(i)
BY RefKinds

LEMMA NewPromiseRound == CombInv /\ NewPromise => (Round(W, held, {}))'
<1> SUFFICES ASSUME CombInv,
                    NEW p \in FreeCells, Becomes(NewPair([W EXCEPT !.st[p] = Fresh], p)),
                    held' = held \cup {Prom(p), Pair(p, 1)}
             PROVE  (Round(W, held, {}))'
  BY DEF NewPromise
<1> DEFINE w == [W EXCEPT !.st[p] = Fresh]
           u == NewPair(w, p)
<1>1. p \in Promise /\ W.st[p].state = "free" /\ From(W, p) = {}
  BY RoundParts, InvParts
<1>2. Inv(w, Hand, ran) /\ Undecided(w, Hand, p) /\ w.st[p].state = "pending"
  BY <1>1, RoundParts, FreshKeeps
<1>3. w \in World
  BY <1>2 DEF Inv, Fit
<1>4. Round(w, held, {})
  BY <1>1, <1>3, RoundParts, RoundFresh
<1> HIDE DEF w
<1>5. Inv(u, Hand, ran)
  BY <1>1, <1>2, NewPairKeeps, Zenon
<1>6. u \in World
  BY <1>5 DEF Inv, Fit
<1>7. Round(u, held, {})
  BY <1>1, <1>2, <1>4, <1>6, RoundNewPair
<1>8. Becomes(u)
  BY DEF w
<1> HIDE DEF u
<1>9. \A i \in {1, 2} : Elem(i) \in held' => Elem(i) \in held
  BY NoElems
<1>10. Round(u, held', {})
  BY <1>7, <1>9, RoundHeld
<1> QED
  BY <1>6, <1>8, <1>10, RoundStep

LEMMA CallRound == CombInv /\ Call => (Round(W, held, {}))'
<1> SUFFICES ASSUME CombInv, NEW f \in held, NEW ok \in BOOLEAN, f.k \in {"pair", "elem"}, Given(f, ok),
                    NEW v \in IF ok THEN Vals ELSE {Data("err")}, Becomes(CallNative(W, f, ok, v)),
                    held' = held
             PROVE  (Round(W, held, {}))'
  BY DEF Call
<1> DEFINE u == CallNative(W, f, ok, v)
<1>1. f \in Pairs \cup Elems /\ Good(W, f)
  <2>1. f \in Proms => f.k = "promise"
    BY RefSets
  <2> QED
    BY <2>1, RoundParts, InvParts
<1>2. v \in Value /\ Good(W, v) /\ (ok \/ v \in Plain) /\ v # Arr
  <2>1. Data("a") \in Plain /\ Data("err") \in Plain /\ Data("a") # Arr /\ Data("err") # Arr /\ Thenable # Arr
    BY RefKinds DEF Plain
  <2>2. \A x \in Vals : x \in {Data("a"), Thenable} \/ (x \in held /\ x \in Value /\ x # Arr)
    BY RoundParts, InvParts, RefKinds DEF Vals
  <2>3. \A x \in Vals : x \in Value /\ Good(W, x) /\ x # Arr
    BY <2>1, <2>2, RoundParts, InvParts, PlainValues
  <2>4. CASE ok
    BY <2>3, <2>4
  <2>5. CASE ~ ok
    BY <2>1, <2>5, PlainValues
  <2> QED
    BY <2>4, <2>5
<1>3. ASSUME NEW i \in {1, 2}, f = Elem(i)
      PROVE  comb.kind # "race" /\ (~ Settled(comb) => ok = (comb.kind # "any")) /\ comb.elems[i] = Nothing
  <2>1. f.k = "elem" /\ \A n : f # CapPair(comb) /\ (f = Elem(n) => n = i)
    BY <1>3, RefKinds DEF CapPair
  <2>2. PICK n \in 1 .. comb.at : comb.kind # "none" /\ f = IF ok THEN OnF(comb, n) ELSE OnR(comb, n)
    BY <2>1 DEF Given
  <2>3. comb.kind # "race" /\ comb.elems[i] = Nothing
    BY <1>3, <2>2, RoundParts, Zenon DEF Round, Body, Placed
  <2>4. ~ Settled(comb) => ok = (comb.kind # "any")
    BY <2>1, <2>2 DEF OnF, OnR
  <2> QED
    BY <2>3, <2>4
<1>4. Inv(u, Hand, ran)
  BY <1>1, <1>2, RoundParts, CallNativeKeeps, SMTT(30)
<1>5. Round(u, held, {})
  <2>1. \A i \in {1, 2} : f = Elem(i) =>
           /\ W.comb.kind # "race" /\ (~ Settled(W.comb) => ok = (W.comb.kind # "any"))
           /\ W.comb.elems[i] # Nothing => /\ W.st[W.comb.elems[i].p].state = (IF ok THEN "ful" ELSE "rej")
                                           /\ v = W.st[W.comb.elems[i].p].val
    BY <1>3, RoundParts
  <2> QED
    BY <1>1, <1>2, <2>1, RoundParts, RoundCallNative
<1>6. Becomes(u)
  OBVIOUS
<1> HIDE DEF u
<1>7. u \in World
  BY <1>4 DEF Inv, Fit
<1> QED
  BY <1>5, <1>6, <1>7, RoundStep

LEMMA ThenRound == CombInv /\ Then => (Round(W, held, {}))'
<1> SUFFICES ASSUME CombInv, NEW x \in held, NEW d \in FreeCells, NEW hs \in {<<Js, Nothing>>, <<Nothing, Js>>},
                    x.k = "promise",
                    Becomes(promiseThenCap([W EXCEPT !.st[d] = Fresh], x.p, hs[1], hs[2], Prom(d))),
                    held' = held \cup {Prom(d)}
             PROVE  (Round(W, held, {}))'
  BY DEF Then
<1> DEFINE w == [W EXCEPT !.st[d] = Fresh]
           u == promiseThenCap(w, x.p, hs[1], hs[2], Prom(d))
<1>1. d \in Promise /\ W.st[d].state = "free" /\ From(W, d) = {} /\ x.p \in Promise /\ Lives(W, x.p)
  BY RoundParts, InvParts
<1>2. Inv(w, Hand, ran) /\ Later(W, w) /\ Undecided(w, Hand, d) /\ w.st[d].state = "pending"
  BY <1>1, RoundParts, FreshKeeps
<1>3. w \in World
  BY <1>2 DEF Inv, Fit
<1>4. Round(w, held, {})
  BY <1>1, <1>3, RoundParts, RoundFresh
<1> HIDE DEF w
<1>5. hs[1] \in {Js, Nothing} /\ hs[2] \in {Js, Nothing} /\ Good(w, hs[1]) /\ Good(w, hs[2])
  BY RefKinds DEF Good
<1>6. Sole(w, Hand, Prom(d)) /\ Prom(d) \in Proms /\ Lives(w, x.p)
  BY <1>1, <1>2, RefKinds, RefSets DEF Sole, Later
<1>7. Inv(u, Hand, ran)
  BY <1>1, <1>2, <1>5, <1>6, ThenKeeps
<1>8. u \in World
  BY <1>7 DEF Inv, Fit
<1>9. \A i \in {1, 2} : Elem(i) \notin {hs[1], hs[2]}
  BY <1>5, NoElems
<1>10. Round(u, held, {})
  BY <1>1, <1>2, <1>4, <1>8, <1>9, RoundThen
<1>11. Becomes(u)
  BY DEF w
<1> HIDE DEF u
<1>12. \A i \in {1, 2} : Elem(i) \in held' => Elem(i) \in held
  BY NoElems
<1>13. Round(u, held', {})
  BY <1>10, <1>12, RoundHeld
<1> QED
  BY <1>8, <1>11, <1>13, RoundStep

LEMMA DropRound == CombInv /\ Drop => (Round(W, held, {}))'
<1> SUFFICES ASSUME CombInv, held' \subseteq held, UNCHANGED world PROVE (Round(W, held, {}))'
  BY DEF Drop
<1>1. Becomes(W)
  BY DEF Becomes, W, world
<1>2. Round(W, held', {})
  BY RoundParts, RoundHeld
<1> QED
  BY <1>1, <1>2, RoundParts, RoundStep

LEMMA CombStartRound == ASSUME CombInv, NEW kind \in Kinds, CombStart(kind) PROVE (Round(W, held, {}))'
<1>1. PICK p \in FreeCells, es \in [1 .. 2 -> {x \in held : x.k = "promise"} \cup {Nothing}] :
        /\ comb.phase = "none"
        /\ Becomes(NewPair([W EXCEPT !.st[p] = Fresh,
                                     !.comb = [NoComb EXCEPT !.kind = kind, !.result = p, !.elems = es,
                                                             !.remaining = 1, !.phase = "iter"]], p))
        /\ held' = held \cup {Prom(p)}
  BY Zenon DEF CombStart
<1> DEFINE c == [NoComb EXCEPT !.kind = kind, !.result = p, !.elems = es, !.remaining = 1, !.phase = "iter"]
           w == [W EXCEPT !.st[p] = Fresh]
           x == NewPair(w, p)
           u == [x EXCEPT !.comb = c]
<1>2. p \in Promise /\ W.st[p].state = "free" /\ From(W, p) = {} /\ W \in World
  BY RoundParts, InvParts
<1>3. Inv(w, Hand, ran) /\ Undecided(w, Hand, p) /\ w.st[p].state = "pending" /\ w.comb = W.comb
  BY <1>2, RoundParts, FreshKeeps
<1>4. w \in World
  BY <1>3 DEF Inv, Fit
<1>5. Round(w, held, {})
  BY <1>2, <1>4, RoundParts, RoundFresh
<1>6. NewPair([W EXCEPT !.st[p] = Fresh, !.comb = c], p) = u
  BY <1>2, Zenon DEF World, NewPair
<1>7. c.kind = kind /\ c.result = p /\ c.at = 0 /\ c.called = {} /\ c.remaining = 1 /\ c.phase = "iter"
  BY DEF NoComb
<1> HIDE DEF w, c
<1>8. Inv(x, Hand, ran) /\ x.comb = w.comb
  BY <1>2, <1>3, NewPairKeeps, Zenon
<1>9. x \in World /\ Sound(x)
  BY <1>8 DEF Inv, Fit
<1>10. Round(x, held, {})
  BY <1>2, <1>3, <1>5, <1>9, RoundNewPair
<1> HIDE DEF x
<1>11. u.st = x.st /\ u.jobs = x.jobs /\ u.open = x.open /\ u.comb = c
  BY <1>9 DEF World
<1>12. Becomes(u)
  BY <1>1, <1>6 DEF c
<1> HIDE DEF u
<1>13. u \in World
  <2>1. JobInv'
    BY RoundParts, CombStartKeeps
  <2>2. (W \in World)'
    BY <2>1 DEF JobInv, Inv, Fit
  <2>3. W' \in World /\ W'.comb = c
    BY <1>11, <1>12, <2>2 DEF Becomes, W
  <2>4. c \in Call0
    BY <2>3, WorldParts
  <2> QED
    BY <1>9, <2>4, Zenon DEF World, u
<1>14. comb.kind = "none" /\ x.comb.kind = "none" /\ x.comb.phase = "none"
  BY <1>1, <1>3, <1>8, RoundParts
<1>15. ~ ArrIn(u)
  <2>1. ~ Known(x)
    BY <1>14 DEF Known, Earned
  <2> QED
    BY <1>10, <1>11, <2>1 DEF Round, HandedOut, ArrIn
<1>16. Counts(c)
  <2>1. c.at \in Nat /\ 1 .. c.at \subseteq c.called
    BY <1>7
  <2>2. Waits(c) = 0
    BY <2>1, WaitsFacts, Zenon
  <2> QED
    BY <1>7, <2>2, PromiseAssumption DEF Counts, AllKinds
<1>17. Placed(u, held')
  <2>1. \A i : ~ Good(x, Elem(i))
    BY <1>14, RefKinds DEF Good
  <2>2. \A i : Elem(i) \notin held'
    BY <1>1, <1>14, InvParts, RoundParts, RefKinds, NoElems DEF Good
  <2>3. \A m \in Promise : \A k \in DOMAIN x.st[m].handlers : \A i : ~ Calls(x.st[m].handlers[k], Elem(i))
    BY <1>9, <2>1 DEF Sound, Calls
  <2>4. \A k \in DOMAIN x.jobs : x.jobs[k].kind = "react" => \A i : ~ Calls(x.jobs[k].r, Elem(i))
    BY <1>9, <2>1 DEF Sound, Calls, JobRoots
  <2> QED
    BY <1>11, <2>2, <2>3, <2>4 DEF Placed, HandlerFits, JobFits
<1>18. Filled(u)
  BY <1>7, <1>11 DEF Filled
<1>19. Awaited(u, {})
  BY <1>7, <1>11 DEF Awaited
<1>20. Shut(u)
  BY <1>7, <1>11 DEF Shut
<1>21. Round(u, held', {})
  BY <1>11, <1>15, <1>16, <1>17, <1>18, <1>19, <1>20 DEF Round, Body, HandedOut
<1> QED
  BY <1>12, <1>13, <1>21, RoundStep

(* To register is one thing, to count another. *)
LEMMA ThenApart ==
  ASSUME NEW w \in World, NEW u \in World, u.st = w.st, u.jobs = w.jobs, u.open = w.open, u.cnt = w.cnt,
         NEW p \in Promise, NEW onF, NEW onR, NEW result,
         promiseThenCap(u, p, onF, onR, result) \in World
  PROVE  LET x == promiseThenCap(u, p, onF, onR, result)
             y == promiseThenCap(w, p, onF, onR, result)
         IN  /\ y \in World /\ y.comb = w.comb /\ x.comb = u.comb
             /\ x.st = y.st /\ x.jobs = y.jobs /\ x.open = y.open
<1> DEFINE r == [onF |-> onF, onR |-> onR, result |-> result, src |-> p, at |-> w.cnt[p] + 1]
           x == promiseThenCap(u, p, onF, onR, result)
           y == promiseThenCap(w, p, onF, onR, result)
           q == [w EXCEPT !.cnt[p] = @ + 1]
           b == [u EXCEPT !.cnt[p] = @ + 1]
           k == Reacts(<<r>>, w.st[p].state, w.st[p].val)
<1>1. q.st = w.st /\ q.jobs = w.jobs /\ q.open = w.open /\ q.gen = w.gen /\ q.follows = w.follows /\ q.comb = w.comb
      /\ q.cnt = [w.cnt EXCEPT ![p] = @ + 1]
  BY DEF World
<1>2. b.st = w.st /\ b.jobs = w.jobs /\ b.open = w.open /\ b.gen = u.gen /\ b.follows = u.follows /\ b.comb = u.comb
      /\ b.cnt = [w.cnt EXCEPT ![p] = @ + 1]
  BY DEF World
<1>3. x = IF w.st[p].state = "pending" THEN [b EXCEPT !.st[p].handlers = Append(@, r)] ELSE [b EXCEPT !.jobs = @ \o k]
  BY DEF promiseThenCap
<1>4. y = IF w.st[p].state = "pending" THEN [q EXCEPT !.st[p].handlers = Append(@, r)] ELSE [q EXCEPT !.jobs = @ \o k]
  BY DEF promiseThenCap
<1> HIDE DEF r, k, x, y
<1>5. /\ x.st = y.st /\ x.jobs = y.jobs /\ x.open = y.open /\ x.comb = u.comb /\ y.comb = w.comb /\ x.cnt = y.cnt
      /\ y.gen = w.gen /\ y.follows = w.follows /\ y.open = w.open
      /\ y = [w EXCEPT !.st = y.st, !.jobs = y.jobs, !.cnt = y.cnt]
  <2>1. CASE w.st[p].state = "pending"
    BY <1>1, <1>2, <1>3, <1>4, <2>1, Zenon DEF World
  <2>2. CASE w.st[p].state # "pending"
    BY <1>1, <1>2, <1>3, <1>4, <2>2, Zenon DEF World
  <2> QED
    BY <2>1, <2>2
<1>6. y \in World
  <2>1. x \in World
    BY DEF x
  <2>2. y.st \in [Promise -> Cell] /\ y.jobs \in Seq(Job) /\ y.cnt \in [Promise -> Nat]
    BY <1>5, <2>1, WorldParts
  <2> DEFINE s == y.st
             j == y.jobs
             n == y.cnt
  <2>3. y = [w EXCEPT !.st = s, !.jobs = j, !.cnt = n] /\ s \in [Promise -> Cell] /\ j \in Seq(Job) /\ n \in [Promise -> Nat]
    BY <1>5, <2>2
  <2> HIDE DEF s, j, n
  <2> QED
    BY <2>3, Zenon DEF World
<1> QED
  BY <1>5, <1>6 DEF x, y

LEMMA FurtherCounts ==
  ASSUME NEW a \in Call0, Counts(a), a.kind # "none", a.called \subseteq 1 .. a.at, NEW d, OneFurther(a, d), d.kind = a.kind
  PROVE  Counts(d) /\ d.remaining # 0
<1>1. a.at \in Nat /\ d.at = a.at + 1 /\ d.called = a.called
  BY CombFacts DEF OneFurther
<1>2. Waits(d) = Waits(a) + 1 /\ Waits(a) \in Nat
  BY <1>1, WaitsMore, WaitsFacts, Zenon
<1>3. a.phase = "iter" /\ d.phase = "iter" /\ d.remaining = IF Counted(a) THEN a.remaining + 1 ELSE a.remaining
  BY DEF OneFurther
<1>4. CASE a.kind = "race"
  <2>1. a.remaining = 1 /\ a.called = {}
    BY <1>4 DEF Counts
  <2> QED
    BY <1>1, <1>3, <1>4, <2>1 DEF Counts, Counted
<1>5. CASE a.kind # "race"
  <2>1. a.remaining = Waits(a) + 1
    BY <1>3, <1>5 DEF Counts, Counted
  <2>2. d.remaining = Waits(d) + 1
    BY <1>2, <1>3, <1>5, <2>1 DEF Counted
  <2> QED
    BY <1>2, <1>3, <1>5, <2>2 DEF Counts
<1> QED
  BY <1>4, <1>5

LEMMA CombNextRound == CombInv /\ CombNext => (Round(W, held, {}))'
<1> SUFFICES ASSUME CombInv, CombNext PROVE (Round(W, held, {}))'
  OBVIOUS
<1>1. comb.kind # "none"
  BY RoundParts, CombNextParts
<1>2. PICK w, f, g :
        /\ Inv(w, Hand, ran) /\ Later(W, w) /\ w \in World /\ W \in World
        /\ w.st = W.st /\ w.jobs = W.jobs /\ w.open = W.open /\ w.follows = W.follows /\ w.gen = W.gen
        /\ w.comb.kind = comb.kind /\ w.comb.result = comb.result
        /\ \A x \in {f, g} : x \in {CapPair(comb), Elem(1), Elem(2)} /\ x \in Pairs \cup Elems /\ Good(w, x)
        /\ Gives(w, f, g)
        /\ OneFurther(comb, w.comb) /\ w.cnt = W.cnt
  BY RoundParts, CombNextParts, Zenon
<1> DEFINE i == comb.at + 1
<1>3. /\ comb.phase = "iter" /\ i \in {1, 2} /\ w.comb.at = i /\ w.comb.elems = comb.elems /\ w.comb.called = comb.called
      /\ w.comb.phase = "iter" /\ w.comb.res = Append(comb.res, [ok |-> FALSE, v |-> Nothing])
      /\ f = OnF(comb, i) /\ g = OnR(comb, i)
  BY <1>2 DEF OneFurther, Gives
<1>4. /\ comb \in Call0 /\ Len(comb.res) = comb.at /\ comb.called \subseteq 1 .. comb.at /\ comb.at \in Nat
      /\ \A k \in comb.called : w.comb.res[k] = comb.res[k]
  <2>1. comb \in Call0 /\ Len(comb.res) = comb.at /\ comb.called \subseteq 1 .. comb.at
    BY <1>1, RoundParts, CombParts
  <2>2. comb.res \in Seq([ok : BOOLEAN, v : Value]) /\ comb.at \in Nat
    BY <2>1, CombFacts, Zenon
  <2>3. \A k \in DOMAIN comb.res : Append(comb.res, [ok |-> FALSE, v |-> Nothing])[k] = comb.res[k]
    BY <2>2
  <2>4. DOMAIN comb.res = 1 .. comb.at
    BY <2>1, <2>2
  <2> QED
    BY <1>3, <2>1, <2>2, <2>3, <2>4
<1>5. Counts(w.comb) /\ w.comb.remaining # 0
  <2>1. Counts(comb)
    BY RoundParts DEF Round, Body
  <2> QED
    BY <1>1, <1>2, <1>4, <2>1, FurtherCounts
<1>6. \A k \in {1, 2} : Elem(k) \in {f, g} => k = i /\ comb.kind # "race"
  BY <1>3, RefKinds DEF OnF, OnR, Settled, CapPair
<1> HIDE DEF i
<1>7. ASSUME NEW y, Placed(y, held), Filled(y), Awaited(y, {}), HandedOut(y), y.comb = comb, NEW u, u.comb = w.comb,
             u.st = y.st, u.jobs = y.jobs, u.open = y.open, comb.elems[i] # Nothing => Heard(y, i, {})
      PROVE  Round(u, held, {})
  <2>1. ~ Earned(y)
    BY <1>3, <1>7 DEF Earned
  <2>2. Advances(y, u.comb, {})
    <3>1. \A k \in 1 .. w.comb.at : k \in 1 .. comb.at \/ k = i
      BY <1>3, <1>4 DEF i
    <3>2. \A k \in 1 .. w.comb.at : w.comb.elems[k] # Nothing => k \in 1 .. comb.at \/ Heard(y, k, {})
      BY <1>3, <1>7, <3>1
    <3> QED
      BY <1>1, <1>2, <1>3, <1>4, <1>7, <3>2 DEF Advances
  <2>3. Placed(u, held) /\ Filled(u) /\ Awaited(u, {}) /\ ~ ArrIn(u)
    BY <1>7, <2>1, <2>2, CombAdvances
  <2> QED
    BY <1>5, <1>7, <2>3 DEF Round, Body, HandedOut, Shut
<1>8. CASE comb.elems[i] = Nothing /\ Becomes(w) /\ held' = held \cup {f, g}
  <2>1. Round(w, held, {})
    BY <1>2, <1>7, <1>8, RoundParts DEF Round, Body
  <2>2. Round(w, held', {})
    BY <1>2, <1>3, <1>6, <1>8, <2>1, RoundHeld
  <2> QED
    BY <1>2, <1>8, <2>2, RoundStep
<1>9. ASSUME NEW p \in Promise, comb.elems[i] = Prom(p), Lives(w, p), Becomes(promiseThenCap(w, p, f, g, Nothing)), held' = held
      PROVE  (Round(W, held, {}))'
  <2> DEFINE u == promiseThenCap(w, p, f, g, Nothing)
             y == promiseThenCap(W, p, f, g, Nothing)
  <2>1. Sole(w, Hand, Nothing)
    BY DEF Sole
  <2>2. Inv(u, Hand, ran)
    BY <1>2, <1>9, <2>1, ThenKeeps
  <2>3. u \in World
    BY <2>2 DEF Inv, Fit
  <2>4. y \in World /\ y.comb = W.comb /\ u.comb = w.comb /\ u.st = y.st /\ u.jobs = y.jobs /\ u.open = y.open
    BY <1>2, <2>3, ThenApart
  <2>5. Round(y, held, {}) /\ Heard(y, i, {})
    <3>1. \A k \in {1, 2} : Elem(k) \in {f, g} =>
            f = OnF(W.comb, k) /\ g = OnR(W.comb, k) /\ W.comb.elems[k] = Prom(p)
      BY <1>3, <1>6, <1>9, RoundParts
    <3>2. W.comb.elems[i] = Prom(p) /\ f = OnF(W.comb, i) /\ g = OnR(W.comb, i)
      BY <1>3, <1>9, RoundParts
    <3> QED
      BY <2>4, <3>1, <3>2, RoundParts, RoundThen
  <2>6. Becomes(u)
    BY <1>9
  <2> HIDE DEF u, y
  <2>7. Round(u, held, {})
    BY <1>7, <2>4, <2>5, RoundParts DEF Round, Body
  <2> QED
    BY <1>9, <2>3, <2>6, <2>7, RoundStep
<1> QED
  BY <1>2, <1>8, <1>9 DEF Gives, i

(* Only the phase changes. *)
LEMMA PhaseParts ==
  ASSUME CombInv, comb.phase = "iter", NEW ph \in {"thrown", "done"}
  PROVE  LET w == [W EXCEPT !.comb.phase = ph]
         IN  /\ Inv(w, Hand, ran) /\ w \in World /\ w.gen = W.gen /\ w.st = W.st
             /\ Placed(w, held) /\ Filled(w) /\ Awaited(w, {}) /\ ~ ArrIn(w)
             /\ w.comb \in Call0 /\ w.comb.phase = ph /\ w.comb.kind = comb.kind /\ w.comb.kind # "none"
             /\ w.comb.result = comb.result /\ CapPair(w.comb) = CapPair(comb) /\ CapPair(comb) \in Pairs
             /\ w.comb.at = comb.at /\ w.comb.called = comb.called /\ w.comb.remaining = comb.remaining
             /\ comb.called \subseteq 1 .. comb.at /\ Len(comb.elems) = 2
<1> DEFINE c == [comb EXCEPT !.phase = ph]
           w == [W EXCEPT !.comb = c]
<1>1. [W EXCEPT !.comb.phase = ph] = w
  BY WorldFields DEF W
<1>2. /\ comb \in Call0 /\ comb.kind # "none" /\ comb.kind \in Kinds /\ comb.result \in Promise
      /\ Len(comb.elems) = 2 /\ Len(comb.res) = comb.at /\ comb.called \subseteq 1 .. comb.at
      /\ CapPair(comb) \in Pairs
  BY RoundParts, CombParts
<1>3. c.kind = comb.kind /\ c.result = comb.result /\ c.elems = comb.elems /\ c.at = comb.at /\ c.called = comb.called
      /\ c.res = comb.res /\ c.phase = ph /\ c.remaining = comb.remaining /\ c \in Call0
  BY <1>2, Zenon DEF Call0
<1> HIDE DEF c
<1>4. /\ Inv(w, Hand, ran) /\ w.gen = W.gen /\ w.comb = c
      /\ w.st = W.st /\ w.jobs = W.jobs /\ w.open = W.open
  <2>1. comb.at <= c.at
    BY <1>2, <1>3, CombFacts
  <2> QED
    BY <1>2, <1>3, <2>1, RoundParts, CombKeeps
<1> HIDE DEF w
<1>5. w \in World
  BY <1>4 DEF Inv, Fit
<1>6. Advances(W, w.comb, {})
  BY <1>2, <1>3, <1>4, RoundParts DEF Advances
<1>7. ~ Earned(W)
  BY RoundParts DEF Earned
<1>8. Placed(w, held) /\ Filled(w) /\ Awaited(w, {}) /\ ~ ArrIn(w)
  BY <1>4, <1>6, <1>7, RoundParts, CombAdvances DEF Round, Body
<1>9. CapPair(w.comb) = CapPair(comb)
  BY <1>3, <1>4 DEF CapPair
<1> QED
  BY <1>1, <1>2, <1>3, <1>4, <1>5, <1>8, <1>9, Zenon

LEMMA CombThrowRound == CombInv /\ CombThrow => (Round(W, held, {}))'
<1> SUFFICES ASSUME CombInv, CombThrow PROVE (Round(W, held, {}))'
  OBVIOUS
<1> DEFINE w == [W EXCEPT !.comb.phase = "thrown"]
           x == CallPair(w, CapPair(comb), FALSE, Data("err"))
<1>1. comb.phase = "iter" /\ Becomes(x) /\ held' = held
  BY Zenon DEF CombThrow
<1>2. /\ Inv(w, Hand, ran) /\ w \in World
      /\ Placed(w, held) /\ Filled(w) /\ Awaited(w, {}) /\ ~ ArrIn(w)
      /\ w.comb \in Call0 /\ w.comb.phase = "thrown" /\ w.comb.kind = comb.kind /\ w.comb.kind # "none"
      /\ CapPair(comb) \in Pairs /\ w.comb.at = comb.at /\ w.comb.called = comb.called
      /\ w.comb.remaining = comb.remaining /\ comb.called \subseteq 1 .. comb.at
  BY <1>1, PhaseParts
<1> HIDE DEF w
<1>3. Counts(w.comb) /\ w.comb.remaining # 0
  <2>1. Counts(comb)
    BY RoundParts DEF Round, Body
  <2>2. Waits(w.comb) = Waits(comb) /\ Waits(w.comb) \in Nat
    BY <1>2, CombFacts, WaitsFacts DEF Waits
  <2>3. CASE comb.kind = "race"
    BY <1>1, <1>2, <2>1, <2>3 DEF Counts, Counted
  <2>4. CASE comb.kind # "race"
    <3>1. comb.remaining = Waits(comb) + 1
      BY <1>1, <1>2, <2>1, <2>4 DEF Counts, Counted
    <3> QED
      BY <1>2, <2>2, <2>4, <3>1 DEF Counts, Counted
  <2> QED
    BY <2>3, <2>4
<1>4. Round(w, held, {})
  BY <1>2, <1>3 DEF Round, Body, HandedOut, Shut
<1>5. Data("err") \in Plain /\ Data("err") \in Value /\ Good(w, Data("err")) /\ Data("err") # Arr
  BY RefSets, RefKinds, PlainValues
<1>6. Round(x, held, {}) /\ Inv(x, Hand, ran)
  BY <1>2, <1>4, <1>5, RoundCallPair, CallPairKeeps, Zenon
<1> HIDE DEF x
<1>7. x \in World
  BY <1>6 DEF Inv, Fit
<1> QED
  BY <1>1, <1>6, <1>7, RoundStep

LEMMA CombEndRound == CombInv /\ CombEnd => (Round(W, held, {}))'
<1> SUFFICES ASSUME CombInv, CombEnd PROVE (Round(W, held, {}))'
  OBVIOUS
<1> DEFINE w == [W EXCEPT !.comb.phase = "done"]
           u == IF Counted(comb) THEN tryFinish(w) ELSE w
<1>1. comb.phase = "iter" /\ comb.at = Len(comb.elems) /\ Becomes(u) /\ held' = held
  BY DEF CombEnd
<1>2. /\ Inv(w, Hand, ran) /\ w \in World
      /\ Placed(w, held) /\ Filled(w) /\ Awaited(w, {}) /\ ~ ArrIn(w)
      /\ w.comb \in Call0 /\ w.comb.phase = "done" /\ w.comb.kind = comb.kind /\ w.comb.kind # "none"
      /\ w.comb.at = comb.at /\ w.comb.called = comb.called
      /\ w.comb.remaining = comb.remaining /\ comb.called \subseteq 1 .. comb.at /\ Len(comb.elems) = 2
  BY <1>1, PhaseParts
<1> HIDE DEF w
<1>3. Counts(comb)
  BY RoundParts DEF Round, Body
<1>4. CASE Counted(comb)
  <2>1. Counts([w.comb EXCEPT !.remaining = @ - 1])
    <3> DEFINE d == [w.comb EXCEPT !.remaining = @ - 1]
    <3>1. d.kind = comb.kind /\ d.phase = "done" /\ d.at = 2 /\ d.called = comb.called
          /\ d.remaining = comb.remaining - 1
      BY <1>1, <1>2 DEF Call0
    <3> HIDE DEF d
    <3>2. Waits(d) = Waits(comb) /\ Waits(comb) \in Nat
      BY <1>1, <1>2, <3>1, CombFacts, WaitsFacts, Zenon DEF Waits
    <3>3. comb.remaining = Waits(comb) + 1 /\ comb.kind # "race"
      BY <1>1, <1>2, <1>3, <1>4 DEF Counts, Counted
    <3>4. Counts(d)
      BY <1>2, <3>1, <3>2, <3>3 DEF Counts, Counted
    <3> QED
      BY <3>4 DEF d
  <2>2. Round(tryFinish(w), held, {})
    BY <1>2, <2>1, RoundTryFinish
  <2>3. Inv(tryFinish(w), Hand, ran)
    BY <1>2, tryFinishKeeps
  <2>4. u = tryFinish(w)
    BY <1>4
  <2> HIDE DEF u
  <2>5. u \in World
    BY <2>3, <2>4 DEF Inv, Fit
  <2> QED
    BY <1>1, <2>2, <2>4, <2>5, RoundStep
<1>5. CASE ~ Counted(comb)
  <2>1. Counts(w.comb) /\ w.comb.remaining # 0
    BY <1>1, <1>2, <1>3, <1>5 DEF Counts, Counted
  <2>2. Round(w, held, {})
    BY <1>2, <2>1 DEF Round, Body, HandedOut, Shut
  <2>3. u = w
    BY <1>5
  <2> HIDE DEF u
  <2> QED
    BY <1>1, <1>2, <2>2, <2>3, RoundStep
<1> QED
  BY <1>4, <1>5

(* The first job, taken. *)
LEMMA HeadRound ==
  ASSUME CombInv, run = NoRun, jobs # <<>>, NEW j, j = jobs[1]
  PROVE  /\ Inv(Took, {}, Taken(ran, W, j)) /\ Took \in World /\ j \in Job /\ Round(Took, held, {j})
         /\ \A x \in JobRoots(j) : Good(Took, x)
         /\ \A x \in Proms : x = Target(j) => x.p \in Promise /\ Took.st[x.p].state = "pending" /\ Undecided(Took, {}, x.p)
         /\ Took.comb = comb /\ (comb.kind # "none" => JobFits(Took, j)) /\ (j.v = Arr => Known(Took))
         /\ j.kind = "adopt" => Taken(ran, W, j) = ran
<1>1. /\ Inv(Took, {}, Taken(ran, W, j)) /\ Took \in World /\ j \in Job /\ Hand = {}
      /\ \A x \in JobRoots(j) : Good(Took, x)
      /\ \A x \in Proms : x = Target(j) => x.p \in Promise /\ Took.st[x.p].state = "pending" /\ Undecided(Took, {}, x.p)
      /\ j.kind = "adopt" => Taken(ran, W, j) = ran
  BY RoundParts, HeadFacts, Zenon
<1>2. Took.st = W.st /\ Took.comb = W.comb /\ W.comb = comb /\ W.jobs = jobs
  BY WorldFields DEF Took, W
<1>3. 1 \in DOMAIN W.jobs /\ W.jobs[1] = j
  BY <1>2, RoundParts, TailFacts
<1>4. Round(Took, held, {j})
  BY <1>1, <1>2, RoundParts, RoundTake DEF Took
<1>5. comb.kind # "none" => JobFits(Took, j)
  <2>1. comb.kind # "none" => JobFits(W, j)
    BY <1>2, <1>3, RoundParts DEF Round, Body, Placed
  <2> QED
    BY <1>2, <2>1 DEF JobFits
<1>6. j.v = Arr => Known(Took)
  BY <1>2, <1>3, RoundParts DEF Round, HandedOut, ArrIn, Known, Earned
<1> QED
  BY <1>1, <1>2, <1>4, <1>5, <1>6

(* What the job was to tell the combinator it did. *)
LEMMA RoundJob ==
  ASSUME CombInv, NEW j, NEW u \in World, Fit(u), Becomes(u), held' = held, Round(u, held, {j}),
         u.comb.kind # "none" /\ CapPair(u.comb) \in u.open /\ j.kind = "react" =>
           \A i \in {1, 2} : Serves(u.comb, i, j.r) => i \in u.comb.called
  PROVE  (Round(W, held, {}))'
<1>1. u.comb.kind # "none" => u.comb.at \in {0, 1, 2}
  BY ElemFacts
<1>2. Round(u, held, {})
  BY <1>1, RoundDone
<1> QED
  BY <1>2, RoundStep

LEMMA ScriptServesNone ==
  ASSUME NEW j \in Job, j.kind = "react", Handler(j) \in {Js, Nothing}, NEW c, NEW i
  PROVE  ~ Serves(c, i, j.r)
<1>1. j.r \in Reaction /\ j.r.result \in Proms
  BY HandlerFacts, JobFacts
<1>2. j.r.onF \in {Js, Nothing}
  <2>1. Nothing \notin Proms
    BY RefSets, RefKinds
  <2> QED
    BY <1>1, <2>1, ReactionFacts
<1>3. OnF(c, i) \in {CapPair(c), Elem(i)}
  BY DEF OnF
<1> QED
  BY <1>2, <1>3, NoElems, RefKinds DEF Serves, CapPair

LEMMA PassRound == ASSUME CombInv, NEW j, j = jobs[1], Pass(j) PROVE (Round(W, held, {}))'
<1> DEFINE p == j.r.result.p
           u == IF j.s = "ful" THEN Resolve(Took, p, j.v) ELSE Settle(Took, p, "rej", j.v)
<1>1. /\ run = NoRun /\ jobs # <<>> /\ j.kind = "react" /\ Handler(j) = Nothing
      /\ Becomes(u) /\ held' = held
  BY DEF Pass, Draining
<1>2. /\ Inv(Took, {}, Taken(ran, W, j)) /\ Took \in World /\ j \in Job /\ Round(Took, held, {j})
      /\ (j.v = Arr => Known(Took))
  BY <1>1, HeadRound, Zenon
<1>3. \A x \in Proms : x = Target(j) => x.p \in Promise /\ Undecided(Took, {}, x.p)
  BY <1>1, HeadRound, Zenon
<1>4. j.r.result \in Proms /\ j.r.result = Target(j) /\ j.v \in Plain
  BY <1>1, <1>2, HandlerFacts
<1>5. j.v \in Value /\ Good(Took, j.v) /\ p \in Promise /\ Undecided(Took, {}, p)
  BY <1>3, <1>4, PlainValues, RefSets
<1>6. Fit(Took)
  BY <1>2 DEF Inv
<1> HIDE DEF p
<1>7. Round(u, held, {j}) /\ Inv(u, {}, Taken(ran, W, j))
  <2>1. CASE j.s = "ful"
    BY <1>2, <1>5, <1>6, <2>1, RoundResolve, ResolveKeeps
  <2>2. CASE j.s # "ful"
    BY <1>2, <1>4, <1>5, <1>6, <2>2, RoundSettle, SettleKeeps
  <2> QED
    BY <2>1, <2>2
<1> HIDE DEF u
<1>8. u \in World /\ Fit(u)
  BY <1>7 DEF Inv, Fit
<1>9. \A i \in {1, 2} : ~ Serves(u.comb, i, j.r)
  BY <1>1, <1>2, ScriptServesNone
<1>10. Becomes(u)
  BY <1>1 DEF p, u
<1> QED
  BY <1>1, <1>7, <1>8, <1>9, <1>10, RoundJob

LEMMA ReactRound == ASSUME CombInv, NEW j, j = jobs[1], React(j) PROVE (Round(W, held, {}))'
<1> DEFINE f == Handler(j)
           ok == j.s = "ful"
           u == CallNative(Took, f, ok, j.v)
<1>1. /\ run = NoRun /\ jobs # <<>> /\ j.kind = "react" /\ Handler(j).k \in {"pair", "elem"}
      /\ Becomes(u) /\ held' = held
  BY DEF React, Draining
<1>2. /\ Inv(Took, {}, Taken(ran, W, j)) /\ Took \in World /\ j \in Job /\ Round(Took, held, {j})
      /\ Took.comb = comb /\ (comb.kind # "none" => JobFits(Took, j)) /\ (j.v = Arr => Known(Took))
      /\ \A x \in JobRoots(j) : Good(Took, x)
  BY <1>1, HeadRound, Zenon
<1>3. f \in Pairs \cup Elems /\ Good(Took, f) /\ j.v \in Plain /\ j.s \in {"ful", "rej"}
  BY <1>1, <1>2, HandlerFacts
<1>4. j.v \in Value /\ Good(Took, j.v) /\ ok \in BOOLEAN
  BY <1>3, PlainValues
<1>5. Calls(j.r, f) /\ f = (IF ok THEN j.r.onF ELSE j.r.onR) /\ j.s = IF ok THEN "ful" ELSE "rej"
  BY <1>3 DEF Handler, Calls
<1> HIDE DEF f, ok
<1>6. ASSUME NEW i \in {1, 2}, f = Elem(i)
      PROVE  /\ comb.kind # "race" /\ (~ Settled(comb) => ok = (comb.kind # "any"))
             /\ comb.elems[i] # Nothing => /\ Took.st[comb.elems[i].p].state = (IF ok THEN "ful" ELSE "rej")
                                           /\ j.v = Took.st[comb.elems[i].p].val
  <2>1. comb.kind # "none"
    BY <1>2, <1>3, <1>6, RefKinds DEF Good
  <2>2. /\ Serves(comb, i, j.r)
        /\ comb.elems[i] # Nothing => Took.st[comb.elems[i].p].state = j.s /\ Took.st[comb.elems[i].p].val = j.v
    BY <1>1, <1>2, <1>5, <1>6, <2>1 DEF JobFits
  <2>3. f = IF ok THEN OnF(comb, i) ELSE OnR(comb, i)
    BY <1>5, <2>2 DEF Serves
  <2>4. f # CapPair(comb)
    BY <1>6, RefKinds DEF CapPair
  <2>5. comb.kind # "race" /\ (~ Settled(comb) => ok = (comb.kind # "any"))
    BY <1>4, <2>3, <2>4, SMTT(30) DEF OnF, OnR, Settled
  <2> QED
    BY <1>5, <2>2, <2>5
<1>7. /\ Round(u, held, {j}) /\ u.comb.kind = comb.kind /\ u.comb.result = comb.result
      /\ f \in Pairs => f \notin u.open
      /\ \A i \in {1, 2} : f = Elem(i) => i \in u.comb.called
  <2>1. \A i \in {1, 2} : f = Elem(i) =>
           /\ Took.comb.kind # "race" /\ (~ Settled(Took.comb) => ok = (Took.comb.kind # "any"))
           /\ Took.comb.elems[i] # Nothing => /\ Took.st[Took.comb.elems[i].p].state = (IF ok THEN "ful" ELSE "rej")
                                              /\ j.v = Took.st[Took.comb.elems[i].p].val
    BY <1>2, <1>6
  <2> QED
    BY <1>2, <1>3, <1>4, <2>1, RoundCallNative
<1>8. Inv(u, {}, Taken(ran, W, j))
  BY <1>2, <1>3, <1>4, CallNativeKeeps
<1>9. Becomes(u)
  BY <1>1 DEF f, ok
<1> HIDE DEF u
<1>10. u \in World /\ Fit(u)
  BY <1>8 DEF Inv, Fit
<1>11. ASSUME CapPair(u.comb) \in u.open, NEW i \in {1, 2}, Serves(u.comb, i, j.r)
       PROVE  i \in u.comb.called
  <2>1. OnF(u.comb, i) \in {CapPair(u.comb), Elem(i)} /\ OnR(u.comb, i) \in {CapPair(u.comb), Elem(i)}
    BY DEF OnF, OnR
  <2>2. f \in {CapPair(u.comb), Elem(i)}
    BY <1>5, <1>11, <2>1 DEF Serves
  <2>3. CapPair(u.comb) \in Pairs
    BY <1>10, <1>11, WorldParts
  <2> QED
    BY <1>7, <1>11, <2>2, <2>3
<1> QED
  BY <1>1, <1>7, <1>9, <1>10, <1>11, RoundJob

LEMMA ReactJsRound == ASSUME CombInv, NEW j, j = jobs[1], ReactJs(j) PROVE (Round(W, held, {}))'
<1>1. /\ run = NoRun /\ jobs # <<>> /\ j.kind = "react" /\ Handler(j) = Js
      /\ Becomes(Took) /\ held' = held
  BY DEF ReactJs, Draining
<1>2. /\ Inv(Took, {}, Taken(ran, W, j)) /\ Took \in World /\ j \in Job /\ Round(Took, held, {j})
  BY <1>1, HeadRound
<1>3. \A i \in {1, 2} : ~ Serves(Took.comb, i, j.r)
  BY <1>1, <1>2, ScriptServesNone
<1>4. Fit(Took)
  BY <1>2 DEF Inv
<1> QED
  BY <1>1, <1>2, <1>3, <1>4, RoundJob

LEMMA AdoptRound == ASSUME CombInv, NEW j, j = jobs[1], Adopt(j) PROVE (Round(W, held, {}))'
<1> DEFINE w == NewPair(Took, j.p)
           f == Pair(j.p, w.gen[j.p])
           u == promiseThenCap(w, j.v.p, f, f, Nothing)
<1>1. /\ run = NoRun /\ jobs # <<>> /\ j.kind = "adopt" /\ j.v.k = "promise"
      /\ Becomes(u) /\ held' = held
  BY DEF Adopt, Draining
<1>2. /\ Inv(Took, {}, ran) /\ Took \in World /\ j \in Job /\ Round(Took, held, {j})
      /\ \A x \in JobRoots(j) : Good(Took, x)
  BY <1>1, HeadRound, Zenon
<1>3. j.p \in Promise /\ Target(j) = Prom(j.p) /\ JobRoots(j) = {Prom(j.p), j.v} /\ j.v \in Proms /\ j.v.p \in Promise
  BY <1>1, <1>2, JobFacts, RefSets, RefKinds
<1>4. Took.st[j.p].state = "pending" /\ Undecided(Took, {}, j.p)
  <2>1. Prom(j.p) \in Proms /\ Prom(j.p).p = j.p
    BY <1>3, RefSets, RefKinds
  <2> QED
    BY <1>1, <1>3, <2>1, HeadRound, Zenon
<1>5. /\ Inv(w, {}, ran) /\ Later(Took, w) /\ w.gen = [Took.gen EXCEPT ![j.p] = @ + 1] /\ w.gen[j.p] \in Nat
      /\ Good(w, f)
  BY <1>2, <1>3, <1>4, NewPairKeeps
<1>6. w \in World
  BY <1>5 DEF Inv, Fit
<1>7. Round(w, held, {j})
  BY <1>2, <1>3, <1>6, RoundNewPair
<1>8. f \in Pairs /\ \A i \in {1, 2} : Elem(i) \notin {f, f}
  BY <1>3, <1>5, NoElems, SMTT(30) DEF Pairs
<1>9. Lives(w, j.v.p) /\ Sole(w, {}, Nothing)
  BY <1>1, <1>2, <1>3, <1>5 DEF Good, Later, Sole
<1> HIDE DEF w, f
<1>10. Inv(u, {}, ran)
  BY <1>3, <1>5, <1>8, <1>9, ThenKeeps, SMTT(30)
<1>11. u \in World /\ Fit(u)
  BY <1>10 DEF Inv, Fit
<1>12. Round(u, held, {j})
  BY <1>3, <1>5, <1>7, <1>8, <1>11, RoundThen
<1>13. Becomes(u)
  BY <1>1 DEF w, f
<1> HIDE DEF u
<1> QED
  BY <1>1, <1>11, <1>12, <1>13, RoundJob

LEMMA AdoptJsRound == ASSUME CombInv, NEW j, j = jobs[1], AdoptJs(j) PROVE (Round(W, held, {}))'
<1> DEFINE w == NewPair(Took, j.p)
           f == Pair(j.p, w.gen[j.p])
<1>1. /\ run = NoRun /\ jobs # <<>> /\ j.kind = "adopt" /\ j.v = Thenable
      /\ Becomes(w) /\ held' = held \cup {f}
  BY DEF AdoptJs, Draining
<1>2. Inv(Took, {}, ran) /\ Took \in World /\ j \in Job /\ Round(Took, held, {j})
  BY <1>1, HeadRound, Zenon
<1>3. j.p \in Promise /\ Target(j) = Prom(j.p)
  BY <1>1, <1>2, JobFacts
<1>4. Took.st[j.p].state = "pending" /\ Undecided(Took, {}, j.p)
  <2>1. Prom(j.p) \in Proms /\ Prom(j.p).p = j.p
    BY <1>3, RefSets, RefKinds
  <2> QED
    BY <1>1, <1>3, <2>1, HeadRound, Zenon
<1>5. Inv(w, {}, ran)
  <2>1. Inv(Took, {}, ran) /\ j.p \in Promise
    BY <1>2, <1>3
  <2> QED
    BY <2>1, <1>4, NewPairKeeps, Zenon
<1>6. w \in World /\ Fit(w)
  BY <1>5 DEF Inv, Fit
<1>7. Round(w, held, {j})
  BY <1>2, <1>3, <1>6, RoundNewPair
<1>8. \A i \in {1, 2} : Elem(i) \in held' => Elem(i) \in held
  BY <1>1, NoElems
<1> HIDE DEF w, f
<1>9. Round(w, held, {})
  <2>1. w.comb.kind # "none" => w.comb.at \in {0, 1, 2}
    BY <1>6, ElemFacts
  <2>2. j.kind # "react"
    BY <1>1
  <2> QED
    BY <1>7, <2>1, <2>2, RoundDone
<1>10. Round(w, held', {})
  BY <1>8, <1>9, RoundHeld
<1> QED
  BY <1>1, <1>6, <1>10, RoundStep, Zenon

LEMMA ReturnRound == CombInv /\ Return => (Round(W, held, {}))'
<1> SUFFICES ASSUME CombInv, Return PROVE (Round(W, held, {}))'
  OBVIOUS
<1>1. run # NoRun /\ held' = held
  BY DEF Return
<1>2. CASE run.kind = "react"
  <2>1. PICK v \in Vals \cup {BadThen} : Becomes(Resolve(W, run.r.result.p, v))
    BY <1>2 DEF Return
  <2>2. v \in Value /\ Good(W, v) /\ v # Arr
    <3>1. v \in {Data("a"), Thenable, BadThen} \/ (v \in held /\ v.k = "promise")
      BY DEF Vals
    <3>2. Data("a") \in Plain
      BY DEF Plain
    <3> QED
      BY <3>1, <3>2, RoundParts, InvParts, PlainValues, RefKinds
  <2> DEFINE p == run.r.result.p
             u == Resolve(W, p, v)
  <2>3. Inv(W, {}, ran) /\ p \in Promise /\ Undecided(W, {}, p)
    BY <1>1, <1>2, RoundParts, RunFacts
  <2> HIDE DEF p
  <2>4. Inv(u, {}, ran)
    BY <2>2, <2>3, ResolveKeeps
  <2>5. Round(u, held, {})
    BY <2>2, <2>3, RoundParts, RoundResolve
  <2>6. Becomes(u)
    BY <2>1 DEF p
  <2> HIDE DEF u
  <2>7. u \in World
    BY <2>4 DEF Inv, Fit
  <2> QED
    BY <1>1, <2>5, <2>6, <2>7, RoundStep
<1>3. CASE run.kind # "react"
  <2>1. Becomes(W)
    BY <1>3 DEF Return, Becomes, W, world
  <2> QED
    BY <1>1, <2>1, RoundParts, RoundStep
<1> QED
  BY <1>2, <1>3

LEMMA ThrowRound == CombInv /\ Throw => (Round(W, held, {}))'
<1> SUFFICES ASSUME CombInv, Throw PROVE (Round(W, held, {}))'
  OBVIOUS
<1>1. run # NoRun /\ held' = held
  BY DEF Throw
<1>2. Data("err") \in Plain /\ Data("err") \in Value /\ Good(W, Data("err")) /\ Data("err") # Arr
  BY RefSets, RefKinds, PlainValues
<1>3. CASE run.kind = "react"
  <2> DEFINE p == run.r.result.p
             u == Settle(W, p, "rej", Data("err"))
  <2>1. Inv(W, {}, ran) /\ p \in Promise /\ Undecided(W, {}, p)
    BY <1>1, <1>3, RoundParts, RunFacts
  <2>2. Becomes(u)
    BY <1>3 DEF Throw
  <2> HIDE DEF p
  <2>3. Inv(u, {}, ran)
    BY <1>2, <2>1, SettleKeeps
  <2>4. Round(u, held, {})
    BY <1>2, <2>1, RoundParts, RoundSettle
  <2> HIDE DEF u
  <2>5. u \in World
    BY <2>3 DEF Inv, Fit
  <2> QED
    BY <1>1, <2>2, <2>4, <2>5, RoundStep
<1>4. CASE run.kind # "react"
  <2> DEFINE f == Pair(run.p, gen[run.p])
             u == CallPair(W, f, FALSE, Data("err"))
  <2>1. Becomes(u)
    BY <1>4, Zenon DEF Throw
  <2>2. Inv(W, {}, ran) /\ run.p \in Promise
    BY <1>1, <1>4, RoundParts, RunFacts
  <2>3. f \in Pairs
    BY <2>2, RoundParts, WorldParts DEF Pairs
  <2> HIDE DEF f
  <2>4. Inv(u, {}, ran)
    BY <1>2, <2>2, <2>3, CallPairKeeps, Zenon
  <2>5. Round(u, held, {})
    BY <1>2, <2>2, <2>3, RoundParts, RoundCallPair, Zenon
  <2> HIDE DEF u
  <2>6. u \in World
    BY <2>4 DEF Inv, Fit
  <2> QED
    BY <1>1, <2>1, <2>5, <2>6, RoundStep
<1> QED
  BY <1>3, <1>4

(* What the sweep forgets the combinator has no use for. *)
LEMMA RoundSwept ==
  ASSUME NEW w, NEW u, NEW d \in SUBSET Promise, NEW X, Fit(w), Swept(w, u, d), Round(w, X, {}),
         u.comb.kind # "none" => u.comb.remaining = w.comb.remaining,
         u.comb.kind = "none" => u.comb.remaining = 0
  PROVE  Round(u, X, {})
<1>1. u \in World /\ u.jobs = w.jobs /\ u.open \subseteq w.open /\ w \in World
  BY DEF Swept, Fit
<1>2. \A p \in Promise : IF p \in d THEN u.st[p] = Free ELSE u.st[p] = w.st[p]
  BY DEF Swept
<1>3. DOMAIN Free.handlers = {} /\ Free.val # Arr
  BY RefKinds DEF Free
<1>4. ArrIn(u) => ArrIn(w)
  BY <1>1, <1>2, <1>3 DEF ArrIn
<1>5. CASE w.comb.result \in d
  <2>1. u.comb.kind = "none" /\ u.comb.phase = "done" /\ u.comb.remaining = 0
    BY <1>5 DEF Swept
  <2>2. Counts(u.comb)
    BY <2>1 DEF Counts
  <2>3. Placed(u, X) /\ Filled(u) /\ Awaited(u, {}) /\ HandedOut(u) /\ Shut(u)
    BY <2>1 DEF Placed, Filled, Awaited, HandedOut, Known, Shut
  <2> QED
    BY <2>2, <2>3 DEF Round, Body
<1>6. CASE w.comb.result \notin d
  <2>1. /\ u.comb.kind = w.comb.kind /\ u.comb.result = w.comb.result /\ u.comb.at = w.comb.at
        /\ u.comb.called = w.comb.called /\ u.comb.res = w.comb.res /\ u.comb.phase = w.comb.phase
        /\ Len(u.comb.elems) = Len(w.comb.elems)
        /\ \A i \in DOMAIN u.comb.elems :
             \/ u.comb.elems[i] = Nothing
             \/ u.comb.elems[i] = w.comb.elems[i] /\ \A q \in d : w.comb.elems[i] # Prom(q)
    BY <1>6 DEF Swept
  <2>2. CASE u.comb.kind = "none"
    <3>1. Placed(u, X) /\ Filled(u) /\ Awaited(u, {}) /\ Shut(u) /\ Counts(u.comb)
      BY <2>2 DEF Placed, Filled, Awaited, Shut, Counts
    <3>2. HandedOut(u)
      BY <1>4, <2>1, <2>2 DEF Round, HandedOut, Known, Earned
    <3> QED
      BY <3>1, <3>2 DEF Round, Body
  <2>3. CASE u.comb.kind # "none"
    <3>1. u.comb.remaining = w.comb.remaining /\ CapPair(u.comb) = CapPair(w.comb) /\ Settled(u.comb) = Settled(w.comb)
          /\ \A i, r : Serves(u.comb, i, r) <=> Serves(w.comb, i, r)
      BY <2>1, <2>3 DEF CapPair, Settled, Serves, OnF, OnR
    <3>2. \A i \in {1, 2} : u.comb.elems[i] # Nothing =>
            /\ u.comb.elems[i] = w.comb.elems[i] /\ w.comb.elems[i] # Nothing
            /\ w.comb.elems[i].p \in Promise /\ u.st[w.comb.elems[i].p] = w.st[w.comb.elems[i].p]
      <4>1. DOMAIN u.comb.elems = {1, 2} /\ \A i \in {1, 2} : w.comb.elems[i] # Nothing =>
              w.comb.elems[i].p \in Promise /\ w.comb.elems[i] = Prom(w.comb.elems[i].p)
        <5>1. DOMAIN w.comb.elems = {1, 2} /\ Len(w.comb.elems) = 2
          BY <2>1, <2>3, ElemFacts DEF Fit
        <5>2. DOMAIN u.comb.elems = 1 .. 2
          BY <1>1, <2>1, <5>1, WorldParts, CombFacts
        <5> QED
          BY <2>1, <2>3, <5>2, ElemFacts
      <4> QED
        BY <1>2, <2>1, <4>1
    <3>3. w.comb.called \subseteq {1, 2} /\ 1 .. w.comb.at \subseteq {1, 2} /\ w.comb.result \in Promise
      BY <2>1, <2>3, ElemFacts
    <3>4. Counts(u.comb)
      BY <2>1, <3>1 DEF Round, Body, Counts, Counted, Waits
    <3>5. Placed(u, X)
      <4>1. /\ \A i \in {1, 2} : Elem(i) \in X => w.comb.kind # "race" /\ w.comb.elems[i] = Nothing
            /\ \A m \in Promise : \A k \in DOMAIN w.st[m].handlers : HandlerFits(w.comb, m, w.st[m].handlers[k])
            /\ \A k \in DOMAIN w.jobs : JobFits(w, w.jobs[k])
        BY <2>1, <2>3 DEF Round, Body, Placed
      <4>2. \A m, h : HandlerFits(w.comb, m, h) => HandlerFits(u.comb, m, h)
        BY <3>1, <3>2 DEF HandlerFits
      <4>3. \A j : JobFits(w, j) => JobFits(u, j)
        BY <3>1, <3>2, Zenon DEF JobFits
      <4>4. \A i \in {1, 2} : Elem(i) \in X => u.comb.kind # "race" /\ u.comb.elems[i] = Nothing
        BY <2>1, <3>2, <4>1
      <4>5. \A m \in Promise : \A k \in DOMAIN u.st[m].handlers : HandlerFits(u.comb, m, u.st[m].handlers[k])
        BY <1>2, <1>3, <4>1, <4>2
      <4> QED
        BY <1>1, <4>1, <4>3, <4>4, <4>5 DEF Placed
    <3>6. Filled(u)
      <4> SUFFICES ASSUME NEW i \in w.comb.called, u.comb.elems[i] # Nothing
                   PROVE  /\ u.st[u.comb.elems[i].p].state = (IF w.comb.res[i].ok THEN "ful" ELSE "rej")
                          /\ w.comb.res[i].v = u.st[u.comb.elems[i].p].val
                          /\ ~ Settled(w.comb) => w.comb.res[i].ok = (w.comb.kind # "any")
        BY <2>1, <3>1 DEF Filled
      <4>1. Filled(w) /\ i \in {1, 2}
        BY <3>3 DEF Round, Body
      <4>2. /\ u.comb.elems[i] = w.comb.elems[i] /\ w.comb.elems[i] # Nothing
            /\ u.st[w.comb.elems[i].p] = w.st[w.comb.elems[i].p]
        BY <3>2, <4>1, SMTT(30)
      <4>3. /\ w.st[w.comb.elems[i].p].state = (IF w.comb.res[i].ok THEN "ful" ELSE "rej")
            /\ w.comb.res[i].v = w.st[w.comb.elems[i].p].val
            /\ ~ Settled(w.comb) => w.comb.res[i].ok = (w.comb.kind # "any")
        BY <2>1, <2>3, <4>1, <4>2 DEF Filled
      <4> QED
        BY <4>2, <4>3
    <3>7. Awaited(u, {})
      <4> SUFFICES ASSUME CapPair(w.comb) \in w.open, NEW i \in 1 .. w.comb.at, u.comb.elems[i] # Nothing
                   PROVE  Heard(u, i, {})
        BY <1>1, <2>1, <3>1 DEF Awaited
      <4>1. i \in {1, 2}
        BY <3>3
      <4>2. Heard(w, i, {})
        BY <2>1, <2>3, <3>2, <4>1 DEF Round, Body, Awaited
      <4>3. u.comb.elems[i] = w.comb.elems[i] /\ u.st[w.comb.elems[i].p] = w.st[w.comb.elems[i].p]
        BY <3>2, <4>1
      <4>4. \A r : Serves(u.comb, i, r) <=> Serves(w.comb, i, r)
        BY <3>1
      <4> QED
        BY <1>1, <2>1, <4>2, <4>3, <4>4, Zenon DEF Heard
    <3>8. Shut(u)
      BY <1>1, <2>1, <2>3, <3>1 DEF Round, Shut
    <3>9. HandedOut(u)
      <4>1. Earned(w) => Earned(u)
        BY <1>2, <1>6, <2>1, <3>3 DEF Earned, Outcome
      <4> QED
        BY <1>4, <2>1, <2>3, <4>1 DEF Round, HandedOut, Known
    <3> QED
      BY <3>4, <3>5, <3>6, <3>7, <3>8, <3>9 DEF Round, Body
  <2> QED
    BY <2>2, <2>3
<1> QED
  BY <1>5, <1>6

LEMMA CollectRound == CombInv /\ Collect => (Round(W, held, {}))'
<1> SUFFICES ASSUME CombInv, Collect PROVE (Round(W, held, {}))'
  OBVIOUS
<1>1. PICK d \in SUBSET Promise :
           /\ d = {p \in Promise : st[p].state # "free" /\ Prom(p) \notin Marked}
           /\ Swept(W, W', d) /\ UNCHANGED <<run, held, ops>>
  BY RoundParts, CollectSweeps
<1>2. W'.comb = comb' /\ W.comb = comb /\ comb \in Call0
  BY RoundParts, WorldParts DEF W
<1>3. comb' = IF comb.result \in d THEN [NoComb EXCEPT !.phase = "done"]
              ELSE [comb EXCEPT !.elems = [i \in DOMAIN comb.elems |->
                         IF \E q \in d : comb.elems[i] = Prom(q) THEN Nothing ELSE comb.elems[i]]]
  BY <1>1 DEF Collect
<1>4. CASE comb.result \in d
  <2>1. comb'.kind = "none" /\ comb'.remaining = 0
    BY <1>3, <1>4 DEF NoComb
  <2> QED
    BY <1>1, <1>2, <2>1, RoundParts, RoundSwept
<1>5. CASE comb.result \notin d
  <2>1. comb'.kind = comb.kind /\ comb'.remaining = comb.remaining
    BY <1>2, <1>3, <1>5 DEF Call0
  <2>2. comb.kind = "none" => comb.remaining = 0
    BY <1>2, RoundParts DEF Round, Body, Counts
  <2> QED
    BY <1>1, <1>2, <2>1, <2>2, RoundParts, RoundSwept
<1> QED
  BY <1>4, <1>5

LEMMA InitRound == Init => Round(W, held, {})
<1> SUFFICES ASSUME Init PROVE Round(W, held, {})
  OBVIOUS
<1>1. W.comb.kind = "none" /\ W.comb.remaining = 0 /\ W.jobs = <<>> /\ W.st = [p \in Promise |-> Free]
  BY WorldFields DEF Init, NoComb
<1>2. ~ ArrIn(W)
  BY <1>1, RefKinds DEF ArrIn, Free
<1> QED
  BY <1>1, <1>2 DEF Round, Body, Counts, Placed, Filled, Awaited, HandedOut, Shut

LEMMA NextRound == CombInv /\ [Next]_vars => CombInv'
<1> SUFFICES ASSUME CombInv, [Next]_vars PROVE CombInv'
  OBVIOUS
<1>1. JobInv'
  BY RoundParts, NextKeeps
<1>2. CASE NewPromise
  BY <1>1, <1>2, NewPromiseRound DEF CombInv
<1>3. CASE Call
  BY <1>1, <1>3, CallRound DEF CombInv
<1>4. CASE Then
  BY <1>1, <1>4, ThenRound DEF CombInv
<1>5. CASE Drop
  BY <1>1, <1>5, DropRound DEF CombInv
<1>6. CASE Collect
  BY <1>1, <1>6, CollectRound DEF CombInv
<1>7. CASE \E kind \in Kinds : CombStart(kind)
  BY <1>1, <1>7, CombStartRound DEF CombInv
<1>8. CASE CombNext
  BY <1>1, <1>8, CombNextRound DEF CombInv
<1>9. CASE CombThrow
  BY <1>1, <1>9, CombThrowRound DEF CombInv
<1>10. CASE CombEnd
  BY <1>1, <1>10, CombEndRound DEF CombInv
<1>11. ASSUME NEW j \in {jobs[i] : i \in 1 .. (IF jobs = <<>> THEN 0 ELSE 1)},
              Pass(j) \/ React(j) \/ ReactJs(j) \/ Adopt(j) \/ AdoptJs(j)
       PROVE  CombInv'
  <2>1. j = jobs[1]
    <3>1. PICK i \in 1 .. (IF jobs = <<>> THEN 0 ELSE 1) : j = jobs[i]
      OBVIOUS
    <3>2. i = 1
      BY <3>1
    <3> QED
      BY <3>1, <3>2
  <2>2. (Round(W, held, {}))'
    BY <1>11, <2>1, PassRound, ReactRound, ReactJsRound, AdoptRound, AdoptJsRound
  <2> QED
    BY <1>1, <2>2 DEF CombInv
<1>12. CASE Return
  BY <1>1, <1>12, ReturnRound DEF CombInv
<1>13. CASE Throw
  BY <1>1, <1>13, ThrowRound DEF CombInv
<1>14. CASE UNCHANGED vars
  <2>1. Becomes(W) /\ held' = held
    BY <1>14, WorldFields DEF Becomes, vars, world
  <2> QED
    BY <1>1, <2>1, RoundParts, RoundStep DEF CombInv
<1> QED
  BY <1>2, <1>3, <1>4, <1>5, <1>6, <1>7, <1>8, <1>9, <1>10, <1>11, <1>12, <1>13, <1>14 DEF Next

(* The combinator counts what it still waits for, what was filled in is how  *)
(* the element ended, and every element registered is heard of: its          *)
(* function is with the reactions of its promise or queued with that         *)
(* promise's outcome (promiseAll, promiseRace, tryFinish, flushReactions).   *)
THEOREM CombInvariance == Spec => []CombInv
<1>1. Init => CombInv
  BY InitInv, InitRound DEF CombInv
<1>2. CombInv /\ [Next]_vars => CombInv'
  BY NextRound
<1> QED
  BY <1>1, <1>2, PTL DEF Spec

LEMMA CombInvTypes == CombInv => TypeOK
<1> SUFFICES ASSUME CombInv PROVE TypeOK
  OBVIOUS
<1>1. W \in World /\ Fit(W) /\ Sound(W) /\ W.st = st /\ W.jobs = jobs /\ W.open = open /\ W.gen = gen
      /\ W.comb = comb /\ Round(W, held, {}) /\ ops \in 0 .. MaxOps
  BY RoundParts, InvParts
<1>2. \A p \in Promise : st[p].state \in {"free", "pending", "ful", "rej"}
                         /\ (st[p].state # "pending" => st[p].handlers = <<>>)
  BY <1>1, WorldParts, SMTT(30) DEF Fit
<1>3. \A f \in open : f.k = "pair" /\ f.n \in 1 .. gen[f.p] /\ Alive(f.p)
  BY <1>1, WorldParts, RefSets DEF Sound, Good, Lives, Alive
<1>4. ASSUME NEW j \in Range(jobs)
      PROVE  IF j.kind = "adopt" THEN Alive(j.p) ELSE j.r.result = Nothing \/ Alive(j.r.result.p)
  <2>1. j \in Job /\ \A x \in JobRoots(j) : Good(W, x)
    BY <1>1, WorldParts DEF Range, Sound
  <2>2. CASE j.kind = "adopt"
    BY <1>1, <2>1, <2>2, JobFacts, RefKinds DEF Good, Lives, Alive
  <2>3. CASE j.kind = "react"
    <3>1. j.r.result \in Proms \cup {Nothing} /\ Good(W, j.r.result)
      BY <2>1, <2>3, JobFacts
    <3>2. j.r.result \in Proms => j.r.result.k = "promise"
      BY RefSets
    <3> QED
      BY <1>1, <2>3, <3>1, <3>2 DEF Good, Lives, Alive
  <2> QED
    BY <2>1, <2>2, <2>3, JobFacts
<1>5. comb.remaining \in Nat
  <2>1. comb.at \in Nat /\ Counts(comb)
    BY <1>1, WorldParts, CombFacts DEF Round, Body
  <2>2. Waits(comb) \in Nat
    BY <2>1, WaitsFacts, Zenon
  <2>3. Waits(comb) + (IF comb.phase = "done" THEN 0 ELSE 1) \in Nat
    BY <2>2
  <2> QED
    BY <2>1, <2>3 DEF Counts, Counted
<1> QED
  BY <1>1, <1>2, <1>3, <1>4, <1>5 DEF TypeOK

(* When the jobs have run, an element that has ended has been heard of.      *)
LEMMA EndedIsHeard ==
  ASSUME CombInv, Quiet, comb.kind # "none", comb.phase = "done", CapPair(comb) \in open,
         NEW i \in Elements, st[comb.elems[i].p].state # "pending"
  PROVE  i \in comb.called
<1> DEFINE p == comb.elems[i].p
<1>1. Fit(W) /\ W.st = st /\ W.jobs = jobs /\ W.open = open /\ W.comb = comb /\ Round(W, held, {})
  BY RoundParts
<1>2. i \in {1, 2} /\ comb.elems[i] # Nothing /\ p \in Promise
  BY <1>1, ElemFacts DEF Elements
<1>3. comb.at = 2
  BY <1>1 DEF Round, Body, Counts
<1>4. Heard(W, i, {})
  BY <1>1, <1>2, <1>3 DEF Round, Body, Awaited
<1>5. DOMAIN st[p].handlers = {} /\ DOMAIN jobs = {}
  BY <1>1, <1>2 DEF Fit, Quiet
<1> QED
  BY <1>1, <1>4, <1>5 DEF Heard

LEMMA CombInvExact == CombInv => CombinatorIsExact
<1> SUFFICES ASSUME CombInv PROVE CombinatorIsExact
  OBVIOUS
<1>1. Fit(W) /\ W.st = st /\ W.jobs = jobs /\ W.open = open /\ W.comb = comb /\ Round(W, held, {})
  BY RoundParts
<1>2. RemainingExact
  BY <1>1 DEF RemainingExact, Round, Body, Counts, Waits
<1>3. ResultIsEarned
  <2> SUFFICES ASSUME comb.kind # "none"
               PROVE  /\ st[comb.result].val = Arr /\ st[comb.result].state # "pending" =>
                           /\ comb.called = DOMAIN comb.elems
                           /\ \A i \in Elements : /\ Ended(i, comb.res[i].ok)
                                                  /\ comb.res[i].v = st[comb.elems[i].p].val
                                                  /\ ~ Settled(comb) => comb.res[i].ok = (st[comb.result].state = "ful")
                      /\ Quiet /\ comb.phase = "done" /\ CapPair(comb) \in open =>
                           /\ comb.kind # "race" /\ Elements = {1, 2} =>
                                \E i \in Elements : st[comb.elems[i].p].state = "pending"
                           /\ comb.kind = "race" => \A i \in Elements : st[comb.elems[i].p].state = "pending"
    BY DEF ResultIsEarned
  <2>1. comb.result \in Promise /\ DOMAIN comb.elems = {1, 2} /\ Filled(W) /\ Counts(comb) /\ Shut(W) /\ HandedOut(W)
    BY <1>1, ElemFacts DEF Round, Body
  <2>2. ASSUME st[comb.result].val = Arr
        PROVE  /\ comb.called = DOMAIN comb.elems
               /\ \A i \in Elements : /\ Ended(i, comb.res[i].ok)
                                      /\ comb.res[i].v = st[comb.elems[i].p].val
                                      /\ ~ Settled(comb) => comb.res[i].ok = (st[comb.result].state = "ful")
    <3>1. Earned(W)
      BY <1>1, <2>1, <2>2 DEF HandedOut, ArrIn, Known
    <3>2. comb.called = {1, 2} /\ st[comb.result].state = (IF comb.kind = "any" THEN "rej" ELSE "ful")
      BY <1>1, <3>1 DEF Earned, Outcome
    <3>3. ASSUME NEW i \in Elements
          PROVE  /\ st[comb.elems[i].p].state = (IF comb.res[i].ok THEN "ful" ELSE "rej")
                 /\ comb.res[i].v = st[comb.elems[i].p].val
                 /\ ~ Settled(comb) => comb.res[i].ok = (comb.kind # "any")
      BY <1>1, <2>1, <3>2 DEF Filled, Elements
    <3> QED
      BY <2>1, <3>2, <3>3 DEF Ended
  <2>3. ASSUME Quiet, comb.phase = "done", CapPair(comb) \in open, comb.kind # "race", Elements = {1, 2},
               \A i \in Elements : st[comb.elems[i].p].state # "pending"
        PROVE  FALSE
    <3>1. {1, 2} \subseteq comb.called /\ comb.at = 2
      BY <2>1, <2>3, EndedIsHeard DEF Counts
    <3>2. Waits(comb) = 0
      <4>1. 1 .. comb.at \subseteq comb.called /\ comb.at \in Nat
        BY <3>1
      <4> QED
        BY <4>1, WaitsFacts, Zenon
    <3>3. comb.remaining = 0
      BY <2>1, <2>3, <3>2 DEF Counts, Counted
    <3> QED
      BY <1>1, <2>3, <3>3, <2>1 DEF Shut
  <2>4. ASSUME Quiet, comb.phase = "done", CapPair(comb) \in open, comb.kind = "race", NEW i \in Elements,
               st[comb.elems[i].p].state # "pending"
        PROVE  FALSE
    BY <2>1, <2>4, EndedIsHeard DEF Counts
  <2> QED
    BY <2>2, <2>3, <2>4
<1> QED
  BY <1>2, <1>3, CombInvTypes DEF CombinatorIsExact

(* A combinator's counter is what it still waits for, its result is complete *)
(* when it is handed out, and it is handed out when it is complete           *)
(* (promiseAll, promiseRace, tryFinish): by the invariant above.             *)
THEOREM Exact == Spec => []CombinatorIsExact
BY CombInvariance, CombInvExact, PTL
=============================================================================
