----------------------------- MODULE Invocation -----------------------------
(***************************************************************************)
(* Invocations and region reclamation: the object pool (pools.go), the     *)
(* watermark and the dirty test (invocation_dirty.go), Begin, End and      *)
(* Release (invocation.go) and the collector (collect.go).                 *)
(*                                                                         *)
(* An object is a cell with one reference.  A Runtime runs one script at a *)
(* time, so every operation is one step; what is hard is the order of      *)
(* allocations, writes, collections and runs over one pool.                *)
(*                                                                         *)
(* Three ways by which something still referred to is freed are in the     *)
(* code, and in the model: a store the dirty test does not see, a job left *)
(* in the queue when the run is released, a global lexical binding saved   *)
(* where the collector does not look.  The history variable lost says      *)
(* which of them have been met so far.                                     *)
(***************************************************************************)
EXTENDS Integers, FiniteSets

CONSTANTS Cells,     \* the pool's capacity
          MaxRuns    \* bound on the invocations

ASSUME InvocationAssumption ==
  /\ Cells \in Nat \ {0} /\ MaxRuns \in Nat

Handles == 1..Cells
Null == 0        \* nullHandle
Shared == 1      \* the shared global, held by the realm itself

VARIABLES
  next,      \* pool.next
  live,      \* cells that hold an object
  freeList,  \* how often each cell is on pool.freeList
  liveN,     \* pool.liveN
  born,      \* cells marked poolCell.born
  reborn,    \* how often each cell is on pool.reborn
  mark,      \* the watermark, Null when no invocation runs
  dirty,     \* Runtime.invDirty
  global,    \* Runtime.global
  ref,       \* what each object refers to
  held,      \* what the running script has in its frames and its own globals
  lex,       \* what the global lexical bindings of the Runtime hold
  prevLex,   \* Invocation.prevLex
  queue,     \* what timers and microtasks hold
  own,       \* cells whose object was made by the running invocation
  wrote,     \* history: the run wrote a property of an object older than itself
  slipped,   \* history: the older objects the run stored into otherwise
  lost,      \* history: how something still referred to has been freed so far
  runs       \* invocations so far

poolVars == <<next, live, freeList, liveN, born, reborn>>
vars == <<poolVars, mark, dirty, global, ref, held, lex, prevLex, queue, own, wrote, slipped, lost, runs>>

Running == mark # Null

Doors == {"slot", "queue", "binding"}

TypeOK ==
  /\ next \in 1..(Cells + 1) /\ live \subseteq Handles /\ liveN \in Int
  /\ freeList \in [Handles -> Nat] /\ reborn \in [Handles -> Nat] /\ born \subseteq Handles
  /\ mark \in 0..(Cells + 1) /\ dirty \in BOOLEAN /\ global \in Handles
  /\ ref \in [Handles -> Handles \cup {Null}]
  /\ held \subseteq Handles /\ lex \subseteq Handles /\ prevLex \subseteq Handles
  /\ queue \subseteq Handles /\ own \subseteq Handles /\ wrote \in BOOLEAN
  /\ slipped \subseteq Handles /\ lost \subseteq Doors
  /\ runs \in 0..MaxRuns

(* A Runtime after New. *)
Init ==
  /\ next = 2 /\ live = {Shared} /\ liveN = 1
  /\ freeList = [h \in Handles |-> 0] /\ reborn = [h \in Handles |-> 0] /\ born = {}
  /\ mark = Null /\ dirty = FALSE /\ global = Shared
  /\ ref = [h \in Handles |-> Null]
  /\ held = {} /\ lex = {} /\ prevLex = {} /\ queue = {}
  /\ own = {} /\ wrote = FALSE /\ slipped = {} /\ lost = {} /\ runs = 0

-----------------------------------------------------------------------------
(* The pool. *)

(* What can be reached from roots. *)
Reach(roots) ==
  {h \in Handles : \A S \in SUBSET Handles :
     roots \subseteq S /\ (\A x \in S : ref[x] # Null => ref[x] \in S) => h \in S}

(* alloc takes a recycled cell if there is one.  Which one depends on the    *)
(* order of the list, which is not modelled.                                 *)
Fresh(h) == IF \E x \in Handles : freeList[x] > 0 THEN h \in Handles /\ freeList[h] > 0
            ELSE h = next /\ next <= Cells

(* Mutant: a recycled cell is not marked as the run's own. *)
AllocUnmarked(h, m, r) ==
  /\ Fresh(h)
  /\ freeList' = [freeList EXCEPT ![h] = IF @ > 0 THEN @ - 1 ELSE @]
  /\ next' = IF h = next THEN next + 1 ELSE next
  /\ live' = live \cup {h} /\ liveN' = liveN + 1
  /\ ref' = [ref EXCEPT ![h] = r]
  /\ UNCHANGED <<born, reborn>>

(* alloc under the watermark m, for an object that refers to r. *)
Alloc(h, m, r) ==
  /\ Fresh(h)
  /\ freeList' = [freeList EXCEPT ![h] = IF @ > 0 THEN @ - 1 ELSE @]
  /\ next' = IF h = next THEN next + 1 ELSE next
  /\ live' = live \cup {h} /\ liveN' = liveN + 1
  /\ ref' = [ref EXCEPT ![h] = r]
  /\ IF h < m /\ h \notin born
     THEN born' = born \cup {h} /\ reborn' = [reborn EXCEPT ![h] = @ + 1]
     ELSE UNCHANGED <<born, reborn>>

(* free, of each cell of S that is live. *)
Freed(S) == [h \in Handles |-> IF h \in S \cap live THEN freeList[h] + 1 ELSE freeList[h]]

-----------------------------------------------------------------------------
(* What a script does, in an invocation or before one. *)

Access == Reach({Shared, global} \cup held \cup lex)

New(h) ==
  /\ Alloc(h, mark, Null)
  /\ held' = held \cup {h}
  /\ own' = IF Running THEN own \cup {h} ELSE own
  /\ UNCHANGED <<mark, dirty, global, lex, prevLex, queue, wrote, slipped, lost, runs>>

(* Mutant: a recycled cell counts as older than the run. *)
OlderByHandle(o) == Running /\ o < mark

(* noteSharedMutation. *)
OlderThanRun(o) == Running /\ o < mark /\ o \notin born

Kinds == {"property", "slot"}

(* "property" is a write, define, delete or change of prototype; "slot" is a *)
(* write to a Map, a Set, a captured variable, the reactions of a promise:   *)
(* to what an object holds outside its properties, where nothing looks at    *)
(* the watermark.                                                            *)
Write(o, v, k) ==
  /\ ref' = [ref EXCEPT ![o] = v]
  /\ dirty' = (dirty \/ (k = "property" /\ OlderThanRun(o)))
  /\ wrote' = (wrote \/ (k = "property" /\ Running /\ o \notin own))
  /\ slipped' = slipped \cup {x \in {o} : k = "slot" /\ Running /\ o \notin own}
  /\ UNCHANGED <<poolVars, mark, global, held, lex, prevLex, queue, own, lost, runs>>

(* A local or a global variable of the run no longer holds h. *)
Drop(h) ==
  /\ h \in held
  /\ held' = held \ {h}
  /\ UNCHANGED <<poolVars, mark, dirty, global, ref, lex, prevLex, queue, own, wrote, slipped, lost, runs>>

(* A top-level let of a script that runs outside any invocation. *)
RegisterGlobalLex(h) ==
  /\ ~Running /\ h \in held
  /\ lex' = lex \cup {h}
  /\ UNCHANGED <<poolVars, mark, dirty, global, ref, held, prevLex, queue, own, wrote, slipped, lost, runs>>

(* setTimeout or a promise reaction, and later its callback. *)
Schedule(h) ==
  /\ h \in Access
  /\ queue' = queue \cup {h}
  /\ UNCHANGED <<poolVars, mark, dirty, global, ref, held, lex, prevLex, own, wrote, slipped, lost, runs>>

RunJob(h) ==
  /\ h \in queue
  /\ queue' = queue \ {h} /\ held' = held \cup {h}
  /\ UNCHANGED <<poolVars, mark, dirty, global, ref, lex, prevLex, own, wrote, slipped, lost, runs>>

-----------------------------------------------------------------------------
(* Collection and invocations. *)

(* The Runtime's fields and its frames are the roots; the bindings Begin put *)
(* aside are on the Invocation, which the host holds.                        *)
Marked == Reach({Shared, global} \cup held \cup lex \cup queue)

Collect ==
  /\ live \ Marked # {}
  /\ live' = live \cap Marked
  /\ liveN' = liveN - Cardinality(live \ Marked)
  /\ freeList' = Freed(live \ Marked)
  /\ ref' = [h \in Handles |-> IF h \in live \ Marked THEN Null ELSE ref[h]]
  /\ own' = own \cap Marked /\ slipped' = slipped \cap Marked
  /\ lost' = lost \cup {d \in {"binding"} : ~ prevLex \subseteq Marked}
  /\ UNCHANGED <<next, born, reborn, mark, dirty, global, held, lex, prevLex, queue, wrote, runs>>

(* BeginInvocation: the fresh global is allocated under the new watermark,   *)
(* with the shared one as its prototype.                                     *)
Begin(h) ==
  /\ ~Running /\ runs < MaxRuns
  /\ mark' = next /\ dirty' = FALSE
  /\ Alloc(h, next, Shared)
  /\ global' = h /\ own' = {h} /\ wrote' = FALSE
  /\ prevLex' = lex /\ lex' = {}
  /\ held' = {} /\ runs' = runs + 1
  /\ slipped' = {} /\ UNCHANGED <<queue, lost>>

(* What End restores, and the marks it takes off. *)
EndRun ==
  /\ global' = Shared /\ lex' = prevLex /\ prevLex' = {} /\ mark' = Null
  /\ born' = born \ {h \in Handles : reborn[h] > 0} /\ reborn' = [h \in Handles |-> 0]
  /\ held' = {} /\ own' = {} /\ slipped' = {}
  /\ UNCHANGED <<dirty, queue, wrote, runs>>

(* End by itself frees nothing: what the run made is left to the collector. *)
End ==
  /\ Running /\ EndRun
  /\ UNCHANGED <<next, live, freeList, liveN, ref, lost>>

(* What a release of the run's region leaves dangling: it frees the region   *)
(* and looks neither at the queue nor at what the dirty test did not see.    *)
Dangling == {d \in {"queue"} : queue \cap own # {}}
              \cup {d \in {"slot"} : \E h \in slipped : ref[h] \in own}

(* Release of a run that wrote to shared state frees nothing. *)
ReleaseDirty == Running /\ dirty /\ End

(* Mutant: only the cells above the watermark are freed. *)
ReleaseAbove ==
  /\ Running /\ ~dirty
  /\ EndRun /\ lost' = lost \cup Dangling
  /\ LET gone == {h \in live : h >= mark} IN
       /\ live' = live \ gone /\ liveN' = liveN - Cardinality(gone)
       /\ ref' = [h \in Handles |-> IF h \in gone THEN Null ELSE ref[h]]
       /\ freeList' = [h \in Handles |-> IF h >= mark THEN 0 ELSE freeList[h]]
  /\ next' = mark

(* Mutant: a run that wrote to shared state is released all the same. *)
ReleaseAnyway ==
  /\ Running
  /\ EndRun /\ lost' = lost \cup Dangling
  /\ LET low == {h \in live : reborn[h] > 0}
         gone == low \cup {h \in live : h >= mark} IN
       /\ live' = live \ gone /\ liveN' = liveN - Cardinality(gone)
       /\ ref' = [h \in Handles |-> IF h \in gone THEN Null ELSE ref[h]]
       /\ freeList' = [h \in Handles |-> IF h >= mark THEN 0 ELSE Freed(low)[h]]
  /\ next' = mark

(* Release: the recycled cells are freed by name, then the pool is rewound.  *)
Release ==
  /\ Running /\ ~dirty
  /\ EndRun /\ lost' = lost \cup Dangling
  /\ LET low == {h \in live : reborn[h] > 0}
         gone == low \cup {h \in live : h >= mark} IN
       /\ live' = live \ gone /\ liveN' = liveN - Cardinality(gone)
       /\ ref' = [h \in Handles |-> IF h \in gone THEN Null ELSE ref[h]]
       /\ freeList' = [h \in Handles |-> IF h >= mark THEN 0 ELSE Freed(low)[h]]
  /\ next' = mark

Next ==
  \/ Collect \/ End \/ ReleaseDirty \/ Release
  \/ \E h \in Handles : \/ New(h) \/ Begin(h) \/ Drop(h)
                        \/ RegisterGlobalLex(h) \/ Schedule(h) \/ RunJob(h)
  \/ LET A == Access IN \E o \in A, v \in A \cup {Null}, k \in Kinds : Write(o, v, k)

Spec == Init /\ [][Next]_vars

-----------------------------------------------------------------------------
(* The pool hands out no cell twice: a cell is on the free list at most once, *)
(* and only if it is dead and below next; liveN is exact, and every cell     *)
(* marked born is on the list by which End unmarks it, once.                 *)
PoolSound ==
  /\ \A h \in Handles : /\ freeList[h] <= 1
                        /\ freeList[h] = 1 => h < next /\ h \notin live
                        /\ reborn[h] = (IF h \in born THEN 1 ELSE 0)
  /\ \A h \in live : h < next
  /\ liveN = Cardinality(live)

(* The watermark and the marks tell exactly which objects are the run's own, *)
(* though recycling puts new objects below it, and nothing is marked between *)
(* runs (poolCell.born).                                                     *)
OwnIsKnown ==
  /\ Running => own = {h \in live : h >= mark \/ h \in born}
  /\ ~Running => born = {}

(* A run is reported dirty exactly when it wrote a property of an object     *)
(* older than itself: neither a pollution missed nor a warm Runtime thrown   *)
(* away because the run used a recycled cell.                                *)
DirtyIsExact == lost = {} => (Running => (dirty <=> wrote))

(* What Release rests on: what refers into a clean run's region from outside *)
(* was put there by a store the dirty test does not see, and by nothing else *)
(* ("unreachable by construction", invocation.go:157).                       *)
RegionIsolated ==
  lost = {} =>
    (Running /\ ~dirty => \A h \in live \ own : ref[h] \in own => h \in slipped)

(* Nothing still referred to is ever freed but in one of three ways (lost):  *)
(* a clean run is released while an older object it stored into past the     *)
(* dirty test refers to an object of the run, or while a queued job holds    *)
(* one, or a collection sweeps what only a binding put aside by Begin holds. *)
(* Until then no live object, no root and no saved binding refers to a dead  *)
(* cell, after any collections, releases and rewinds.                        *)
NoDangling ==
  lost = {} => /\ \A h \in live : ref[h] # Null => ref[h] \in live
               /\ {Shared, global} \cup held \cup lex \cup queue \cup prevLex \subseteq live

(* Released, a clean run leaves the pool as if it had not been: its objects  *)
(* are gone, those in recycled cells below the watermark too, and only they. *)
ReleaseFreesTheRun == [][Release => live' = live \ own]_vars
(* No cell is handed out twice, liveN counts the live ones, and the marks    *)
(* tell exactly the run's objects, after any collections, releases and       *)
(* rewinds (pool.alloc, free, sweep, truncate).                              *)
PoolIsExact == PoolSound /\ OwnIsKnown

(* The dirty test is right about the properties a run wrote, and nothing but *)
(* the stores it does not see breaks the isolation of a clean run's region   *)
(* (noteSharedMutation, Release).                                            *)
RegionIsExact == DirtyIsExact /\ RegionIsolated

-----------------------------------------------------------------------------
(* What comments say of this code and TLC refutes; no run checks these. *)

(* Dirty reports whether the run modified state that predates it             *)
(* (invocation_dirty.go:83).                                                 *)
DirtyReportsAll == Running /\ slipped # {} => dirty

(* A run that modified nothing older can be released: nothing outside its    *)
(* region points into it (invocation.go:157).                                *)
NothingPointsIn == [][Release /\ slipped = {} => queue \cap own = {}]_vars

(* End restores the shared bindings (invocation.go:123): what a binding      *)
(* holds is there.                                                           *)
BindingsRestored == ~Running => lex \subseteq live
=============================================================================
