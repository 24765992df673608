------------------------------- MODULE MCPool -------------------------------
(* Pool for TLC: jobs and Runtimes are interchangeable.  The symmetry is for  *)
(* checking without liveness.                                                 *)
EXTENDS Pool

Interchangeable == Permutations(Jobs) \cup Permutations(Runtimes)

-----------------------------------------------------------------------------
(* What comments in scope.go say and TLC refutes; no run checks these.       *)

(* A stray Interrupt from a previous job's watcher is harmless (acquire): a  *)
(* script is only ever stopped for its own context.                          *)
StrayIsHarmless == \A j \in Jobs : fate[j] = "interrupted" => ctx[j]

(* Also in a pool that was closed, live counts the Runtimes that are not     *)
(* retired (Pool.live).                                                      *)
LiveAfterClose == closed /\ closing = {} => live = Cardinality({j \in Jobs : Counts(j)})

(* A Runtime is never parked while interrupted (acquire). *)
NeverParkedInterrupted == \A r \in ToSet(free) : ~flag[r]
=============================================================================
