---------------------------- MODULE MCPromiseJobs ----------------------------
(* Promises for model checking: cells are interchangeable. *)
EXTENDS PromiseJobs, TLC

Symmetry == Permutations(Promise)
=============================================================================
