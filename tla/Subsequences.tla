---------------------------- MODULE Subsequences ----------------------------
(***************************************************************************)
(* What is left of a list when some of its elements are dropped in place,  *)
(* as the loops of the code that compact a slice do (keep := s[:0] ...).   *)
(***************************************************************************)
EXTENDS Integers, Sequences, FiniteSets

(* The place of i among the positions I, counted from 1. *)
Rank(i, I) == Cardinality({j \in I : j <= i})

(* The places of s that hold an element of K. *)
Places(s, K) == {i \in DOMAIN s : s[i] \in K}

(* The elements of s that are in K, in the order of s. *)
Kept(s, K) ==
  LET I == Places(s, K)
  IN [k \in 1..Cardinality(I) |-> s[CHOOSE i \in I : Rank(i, I) = k]]
=============================================================================
