--------------------------- MODULE MCInlineCache ---------------------------
(* Objects are interchangeable: a run may identify states that differ only *)
(* by a renaming of them.                                                  *)
EXTENDS InlineCache

Symmetry == Permutations(Objs)

-----------------------------------------------------------------------------
(* What a comment in propcache.go says and TLC refutes.                     *)

(* The layout a store site hands to the next object differs from the one    *)
(* that object had by the stored property and nothing else: the fill        *)
(* "records the layout change a store made when it created the property"    *)
(* (propcache.go:363, icFillPutTransition).  A setter that redefines Name   *)
(* on its receiver beside another name has both recorded.                   *)
TransitionAddsTheName ==
  \A i \in DOMAIN ways :
    LET w == ways[i]
    IN  w.to # none => PropsOf(w.to) = addKey(PropsOf(w.shape), Name, Default)
=============================================================================
