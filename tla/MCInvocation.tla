---------------------------- MODULE MCInvocation ----------------------------
EXTENDS Invocation

(* A bound of the run: once something still referred to has been freed, the  *)
(* behaviour is followed no further.                                         *)
NothingLost == lost = {}
=============================================================================
