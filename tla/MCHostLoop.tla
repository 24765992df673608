----------------------------- MODULE MCHostLoop -----------------------------
(* HostLoop for TLC.  Operations differ only in the kind they are started    *)
(* with.  Used by the runs that check no liveness.                           *)
EXTENDS HostLoop

Operations == Permutations(Ops)

-----------------------------------------------------------------------------
(* What comments in host.go and hostloop.go say and TLC refutes; no run      *)
(* checks these.                                                             *)

(* A cancelled ctx stops the loop between jobs (RunLoop). *)
CancelStopsLoop == (ctxDone /\ pc # "host") ~> pc = "host"

(* AwaitContext drives the loop until the promise settles. *)
AwaitReturns == \A o \in Ops : (kind[o] = "promise" /\ got[o] # "pending") ~> pc = "host"

(* resolve reports an error for a value it cannot convert (NewPromise). *)
ConversionReported == \A o \in Ops : winner[o] = <<"resolve", "bad">> => answer[o] # "nil"

(* A cleared timer is forgotten when the loop ends (dropCancelledTimers). *)
ClearedForgotten == [][call # "none" /\ pc' = "host" /\ ~exit /\ ~flag /\ ~ctxDone
                       => \A t \in ToSet(timers) : Live(t)]_vars
=============================================================================
