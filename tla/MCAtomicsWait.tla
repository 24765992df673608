--------------------------- MODULE MCAtomicsWait ----------------------------
(* AtomicsWait for TLC.  The started agents are interchangeable: they all     *)
(* begin unborn and only the root is named.  The symmetry is for checking     *)
(* without liveness.                                                          *)
EXTENDS AtomicsWait, TLC

Children == Permutations(Agents \ {Root})

Started == Agents \ {Root}

(* Everybody stores and notifies; nothing runs between comparison and list.  *)
Plain == [writes |-> Agents, waitsAsync |-> Started, timed |-> {}, coerces |-> {},
          repeats |-> Started, timeouts |-> 1..Forever]

(* Started agents have timers, may exit, and have code in their timeouts.    *)
Busied == [writes |-> {Root}, waitsAsync |-> Started, timed |-> Started, coerces |-> Started,
           repeats |-> {}, timeouts |-> 1..Forever]

TwoPrograms == {Plain, Busied}

(* For the claims below: everybody, the root too, waits asynchronously and   *)
(* more than once.                                                           *)
Asynchronous == {[writes |-> Agents, waitsAsync |-> Agents, timed |-> {}, coerces |-> {},
                  repeats |-> Agents, timeouts |-> 1..Forever]}

-----------------------------------------------------------------------------
(* What comments say and TLC refutes; no run checks these.                   *)

(* Only a match ever parks (atomicsWaitPlan, builtin_atomics_ops.go:184): an *)
(* entry is made on the list while the cell holds the value its wait was     *)
(* called with.  The code compares before it coerces the timeout, whose      *)
(* valueOf may store to the cell.                                            *)
OnlyAMatchParks ==
  [][\A w \in ToSet(waiters') \ ToSet(waiters) : mem[plan[w].loc] = plan[w].want]_vars

(* The loop blocks on a promise without a deadline only if it was woken or   *)
(* some other agent is alive to wake it (serviceAsyncWaits, settleable).     *)
BlocksOnlyIfWakeable ==
  [][\A a \in Agents :
       /\ At(a, "pick") /\ At(a, "service")'
       /\ deadline[Current(a)'] = Forever /\ Current(a)' \notin woken
       => \E b \in Agents \ {a} : ~At(b, "unborn") /\ ~At(b, "dead")]_vars

(* A woken waiter beats any deadline (serviceAsyncWaits): the loop does not  *)
(* start to wait for a timeout while it has a promise that was notified.     *)
WokenBeatsDeadline ==
  [][\A a \in Agents :
       At(a, "pick") /\ At(a, "service")' /\ now < deadline[Current(a)'] /\ Current(a)' \notin woken
       => woken \cap ToSet(asyncWaits[a]) = {}]_vars

(* A promise is the one thing a queue can be empty and still not be finished *)
(* (serviceAsyncWaits): the loop settles one that has been notified.         *)
(* Refuted with two cells: the loop is blocked on the other's channel.       *)
NotifiedSettles ==
  \A w \in Waiters :
    (w \in ToSet(asyncWaits[w[1]]) /\ At(w[1], "service") /\ w \in woken)
    ~> (result[w] # "none" \/ At(Root, "idle"))
=============================================================================
