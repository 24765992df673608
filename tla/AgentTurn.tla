----------------------------- MODULE AgentTurn ------------------------------
(***************************************************************************)
(* The turn of an agent cluster (internal/engine/agent.go) and the         *)
(* interrupt flag it borrows (internal/engine/interrupt.go).               *)
(*                                                                         *)
(* Every agent is a goroutine with a Runtime of its own.  An agent may     *)
(* execute JavaScript only while it has the turn; what another agent sees  *)
(* of a hand-over are the cluster fields below, some guarded by mu and     *)
(* some read without it, so every access that another goroutine can fall   *)
(* between is a step of its own:                                           *)
(*                                                                         *)
(*   join       "join" -> "joinLoad" -> "joinAsk" -> "wait"                *)
(*   claim      "claim" -> "claimLook" -> "run"                            *)
(*   yieldTurn  "run" -> "yield" -> "yieldLook" -> give, then join         *)
(*   giveTurn   "give" -> "giveLock" -> "giveClose" -> after[a]            *)
(*                                                                         *)
(* What an agent does while it is paused (a sleep, a wait, a receive) is   *)
(* the business of AtomicsWait; here it is simply "off".                   *)
(***************************************************************************)
EXTENDS Naturals, Sequences, SequencesExt, FiniteSets

CONSTANTS Agents,          \* goroutines that may belong to the cluster
          Root,            \* the agent that created the cluster
          Nobody           \* a nil *Runtime

ASSUME RootAssumption == Root \in Agents
ASSUME NobodyAssumption == Nobody \notin Agents

VARIABLES
  held,      \* agentCluster.held
  queue,     \* agentCluster.queue: each ticket is named by the agent that made it
  queued,    \* agentCluster.queued, the copy of len(queue) read without the lock
  holder,    \* agentCluster.holder
  mu,        \* who has agentCluster.mu across a step boundary
  granted,   \* agents whose ticket channel has been closed and not yet received
  flag,      \* interruptState.flag of each agent's Runtime
  pc,        \* where each goroutine is
  target,    \* the local h of join: whom this agent will ask to yield
  next,      \* the local next of giveTurn: whose ticket it will close
  after,     \* what the goroutine does once giveTurn returns
  meddled    \* history: the host has called Interrupt or ClearInterrupt

vars == <<held, queue, queued, holder, mu, granted, flag, pc, target, next, after, meddled>>

PCs == {"unborn", "join", "joinLoad", "joinAsk", "wait", "claim", "claimLook",
        "run", "idle", "yield", "yieldLook", "give", "giveLock", "giveClose",
        "off", "dead"}
Flags == {"none", "host", "yield"}

TypeOK ==
  /\ held \in BOOLEAN
  /\ queue \in Seq(Agents)
  /\ queued \in Nat
  /\ holder \in Agents \cup {Nobody}
  /\ mu \in Agents \cup {Nobody}
  /\ granted \subseteq Agents
  /\ flag \in [Agents -> Flags]
  /\ pc \in [Agents -> PCs]
  /\ target \in [Agents -> Agents \cup {Nobody}]
  /\ next \in [Agents -> Agents \cup {Nobody}]
  /\ after \in [Agents -> {"join", "off", "dead"}]
  /\ meddled \in BOOLEAN

(* ensureCluster: the Runtime that creates the cluster is running in it. *)
Init ==
  /\ held = TRUE
  /\ queue = <<>>
  /\ queued = 0
  /\ holder = Root
  /\ mu = Nobody
  /\ granted = {}
  /\ flag = [a \in Agents |-> "none"]
  /\ pc = [a \in Agents |-> IF a = Root THEN "run" ELSE "unborn"]
  /\ target = [a \in Agents |-> Nobody]
  /\ next = [a \in Agents |-> Nobody]
  /\ after = [a \in Agents |-> "off"]
  /\ meddled = FALSE

Goto(a, l) == pc' = [pc EXCEPT ![a] = l]

(* requestYield: raise the flag, but only from zero. *)
Raised(f, a) == IF f[a] = "none" THEN [f EXCEPT ![a] = "yield"] ELSE f

-----------------------------------------------------------------------------
(* Mutant: a mutex instead of a hand-over.  The turn may be taken while it   *)
(* travels from one agent to the next.                                        *)
JoinFreeBarging(a) ==
  /\ pc[a] = "join" /\ mu = Nobody
  /\ holder = Nobody
  /\ held' = TRUE
  /\ Goto(a, "claim")
  /\ UNCHANGED <<queue, queued, holder, mu, granted, flag, target, next, after, meddled>>

(* join: the free turn is taken at once. *)
JoinFree(a) ==
  /\ pc[a] = "join" /\ mu = Nobody
  /\ ~held
  /\ held' = TRUE
  /\ Goto(a, "claim")
  /\ UNCHANGED <<queue, queued, holder, mu, granted, flag, target, next, after, meddled>>

(* join, otherwise: append a ticket and publish the new length ...           *)
JoinQueue(a) ==
  /\ pc[a] = "join" /\ mu = Nobody
  /\ held
  /\ queue' = Append(queue, a)
  /\ queued' = Len(queue')
  /\ mu' = a
  /\ Goto(a, "joinLoad")
  /\ UNCHANGED <<held, holder, granted, flag, target, next, after, meddled>>

(* ... read the holder, still under the lock ...                             *)
JoinLoad(a) ==
  /\ pc[a] = "joinLoad"
  /\ target' = [target EXCEPT ![a] = holder]
  /\ mu' = Nobody
  /\ Goto(a, "joinAsk")
  /\ UNCHANGED <<held, queue, queued, holder, granted, flag, next, after, meddled>>

(* Mutant: the ticket is queued and nobody is asked. *)
JoinAskNobody(a) ==
  /\ pc[a] = "joinAsk"
  /\ flag' = flag
  /\ target' = [target EXCEPT ![a] = Nobody]
  /\ Goto(a, "wait")
  /\ UNCHANGED <<held, queue, queued, holder, mu, granted, next, after, meddled>>

(* ... and ask that agent, if there is one, to hand over.                    *)
JoinAsk(a) ==
  /\ pc[a] = "joinAsk"
  /\ flag' = IF target[a] = Nobody THEN flag ELSE Raised(flag, target[a])
  /\ target' = [target EXCEPT ![a] = Nobody]
  /\ Goto(a, "wait")
  /\ UNCHANGED <<held, queue, queued, holder, mu, granted, next, after, meddled>>

(* takeTurn and enter: the ticket was closed, the turn is this agent's.      *)
Receive(a) ==
  /\ pc[a] = "wait" /\ a \in granted
  /\ granted' = granted \ {a}
  /\ Goto(a, "claim")
  /\ UNCHANGED <<held, queue, queued, holder, mu, flag, target, next, after, meddled>>

-----------------------------------------------------------------------------
(* claim: say who is running, then look whether somebody already waits.      *)
ClaimStore(a) ==
  /\ pc[a] = "claim"
  /\ holder' = a
  /\ Goto(a, "claimLook")
  /\ UNCHANGED <<held, queue, queued, mu, granted, flag, target, next, after, meddled>>

(* Mutant: claim without its second half. *)
ClaimLookNot(a) ==
  /\ pc[a] = "claimLook"
  /\ flag' = flag
  /\ Goto(a, "run")
  /\ UNCHANGED <<held, queue, queued, holder, mu, granted, target, next, after, meddled>>

ClaimLook(a) ==
  /\ pc[a] = "claimLook"
  /\ flag' = IF queued > 0 THEN Raised(flag, a) ELSE flag
  /\ Goto(a, "run")
  /\ UNCHANGED <<held, queue, queued, holder, mu, granted, target, next, after, meddled>>

-----------------------------------------------------------------------------
(* A safepoint that finds the flag raised: interruptStops sends a turn       *)
(* hand-over to yieldTurn and stops the script for anything else.  Only the  *)
(* root has a host that can interrupt it; it returns there keeping the turn. *)
SafepointYield(a) ==
  /\ pc[a] = "run" /\ flag[a] = "yield"
  /\ Goto(a, "yield")
  /\ UNCHANGED <<held, queue, queued, holder, mu, granted, flag, target, next, after, meddled>>

SafepointStop ==
  /\ pc[Root] = "run" /\ flag[Root] = "host"
  /\ Goto(Root, "idle")
  /\ UNCHANGED <<held, queue, queued, holder, mu, granted, flag, target, next, after, meddled>>

(* yieldTurn: clear the request (unless a real interrupt replaced it) ...    *)
YieldClear(a) ==
  /\ pc[a] = "yield"
  /\ flag' = [flag EXCEPT ![a] = IF @ = "yield" THEN "none" ELSE @]
  /\ Goto(a, "yieldLook")
  /\ UNCHANGED <<held, queue, queued, holder, mu, granted, target, next, after, meddled>>

(* ... and hand over only if somebody is still waiting.                      *)
YieldLook(a) ==
  /\ pc[a] = "yieldLook"
  /\ IF queued = 0
     THEN Goto(a, "run") /\ UNCHANGED after
     ELSE Goto(a, "give") /\ after' = [after EXCEPT ![a] = "join"]
  /\ UNCHANGED <<held, queue, queued, holder, mu, granted, flag, target, next, meddled>>

-----------------------------------------------------------------------------
(* giveTurn: this agent is no longer the holder ...                          *)
GiveRelease(a) ==
  /\ pc[a] = "give"
  /\ holder' = IF holder = a THEN Nobody ELSE holder
  /\ Goto(a, "giveLock")
  /\ UNCHANGED <<held, queue, queued, mu, granted, flag, target, next, after, meddled>>

(* Mutant: the youngest ticket is served first. *)
GiveNextYoungest(a) ==
  /\ pc[a] = "giveLock" /\ mu = Nobody
  /\ queue # <<>>
  /\ next' = [next EXCEPT ![a] = Last(queue)]
  /\ queue' = Front(queue)
  /\ queued' = Len(queue')
  /\ Goto(a, "giveClose")
  /\ UNCHANGED <<held, holder, mu, granted, flag, target, after, meddled>>

(* Mutant: the whole queue is taken for one ticket. *)
GiveNextDropsQueue(a) ==
  /\ pc[a] = "giveLock" /\ mu = Nobody
  /\ queue # <<>>
  /\ next' = [next EXCEPT ![a] = Head(queue)]
  /\ queue' = <<>>
  /\ queued' = 0
  /\ Goto(a, "giveClose")
  /\ UNCHANGED <<held, holder, mu, granted, flag, target, after, meddled>>

(* ... the head of the queue is taken off it, held staying true ...          *)
GiveNext(a) ==
  /\ pc[a] = "giveLock" /\ mu = Nobody
  /\ queue # <<>>
  /\ next' = [next EXCEPT ![a] = Head(queue)]
  /\ queue' = Tail(queue)
  /\ queued' = Len(queue')
  /\ Goto(a, "giveClose")
  /\ UNCHANGED <<held, holder, mu, granted, flag, target, after, meddled>>

(* ... or the turn becomes free ...                                          *)
GiveFree(a) ==
  /\ pc[a] = "giveLock" /\ mu = Nobody
  /\ queue = <<>>
  /\ held' = FALSE
  /\ Goto(a, after[a])
  /\ after' = [after EXCEPT ![a] = "off"]
  /\ UNCHANGED <<queue, queued, holder, mu, granted, flag, target, next, meddled>>

(* ... and, the lock released, the successor's ticket is closed.             *)
GiveClose(a) ==
  /\ pc[a] = "giveClose"
  /\ granted' = granted \cup {next[a]}
  /\ next' = [next EXCEPT ![a] = Nobody]
  /\ Goto(a, after[a])
  /\ after' = [after EXCEPT ![a] = "off"]
  /\ UNCHANGED <<held, queue, queued, holder, mu, flag, target, meddled>>

-----------------------------------------------------------------------------
(* pause: give the turn up around anything that blocks without running       *)
(* JavaScript, and take it again when that has ended.                        *)
Pause(a) ==
  /\ pc[a] = "run"
  /\ after' = [after EXCEPT ![a] = "off"]
  /\ Goto(a, "give")
  /\ UNCHANGED <<held, queue, queued, holder, mu, granted, flag, target, next, meddled>>

Resume(a) ==
  /\ pc[a] = "off"
  /\ Goto(a, "join")
  /\ UNCHANGED <<held, queue, queued, holder, mu, granted, flag, target, next, after, meddled>>

(* agentStart: only the root has the method; the goroutine enters the line. *)
Start(c) ==
  /\ pc[Root] = "run" /\ pc[c] = "unborn"
  /\ Goto(c, "join")
  /\ UNCHANGED <<held, queue, queued, holder, mu, granted, flag, target, next, after, meddled>>

(* A started agent whose script and jobs are done: the deferred giveTurn.    *)
Finish(c) ==
  /\ pc[c] = "run" /\ c # Root
  /\ after' = [after EXCEPT ![c] = "dead"]
  /\ Goto(c, "give")
  /\ UNCHANGED <<held, queue, queued, holder, mu, granted, flag, target, next, meddled>>

(* The root's script returns to the host, which may run another.             *)
Return ==
  /\ pc[Root] = "run"
  /\ Goto(Root, "idle")
  /\ UNCHANGED <<held, queue, queued, holder, mu, granted, flag, target, next, after, meddled>>

RunScript ==
  /\ pc[Root] = "idle"
  /\ Goto(Root, "run")
  /\ UNCHANGED <<held, queue, queued, holder, mu, granted, flag, target, next, after, meddled>>

(* Interrupt: from any goroutine, at any time. *)
Interrupt ==
  /\ meddled' = TRUE
  /\ flag' = [flag EXCEPT ![Root] = "host"]
  /\ UNCHANGED <<held, queue, queued, holder, mu, granted, pc, target, next, after>>

(* ClearInterrupt: once the interrupted script has returned.  It stores none  *)
(* whatever is there, a request for the turn included.                        *)
ClearInterrupt ==
  /\ meddled' = TRUE
  /\ pc[Root] = "idle"
  /\ flag' = [flag EXCEPT ![Root] = "none"]
  /\ UNCHANGED <<held, queue, queued, holder, mu, granted, pc, target, next, after>>

-----------------------------------------------------------------------------
(* The steps a goroutine takes on its own: it never stops between two of     *)
(* them, and a running script reaches a safepoint (every function entry and  *)
(* every 1024th back edge).                                                  *)
Turn(a) ==
  \/ JoinFree(a) \/ JoinQueue(a) \/ JoinLoad(a) \/ JoinAsk(a) \/ Receive(a)
  \/ ClaimStore(a) \/ ClaimLook(a)
  \/ SafepointYield(a) \/ (a = Root /\ SafepointStop) \/ YieldClear(a) \/ YieldLook(a)
  \/ GiveRelease(a) \/ GiveNext(a) \/ GiveFree(a) \/ GiveClose(a)

Next ==
  \/ \E a \in Agents : Turn(a) \/ Pause(a) \/ Resume(a) \/ Start(a) \/ Finish(a)
  \/ Return \/ RunScript \/ Interrupt \/ ClearInterrupt

Spec == Init /\ [][Next]_vars

FairSpec == Spec /\ \A a \in Agents : WF_vars(Turn(a))

-----------------------------------------------------------------------------
(* The places at which a goroutine has the turn, and the states in which it  *)
(* is on its way: taken off the queue, not yet received.                     *)
HasTurn(a) == pc[a] \in {"claim", "claimLook", "run", "idle", "yield",
                         "yieldLook", "give", "giveLock"}
Queued(a) == pc[a] \in {"joinLoad", "joinAsk", "wait"}
Handing(a) == pc[a] = "giveClose"
Owner(a) == HasTurn(a) \/ a \in granted \/ \E b \in Agents : Handing(b) /\ next[b] = a

(* No two agents of a cluster ever execute at once: at any time at most one   *)
(* of them has the turn or is about to receive it (agent.go, "One at a time").*)
OneAtATime == \A a, b \in Agents : Owner(a) /\ Owner(b) => a = b

(* No agent is lost on the way: one that waits for its ticket is still in the *)
(* queue, or its ticket is being closed or has been (giveTurn drops nobody).  *)
NobodyForgotten ==
  \A a \in Agents : Queued(a) <=> a \in ToSet(queue) \/ (Owner(a) /\ ~HasTurn(a))

(* Whoever runs while others wait has been told: a raised flag makes its next *)
(* safepoint hand over.  This is what claim's look at the queue is for; an    *)
(* agent that is still on its way to ask (joinLoad, joinAsk) is not counted.  *)
(* Once the host clears an interrupt a request can be lost with it.           *)
HolderKnowsOfQueue ==
  ~meddled => \A h \in Agents :
    (/\ pc[h] = "run"
     /\ \E a \in ToSet(queue) : pc[a] = "wait") => flag[h] # "none"

(* The turn is the one TurnSpec describes: granted in the order it was asked  *)
(* for, and never free for somebody to barge in while it changes hands.       *)
Abstract == INSTANCE TurnSpec WITH
  turn <- IF \E a \in Agents : Owner(a)
          THEN CHOOSE a \in Agents : Owner(a) ELSE Nobody,
  line <- queue
ImplementsTurnSpec == Abstract!TurnSafe

(* An agent that has asked for the turn gets it, however long the others      *)
(* spin, unless the root has gone back to its host, which keeps the turn, or  *)
(* the host has taken the flag for itself.                                    *)
EveryoneGetsATurn ==
  \A a \in Agents : Queued(a) ~> (HasTurn(a) \/ pc[Root] = "idle" \/ meddled)
=============================================================================
