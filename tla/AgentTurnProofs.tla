-------------------------- MODULE AgentTurnProofs ---------------------------
(***************************************************************************)
(* Proofs about AgentTurn, for any number of agents.                       *)
(*                                                                         *)
(* OneAtATime is not inductive: that the turn has one owner depends on the *)
(* queue holding each waiting agent once, and on nobody who was taken off  *)
(* it being able to move before its ticket is closed.  IInv adds exactly   *)
(* that, and HolderInv and KnowInv what HolderKnowsOfQueue needs.          *)
(***************************************************************************)
EXTENDS AgentTurn, TLAPS

NoDup(s) == \A i, j \in 1..Len(s) : s[i] = s[j] => i = j

(* One goroutine at a time carries the turn: it has it, its ticket was       *)
(* closed, or it is between taking a ticket off the queue and closing it.    *)
Carries(a) == HasTurn(a) \/ a \in granted \/ Handing(a)

TurnInv ==
  /\ \A a, b \in Agents : Carries(a) /\ Carries(b) => a = b
  /\ held <=> \E a \in Agents : Carries(a)
  /\ \A a \in granted : Queued(a)
  /\ \A b \in Agents :
       Handing(b) => /\ next[b] \in Agents
                     /\ Queued(next[b])
                     /\ next[b] \notin ToSet(queue)

QueueInv ==
  /\ NoDup(queue)
  /\ queued = Len(queue)
  /\ \A a \in ToSet(queue) : Queued(a) /\ a \notin granted
  /\ \A a \in Agents :
       Queued(a) => \/ a \in ToSet(queue)
                    \/ a \in granted
                    \/ \E b \in Agents : Handing(b) /\ next[b] = a

IInv == TypeOK /\ TurnInv /\ QueueInv

(* The holder field names the agent that runs, from claim until giveTurn.    *)
HolderInv ==
  \A h \in Agents : pc[h] \in {"claimLook", "run", "idle", "yield", "yieldLook", "give"}
                    => holder = h

(* Whoever has looked at the queue knows of the agents in it that have       *)
(* asked, and the agents that have not asked yet will ask the right one.     *)
KnowInv ==
  \A h \in Agents : pc[h] \in {"run", "idle"} =>
    \A a \in ToSet(queue) :
      /\ pc[a] = "wait" => flag[h] # "none"
      /\ pc[a] = "joinAsk" => target[a] = h \/ flag[h] # "none"

-----------------------------------------------------------------------------
(* Membership in the set of a sequence's elements, by position. *)
LEMMA InToSet ==
  ASSUME NEW S, NEW s \in Seq(S), NEW x
  PROVE  x \in ToSet(s) <=> \E i \in 1..Len(s) : s[i] = x
<1>1. DOMAIN s = 1..Len(s)
  OBVIOUS
<1> QED BY <1>1, Zenon DEF ToSet

(* Nobody is in an empty queue. *)
LEMMA EmptyToSet ==
  ASSUME NEW S, NEW s \in Seq(S), Len(s) = 0
  PROVE  ToSet(s) = {}
<1>1. DOMAIN s = {}
  OBVIOUS
<1> QED BY <1>1 DEF ToSet

(* What appending a new ticket does to the set of waiting agents. *)
LEMMA AppendTicket ==
  ASSUME NEW S, NEW s \in Seq(S), NEW e \in S
  PROVE  /\ Append(s, e) \in Seq(S)
         /\ ToSet(Append(s, e)) = ToSet(s) \cup {e}
         /\ NoDup(s) /\ e \notin ToSet(s) => NoDup(Append(s, e))
<1> DEFINE t == Append(s, e)
<1>1. /\ t \in Seq(S) /\ Len(t) = Len(s) + 1 /\ Len(s) \in Nat
      /\ \A i \in 1..Len(s) : t[i] = s[i]
      /\ t[Len(s) + 1] = e
  OBVIOUS
<1> HIDE DEF t
<1>2. \A x : x \in ToSet(t) <=> \E i \in 1..Len(t) : t[i] = x
  BY <1>1, InToSet
<1>3. \A x : x \in ToSet(s) <=> \E i \in 1..Len(s) : s[i] = x
  BY InToSet
<1>4. ToSet(t) = ToSet(s) \cup {e}
  BY <1>1, <1>2, <1>3
<1>5. NoDup(s) /\ e \notin ToSet(s) => NoDup(t)
  BY <1>1, <1>3 DEF NoDup
<1> QED BY <1>1, <1>4, <1>5 DEF t

(* What taking the oldest ticket does to the set of waiting agents. *)
LEMMA TakeTicket ==
  ASSUME NEW S, NEW s \in Seq(S), s # <<>>, NoDup(s)
  PROVE  /\ Tail(s) \in Seq(S)
         /\ Head(s) \in S
         /\ Head(s) \in ToSet(s)
         /\ ToSet(Tail(s)) = ToSet(s) \ {Head(s)}
         /\ NoDup(Tail(s))
<1> DEFINE t == Tail(s)
           h == Head(s)
<1>1. /\ t \in Seq(S) /\ h = s[1] /\ Len(t) = Len(s) - 1
      /\ \A i \in 1..Len(t) : t[i] = s[i + 1]
      /\ Len(s) \in Nat /\ Len(s) > 0
  OBVIOUS
<1> HIDE DEF t, h
<1>2. \A x : x \in ToSet(t) <=> \E i \in 1..Len(t) : t[i] = x
  BY <1>1, InToSet
<1>3. \A x : x \in ToSet(s) <=> \E i \in 1..Len(s) : s[i] = x
  BY InToSet
<1>4. h \in S /\ h \in ToSet(s)
  BY <1>1, <1>3
<1>5. NoDup(t)
  BY <1>1 DEF NoDup
<1>6. ASSUME NEW x \in ToSet(t) PROVE x \in ToSet(s) \ {h}
  BY <1>1, <1>2, <1>3 DEF NoDup
<1>7. ASSUME NEW x \in ToSet(s) \ {h} PROVE x \in ToSet(t)
  <2>1. PICK i \in 1..Len(s) : s[i] = x
    BY <1>3
  <2>2. i # 1 /\ i - 1 \in 1..Len(t) /\ t[i - 1] = s[i]
    BY <2>1, <1>1
  <2> QED BY <2>1, <2>2, <1>2
<1> QED BY <1>1, <1>4, <1>5, <1>6, <1>7 DEF t, h

-----------------------------------------------------------------------------
(* A step from a state of IInv keeps every variable in its type.             *)
LEMMA TypeStep == IInv /\ [Next]_vars => TypeOK'
<1> USE RootAssumption, NobodyAssumption
<1> SUFFICES ASSUME IInv, [Next]_vars PROVE TypeOK'
  OBVIOUS
<1> USE DEF IInv, TypeOK, PCs, Flags, Goto
<1>1. ASSUME NEW a \in Agents, Turn(a) PROVE TypeOK'
  <2>1. CASE JoinFree(a) BY <2>1 DEF JoinFree
  <2>2. CASE JoinQueue(a) BY <2>2 DEF JoinQueue
  <2>3. CASE JoinLoad(a) BY <2>3 DEF JoinLoad
  <2>4. CASE JoinAsk(a) BY <2>4 DEF JoinAsk, Raised
  <2>5. CASE Receive(a) BY <2>5 DEF Receive
  <2>6. CASE ClaimStore(a) BY <2>6 DEF ClaimStore
  <2>7. CASE ClaimLook(a) BY <2>7 DEF ClaimLook, Raised
  <2>8. CASE SafepointYield(a) BY <2>8 DEF SafepointYield
  <2>9. CASE a = Root /\ SafepointStop BY <2>9 DEF SafepointStop
  <2>10. CASE YieldClear(a) BY <2>10 DEF YieldClear
  <2>11. CASE YieldLook(a) BY <2>11 DEF YieldLook
  <2>12. CASE GiveRelease(a) BY <2>12 DEF GiveRelease
  <2>13. CASE GiveNext(a) BY <2>13 DEF GiveNext
  <2>14. CASE GiveFree(a) BY <2>14 DEF GiveFree
  <2>15. CASE GiveClose(a)
    <3>1. next[a] \in Agents
      BY <2>15 DEF GiveClose, TurnInv, Handing
    <3> QED BY <2>15, <3>1 DEF GiveClose
  <2> QED BY <1>1, <2>1, <2>2, <2>3, <2>4, <2>5, <2>6, <2>7, <2>8, <2>9, <2>10,
             <2>11, <2>12, <2>13, <2>14, <2>15 DEF Turn
<1>2. ASSUME NEW a \in Agents, Pause(a) \/ Resume(a) \/ Start(a) \/ Finish(a)
      PROVE TypeOK'
  BY <1>2 DEF Pause, Resume, Start, Finish
<1>3. CASE Return \/ RunScript \/ Interrupt \/ ClearInterrupt
  BY <1>3 DEF Return, RunScript, Interrupt, ClearInterrupt
<1>4. CASE UNCHANGED vars BY <1>4 DEF vars
<1> QED BY <1>1, <1>2, <1>3, <1>4 DEF Next

(* A step that moves one goroutine between two places at which it has the    *)
(* turn, or between two at which it is out of the game, or along join, and   *)
(* leaves the queue, the tickets and held alone, disturbs nothing.           *)
LEMMA QuietMove ==
  ASSUME IInv, NEW a \in Agents, NEW l \in PCs, Goto(a, l),
         UNCHANGED <<held, queue, queued, granted, next>>,
         \/ /\ pc[a] \in {"claim", "claimLook", "run", "idle", "yield", "yieldLook", "give"}
            /\ l \in {"claimLook", "run", "idle", "yield", "yieldLook", "give", "giveLock"}
         \/ pc[a] \in {"joinLoad", "joinAsk"} /\ l \in {"joinAsk", "wait"}
         \/ pc[a] \in {"unborn", "off"} /\ l = "join"
  PROVE  TurnInv' /\ QueueInv'
<1> USE DEF IInv, TypeOK, PCs, Goto
<1>1. \A b \in Agents : /\ HasTurn(b)' <=> HasTurn(b)
                        /\ Queued(b)' <=> Queued(b)
                        /\ Handing(b)' <=> Handing(b)
                        /\ Carries(b)' <=> Carries(b)
  BY DEF HasTurn, Queued, Handing, Carries
<1>2. ToSet(queue) \subseteq Agents
  BY InToSet
<1>3. TurnInv'
  BY <1>1 DEF TurnInv
<1>4. QueueInv'
  BY <1>1, <1>2 DEF QueueInv
<1> QED BY <1>3, <1>4

(* Every step of the turn protocol keeps the turn with one carrier and the   *)
(* queue in order (join, takeTurn, claim, yieldTurn, giveTurn, pause).       *)
LEMMA InvStep == IInv /\ [Next]_vars => TurnInv' /\ QueueInv'
<1> USE RootAssumption, NobodyAssumption
<1> SUFFICES ASSUME IInv, [Next]_vars PROVE TurnInv' /\ QueueInv'
  OBVIOUS
<1> USE DEF IInv, PCs, Goto
<1>0. ToSet(queue) \subseteq Agents
  BY InToSet DEF TypeOK
<1>1. ASSUME NEW a \in Agents, JoinFree(a) PROVE TurnInv' /\ QueueInv'
  <2>1. \A b \in Agents : /\ Queued(b)' <=> Queued(b)
                          /\ Handing(b)' <=> Handing(b)
                          /\ Carries(b)' <=> b = a
    BY <1>1 DEF JoinFree, TypeOK, HasTurn, Queued, Handing, Carries, TurnInv
  <2>2. TurnInv'
    BY <1>1, <2>1 DEF JoinFree, TurnInv, TypeOK
  <2>3. QueueInv'
    BY <1>0, <1>1, <2>1 DEF JoinFree, QueueInv
  <2> QED BY <2>2, <2>3
<1>2. ASSUME NEW a \in Agents, JoinQueue(a) PROVE TurnInv' /\ QueueInv'
  <2>1. \A b \in Agents : /\ Queued(b)' <=> Queued(b) \/ b = a
                          /\ Handing(b)' <=> Handing(b)
                          /\ Carries(b)' <=> Carries(b)
    BY <1>2 DEF JoinQueue, TypeOK, HasTurn, Queued, Handing, Carries
  <2>2. ~Queued(a) /\ a \notin granted /\ a \notin ToSet(queue)
    BY <1>2 DEF JoinQueue, Queued, TurnInv, QueueInv
  <2>3. /\ ToSet(queue') = ToSet(queue) \cup {a}
        /\ NoDup(queue')
    BY <1>2, <2>2, AppendTicket DEF JoinQueue, QueueInv, TypeOK
  <2>4. TurnInv'
    BY <1>2, <2>1, <2>2, <2>3 DEF JoinQueue, TurnInv, TypeOK
  <2>5. QueueInv'
    BY <1>0, <1>2, <2>1, <2>2, <2>3 DEF JoinQueue, QueueInv
  <2> QED BY <2>4, <2>5
<1>3. ASSUME NEW a \in Agents, Receive(a) PROVE TurnInv' /\ QueueInv'
  <2>1. \A b \in Agents : /\ Queued(b)' <=> Queued(b) /\ b # a
                          /\ Handing(b)' <=> Handing(b)
                          /\ Carries(b)' <=> Carries(b)
    BY <1>3 DEF Receive, TypeOK, HasTurn, Queued, Handing, Carries
  <2>2. a \notin ToSet(queue) /\ \A b \in Agents : ~Handing(b)
    BY <1>3 DEF Receive, QueueInv, TurnInv, Carries, Handing
  <2>3. TurnInv'
    BY <1>3, <2>1, <2>2 DEF Receive, TurnInv, TypeOK
  <2>4. QueueInv'
    BY <1>0, <1>3, <2>1, <2>2 DEF Receive, QueueInv
  <2> QED BY <2>3, <2>4
<1>4. ASSUME NEW a \in Agents, GiveNext(a) PROVE TurnInv' /\ QueueInv'
  <2>1. \A b \in Agents : /\ Queued(b)' <=> Queued(b)
                          /\ Handing(b)' <=> b = a
                          /\ Carries(b)' <=> b = a
    BY <1>4 DEF GiveNext, TypeOK, HasTurn, Queued, Handing, Carries, TurnInv
  <2>2. /\ Head(queue) \in Agents /\ Head(queue) \in ToSet(queue)
        /\ ToSet(queue') = ToSet(queue) \ {Head(queue)}
        /\ NoDup(queue')
    BY <1>4, TakeTicket DEF GiveNext, QueueInv, TypeOK
  <2>3. next'[a] = Head(queue) /\ granted = {} /\ \A b \in Agents : ~Handing(b)
    BY <1>4 DEF GiveNext, TypeOK, TurnInv, Carries, HasTurn, Handing, Queued
  <2>4. held
    BY <1>4 DEF GiveNext, TurnInv, Carries, HasTurn
  <2>5. TurnInv'
    BY <1>4, <2>1, <2>2, <2>3, <2>4 DEF GiveNext, TurnInv, QueueInv
  <2>6. QueueInv'
    BY <1>0, <1>4, <2>1, <2>2, <2>3 DEF GiveNext, QueueInv
  <2> QED BY <2>5, <2>6
<1>5. ASSUME NEW a \in Agents, GiveFree(a) PROVE TurnInv' /\ QueueInv'
  <2>1. \A b \in Agents : /\ Queued(b)' <=> Queued(b)
                          /\ ~Handing(b)' /\ ~Handing(b)
                          /\ ~Carries(b)'
    BY <1>5 DEF GiveFree, TypeOK, HasTurn, Queued, Handing, Carries, TurnInv
  <2>2. TurnInv'
    BY <1>5, <2>1 DEF GiveFree, TurnInv, TypeOK
  <2>3. QueueInv'
    BY <1>0, <1>5, <2>1 DEF GiveFree, QueueInv
  <2> QED BY <2>2, <2>3
<1>6. ASSUME NEW a \in Agents, GiveClose(a) PROVE TurnInv' /\ QueueInv'
  <2>1. /\ next[a] \in Agents /\ Queued(next[a]) /\ next[a] \notin ToSet(queue)
        /\ granted = {} /\ held
        /\ \A b \in Agents : (Handing(b) <=> b = a) /\ ~HasTurn(b)
    BY <1>6 DEF GiveClose, TypeOK, TurnInv, Carries, Handing, HasTurn, Queued
  <2>2. \A b \in Agents : /\ Queued(b)' <=> Queued(b)
                          /\ ~Handing(b)' /\ ~HasTurn(b)'
                          /\ Carries(b)' <=> b = next[a]
    BY <1>6, <2>1 DEF GiveClose, TypeOK, HasTurn, Queued, Handing, Carries
  <2>3. TurnInv'
    BY <1>6, <2>1, <2>2 DEF GiveClose, TurnInv
  <2>4. QueueInv'
    BY <1>0, <1>6, <2>1, <2>2 DEF GiveClose, QueueInv
  <2> QED BY <2>3, <2>4
<1>7. ASSUME NEW a \in Agents,
             \/ JoinLoad(a) \/ JoinAsk(a) \/ ClaimStore(a) \/ ClaimLook(a)
             \/ SafepointYield(a) \/ (a = Root /\ SafepointStop) \/ YieldClear(a)
             \/ YieldLook(a) \/ GiveRelease(a)
      PROVE TurnInv' /\ QueueInv'
  <2>1. CASE JoinLoad(a) BY <2>1, QuietMove DEF JoinLoad
  <2>2. CASE JoinAsk(a) BY <2>2, QuietMove DEF JoinAsk
  <2>3. CASE ClaimStore(a) BY <2>3, QuietMove DEF ClaimStore
  <2>4. CASE ClaimLook(a) BY <2>4, QuietMove DEF ClaimLook
  <2>5. CASE SafepointYield(a) BY <2>5, QuietMove DEF SafepointYield
  <2>6. CASE a = Root /\ SafepointStop BY <2>6, QuietMove DEF SafepointStop
  <2>7. CASE YieldClear(a) BY <2>7, QuietMove DEF YieldClear
  <2>8. CASE YieldLook(a) BY <2>8, QuietMove DEF YieldLook
  <2>9. CASE GiveRelease(a) BY <2>9, QuietMove DEF GiveRelease
  <2> QED BY <1>7, <2>1, <2>2, <2>3, <2>4, <2>5, <2>6, <2>7, <2>8, <2>9
<1>8. ASSUME NEW a \in Agents, Pause(a) \/ Resume(a) \/ Start(a) \/ Finish(a)
      PROVE TurnInv' /\ QueueInv'
  <2>1. CASE Pause(a) BY <2>1, QuietMove DEF Pause
  <2>2. CASE Resume(a) BY <2>2, QuietMove DEF Resume
  <2>3. CASE Start(a) BY <2>3, QuietMove DEF Start
  <2>4. CASE Finish(a) BY <2>4, QuietMove DEF Finish
  <2> QED BY <1>8, <2>1, <2>2, <2>3, <2>4
<1>9. CASE Return BY <1>9, QuietMove DEF Return
<1>10. CASE RunScript BY <1>10, QuietMove DEF RunScript
<1>11. CASE Interrupt \/ ClearInterrupt \/ UNCHANGED vars
  <2>1. UNCHANGED <<held, queue, queued, granted, next, pc>>
    BY <1>11 DEF Interrupt, ClearInterrupt, vars
  <2> QED BY <2>1 DEF TurnInv, QueueInv, Carries, HasTurn, Queued, Handing
<1> QED BY <1>1, <1>2, <1>3, <1>4, <1>5, <1>6, <1>7, <1>8, <1>9, <1>10, <1>11
        DEF Next, Turn

(* The strengthened invariant holds in every state the cluster can reach.    *)
THEOREM Inductive == Spec => []IInv
<1>1. Init => IInv
  <2> SUFFICES ASSUME Init PROVE IInv
    OBVIOUS
  <2> USE RootAssumption, NobodyAssumption DEF Init
  <2>1. TypeOK
    <3>1. held \in BOOLEAN /\ meddled \in BOOLEAN
      BY Zenon
    <3> QED BY <3>1 DEF TypeOK, PCs, Flags
  <2>2. ToSet(queue) = {} /\ NoDup(queue) /\ Len(queue) = 0
    BY DEF ToSet, NoDup
  <2>3. TurnInv
    BY <2>2 DEF TurnInv, Carries, HasTurn, Queued, Handing
  <2>4. QueueInv
    BY <2>2 DEF QueueInv, Queued
  <2> QED BY <2>1, <2>3, <2>4 DEF IInv
<1>2. IInv /\ [Next]_vars => IInv'
  BY TypeStep, InvStep DEF IInv
<1> QED BY <1>1, <1>2, PTL DEF Spec

(* Every variable keeps its type: the fields of agentCluster and the place   *)
(* of each goroutine.  Not inductive alone, giveTurn closing next[a].        *)
THEOREM TypeCorrect == Spec => []TypeOK
<1>1. IInv => TypeOK
  BY DEF IInv
<1> QED BY <1>1, Inductive, PTL

(* No two agents of a cluster ever execute at once, however many there are   *)
(* and however the host interrupts them (agent.go, "One at a time").         *)
THEOREM MutualExclusion == Spec => []OneAtATime
<1>1. IInv => OneAtATime
  BY DEF IInv, TurnInv, OneAtATime, Owner, Carries, HasTurn, Queued, Handing
<1> QED BY <1>1, Inductive, PTL

(* giveTurn drops nobody: an agent that waits is in the queue exactly as     *)
(* long as its ticket is not on its way to it.                               *)
THEOREM NoneLost == Spec => []NobodyForgotten
<1>1. IInv => NobodyForgotten
  <2> SUFFICES ASSUME IInv, NEW a \in Agents
               PROVE  Queued(a) <=> a \in ToSet(queue) \/ (Owner(a) /\ ~HasTurn(a))
    BY DEF NobodyForgotten
  <2>1. ASSUME Queued(a) PROVE a \in ToSet(queue) \/ (Owner(a) /\ ~HasTurn(a))
    BY <2>1 DEF IInv, QueueInv, Owner, Queued, HasTurn
  <2>2. ASSUME a \in ToSet(queue) \/ (Owner(a) /\ ~HasTurn(a)) PROVE Queued(a)
    BY <2>2 DEF IInv, QueueInv, TurnInv, Owner
  <2> QED BY <2>1, <2>2
<1> QED BY <1>1, Inductive, PTL

-----------------------------------------------------------------------------
(* The holder field is right whenever somebody could be asked through it.    *)
LEMMA HolderStep == IInv /\ HolderInv /\ [Next]_vars => HolderInv'
<1> SUFFICES ASSUME IInv, HolderInv, [Next]_vars PROVE HolderInv'
  OBVIOUS
<1> USE RootAssumption DEF IInv, TypeOK, Goto, HolderInv
<1>1. ASSUME NEW a \in Agents, ClaimStore(a) \/ GiveRelease(a) PROVE HolderInv'
  BY <1>1 DEF ClaimStore, GiveRelease, TurnInv, Carries, HasTurn
<1>2. ASSUME NEW a \in Agents,
             \/ JoinFree(a) \/ JoinQueue(a) \/ JoinLoad(a) \/ JoinAsk(a) \/ Receive(a)
             \/ ClaimLook(a) \/ SafepointYield(a) \/ (a = Root /\ SafepointStop)
             \/ YieldClear(a) \/ YieldLook(a)
      PROVE HolderInv'
  BY <1>2 DEF JoinFree, JoinQueue, JoinLoad, JoinAsk, Receive, ClaimLook,
              SafepointYield, SafepointStop, YieldClear, YieldLook
<1>3. ASSUME NEW a \in Agents, GiveNext(a) \/ GiveFree(a) \/ GiveClose(a)
      PROVE HolderInv'
  BY <1>3 DEF GiveNext, GiveFree, GiveClose
<1>4. ASSUME NEW a \in Agents, Pause(a) \/ Resume(a) \/ Start(a) \/ Finish(a)
      PROVE HolderInv'
  BY <1>4 DEF Pause, Resume, Start, Finish
<1>5. CASE Return \/ RunScript \/ Interrupt \/ ClearInterrupt \/ UNCHANGED vars
  BY <1>5 DEF Return, RunScript, Interrupt, ClearInterrupt, vars
<1> QED BY <1>1, <1>2, <1>3, <1>4, <1>5 DEF Next, Turn

(* Once the host has meddled, it has. *)
LEMMA MeddledStays == [Next]_vars /\ ~meddled' => ~meddled /\ ~Interrupt /\ ~ClearInterrupt
<1> SUFFICES ASSUME [Next]_vars, ~meddled' PROVE ~meddled /\ ~Interrupt /\ ~ClearInterrupt
  OBVIOUS
<1>1. ~Interrupt /\ ~ClearInterrupt
  BY DEF Interrupt, ClearInterrupt
<1>2. ASSUME NEW a \in Agents, Turn(a) PROVE ~meddled
  BY <1>2 DEF Turn, JoinFree, JoinQueue, JoinLoad, JoinAsk, Receive, ClaimStore, ClaimLook,
              SafepointYield, SafepointStop, YieldClear, YieldLook, GiveRelease, GiveNext,
              GiveFree, GiveClose
<1>3. ASSUME NEW a \in Agents, Pause(a) \/ Resume(a) \/ Start(a) \/ Finish(a) PROVE ~meddled
  BY <1>3 DEF Pause, Resume, Start, Finish
<1>4. ASSUME Return \/ RunScript \/ UNCHANGED vars PROVE ~meddled
  BY <1>4 DEF Return, RunScript, vars
<1> QED BY <1>1, <1>2, <1>3, <1>4 DEF Next

(* Without a host that clears the flag, a request for the turn is never lost. *)
LEMMA KnowStep ==
  IInv /\ HolderInv /\ (~meddled => KnowInv) /\ [Next]_vars => (~meddled' => KnowInv')
<1> SUFFICES ASSUME IInv, HolderInv, ~meddled => KnowInv, [Next]_vars, ~meddled' PROVE KnowInv'
  OBVIOUS
<1>m. KnowInv /\ ~Interrupt /\ ~ClearInterrupt
  BY MeddledStays
<1> USE RootAssumption DEF IInv, TypeOK, Goto
<1>0. ToSet(queue) \subseteq Agents
  BY InToSet
<1>1. ASSUME NEW a \in Agents, JoinQueue(a) PROVE KnowInv'
  <2>1. ToSet(queue') = ToSet(queue) \cup {a}
    BY <1>1, AppendTicket DEF JoinQueue
  <2> QED BY <1>m, <1>0, <1>1, <2>1 DEF JoinQueue, KnowInv
<1>2. ASSUME NEW a \in Agents, GiveNext(a) PROVE KnowInv'
  <2>1. ToSet(queue') \subseteq ToSet(queue)
    BY <1>2, TakeTicket DEF GiveNext, QueueInv
  <2> QED BY <1>m, <1>0, <1>2, <2>1 DEF GiveNext, KnowInv
<1>3. ASSUME NEW a \in Agents, JoinLoad(a) PROVE KnowInv'
  BY <1>m, <1>0, <1>3 DEF JoinLoad, KnowInv, HolderInv
<1>4. ASSUME NEW a \in Agents, JoinAsk(a) PROVE KnowInv'
  BY <1>m, <1>0, <1>4, NobodyAssumption DEF JoinAsk, KnowInv, Raised, Flags
<1>5. ASSUME NEW a \in Agents, ClaimLook(a) PROVE KnowInv'
  <2>1. CASE queued > 0
    <3>1. flag'[a] # "none"
      BY <1>5, <2>1 DEF ClaimLook, Raised
    <3> QED BY <1>m, <1>0, <1>5, <2>1, <3>1 DEF ClaimLook, KnowInv, TurnInv, Carries, HasTurn
  <2>2. CASE ~(queued > 0)
    <3>1. ToSet(queue) = {}
      BY <2>2, EmptyToSet DEF QueueInv
    <3> QED BY <1>m, <1>5, <3>1 DEF ClaimLook, KnowInv
  <2> QED BY <2>1, <2>2
<1>6. ASSUME NEW a \in Agents, YieldLook(a) PROVE KnowInv'
  <2>1. CASE queued = 0
    <3>1. ToSet(queue) = {}
      BY <2>1, EmptyToSet DEF QueueInv
    <3> QED BY <1>m, <1>6, <3>1 DEF YieldLook, KnowInv
  <2>2. CASE queued # 0
    BY <1>m, <1>0, <1>6, <2>2 DEF YieldLook, KnowInv
  <2> QED BY <2>1, <2>2
<1>7. ASSUME NEW a \in Agents, YieldClear(a) PROVE KnowInv'
  BY <1>m, <1>0, <1>7 DEF YieldClear, KnowInv
<1>8. ASSUME NEW a \in Agents,
             \/ JoinFree(a) \/ Receive(a) \/ ClaimStore(a) \/ SafepointYield(a)
             \/ (a = Root /\ SafepointStop) \/ GiveRelease(a) \/ GiveFree(a) \/ GiveClose(a)
      PROVE KnowInv'
  <2>1. pc'[a] \notin {"wait", "joinAsk"} /\ (pc'[a] = "idle" => pc[a] = "run")
        /\ pc'[a] # "run"
    BY <1>8 DEF JoinFree, Receive, ClaimStore, SafepointYield, SafepointStop,
                GiveRelease, GiveFree, GiveClose
  <2>2. UNCHANGED <<queue, flag, target>> /\ \A b \in Agents : b # a => pc'[b] = pc[b]
    BY <1>8 DEF JoinFree, Receive, ClaimStore, SafepointYield, SafepointStop,
                GiveRelease, GiveFree, GiveClose
  <2> QED BY <1>m, <1>0, <2>1, <2>2, ZenonT(40) DEF KnowInv
<1>9. ASSUME NEW a \in Agents, Pause(a) \/ Resume(a) \/ Start(a) \/ Finish(a)
      PROVE KnowInv'
  BY <1>m, <1>0, <1>9 DEF Pause, Resume, Start, Finish, KnowInv
<1>10. CASE Return \/ RunScript \/ UNCHANGED vars
  BY <1>m, <1>0, <1>10 DEF Return, RunScript, vars, KnowInv
<1> QED BY <1>1, <1>2, <1>3, <1>4, <1>5, <1>6, <1>7, <1>8, <1>9, <1>10, <1>m
        DEF Next, Turn

(* As long as no host interrupt is mixed in, an agent that runs while others *)
(* wait in the queue has its flag raised: claim's second half closes the gap *)
(* in which join finds no holder to ask.  With interrupts it is false.       *)
THEOREM HolderKnows == Spec => []HolderKnowsOfQueue
<1>1. Init => HolderInv /\ (~meddled => KnowInv)
  BY DEF Init, HolderInv, KnowInv, ToSet
<1>2. IInv /\ HolderInv /\ (~meddled => KnowInv) => HolderKnowsOfQueue
  BY DEF KnowInv, HolderKnowsOfQueue
<1>3. IInv /\ HolderInv /\ (~meddled => KnowInv) /\ [Next]_vars => HolderInv' /\ (~meddled => KnowInv)'
  BY HolderStep, KnowStep
<1> QED BY <1>1, <1>2, <1>3, Inductive, PTL DEF Spec

-----------------------------------------------------------------------------
(* Whose turn it is, in the abstract turn. *)
TurnOf == IF \E a \in Agents : Owner(a) THEN CHOOSE a \in Agents : Owner(a) ELSE Nobody

TurnOfIsOwner ==
  /\ \A a \in Agents : Owner(a) <=> TurnOf = a
  /\ ~held <=> TurnOf = Nobody
  /\ TurnOf \in Agents \cup {Nobody}

(* The owner is unique, so the abstract turn is his.                         *)
LEMMA TurnOfOwner == IInv => TurnOfIsOwner
<1> SUFFICES ASSUME IInv PROVE TurnOfIsOwner
  OBVIOUS
<1>1. \A a, b \in Agents : Owner(a) /\ Owner(b) => a = b
  BY DEF IInv, TurnInv, Owner, Carries, HasTurn, Queued, Handing
<1>2. (\E a \in Agents : Owner(a)) <=> held
  <2>1. ASSUME NEW a \in Agents, Owner(a) PROVE \E b \in Agents : Carries(b)
    BY <2>1 DEF Owner, Carries
  <2>2. ASSUME NEW b \in Agents, Carries(b) PROVE \E a \in Agents : Owner(a)
    BY <2>2 DEF IInv, TurnInv, Owner, Carries
  <2> QED BY <2>1, <2>2 DEF IInv, TurnInv
<1>3. ASSUME NEW a \in Agents, Owner(a) PROVE TurnOf = a
  BY <1>1, <1>3 DEF TurnOf
<1>4. ASSUME NEW a \in Agents, TurnOf = a PROVE Owner(a)
  BY <1>1, <1>4, NobodyAssumption DEF TurnOf
<1>5. ~held => TurnOf = Nobody
  BY <1>2 DEF TurnOf
<1>6. held => TurnOf \in Agents
  BY <1>2 DEF TurnOf
<1> QED BY <1>3, <1>4, <1>5, <1>6, NobodyAssumption DEF TurnOfIsOwner

(* Every step of the turn protocol is an Ask, a Pass or a stutter.           *)
LEMMA RefineStep ==
  IInv /\ IInv' /\ [Next]_vars => [Abstract!TurnNext]_(Abstract!tvars)
<1> SUFFICES ASSUME IInv, IInv', [Next]_vars
             PROVE  \/ \E a \in Agents : Abstract!Ask(a)
                    \/ Abstract!Pass
                    \/ UNCHANGED <<TurnOf, queue>>
  BY DEF Abstract!tvars, Abstract!TurnNext, TurnOf
<1> USE RootAssumption, NobodyAssumption
<1>1. TurnOfIsOwner /\ TurnOfIsOwner'
  BY TurnOfOwner, PTL
<1>2. ASSUME \A b \in Agents : Owner(b)' <=> Owner(b) PROVE TurnOf' = TurnOf
  BY <1>1, <1>2 DEF TurnOfIsOwner
<1>3. ASSUME NEW a \in Agents, JoinFree(a) PROVE Abstract!Ask(a)
  <2>1. TurnOf = Nobody /\ TurnOf' = a /\ queue' = queue
    BY <1>1, <1>3 DEF TurnOfIsOwner, JoinFree, Goto, Owner, HasTurn, IInv, TypeOK
  <2>2. a \notin ToSet(queue)
    BY <1>3 DEF JoinFree, IInv, QueueInv, Queued
  <2> QED BY <2>1, <2>2 DEF Abstract!Ask, Abstract!ToSet, ToSet, TurnOf
<1>4. ASSUME NEW a \in Agents, JoinQueue(a) PROVE Abstract!Ask(a)
  <2>1. ~Queued(a) /\ ~Owner(a)
    BY <1>4 DEF JoinQueue, IInv, TurnInv, Owner, HasTurn, Queued, Handing
  <2>2. \A b \in Agents : Owner(b)' <=> Owner(b)
    BY <1>4 DEF JoinQueue, Goto, Owner, HasTurn, Handing, IInv, TypeOK
  <2>3. TurnOf # a /\ TurnOf # Nobody /\ TurnOf' = TurnOf
    BY <1>1, <1>2, <1>4, <2>1, <2>2 DEF TurnOfIsOwner, JoinQueue
  <2>4. a \notin ToSet(queue) /\ queue' = Append(queue, a)
    BY <1>4, <2>1 DEF JoinQueue, IInv, QueueInv
  <2> QED BY <2>3, <2>4 DEF Abstract!Ask, Abstract!ToSet, ToSet, TurnOf
<1>5. ASSUME NEW a \in Agents, GiveNext(a) PROVE Abstract!Pass
  <2>1. Head(queue) \in Agents
    BY <1>5, TakeTicket DEF GiveNext, IInv, QueueInv, TypeOK
  <2>2. Owner(a) /\ \A h \in Agents : h = Head(queue) => Owner(h)'
    <3>1. next'[a] = Head(queue) /\ pc'[a] = "giveClose"
      BY <1>5 DEF GiveNext, Goto, IInv, TypeOK
    <3> QED BY <1>5, <3>1 DEF GiveNext, Owner, HasTurn, Handing
  <2>3. TurnOf # Nobody /\ TurnOf' = Head(queue)
    BY <1>1, <2>1, <2>2 DEF TurnOfIsOwner
  <2> QED BY <1>5, <2>3 DEF GiveNext, Abstract!Pass, TurnOf
<1>6. ASSUME NEW a \in Agents, GiveFree(a) PROVE Abstract!Pass
  <2>1. Owner(a)
    BY <1>6 DEF GiveFree, Owner, HasTurn
  <2>2. TurnOf # Nobody /\ TurnOf' = Nobody
    BY <1>1, <1>6, <2>1 DEF TurnOfIsOwner, GiveFree
  <2> QED BY <1>6, <2>2 DEF GiveFree, Abstract!Pass, TurnOf
<1>7. ASSUME NEW a \in Agents, Receive(a) \/ GiveClose(a)
      PROVE  UNCHANGED <<TurnOf, queue>>
  <2>1. CASE Receive(a)
    <3>1. Owner(a) /\ Owner(a)'
      BY <2>1 DEF Receive, Goto, Owner, HasTurn, IInv, TypeOK
    <3> QED BY <1>1, <2>1, <3>1 DEF TurnOfIsOwner, Receive
  <2>2. CASE GiveClose(a)
    <3>1. /\ next[a] \in Agents
          /\ \A h \in Agents : h = next[a] => Owner(h) /\ Owner(h)'
      BY <2>2 DEF GiveClose, Owner, Handing, IInv, TurnInv, TypeOK
    <3> QED BY <1>1, <2>2, <3>1 DEF TurnOfIsOwner, GiveClose
  <2> QED BY <1>7, <2>1, <2>2
<1>8. ASSUME NEW a \in Agents,
             \/ JoinLoad(a) \/ JoinAsk(a) \/ ClaimStore(a) \/ ClaimLook(a)
             \/ SafepointYield(a) \/ (a = Root /\ SafepointStop) \/ YieldClear(a)
             \/ YieldLook(a) \/ GiveRelease(a)
      PROVE  UNCHANGED <<TurnOf, queue>>
  <2>1. \A b \in Agents : Owner(b)' <=> Owner(b)
    BY <1>8 DEF JoinLoad, JoinAsk, ClaimStore, ClaimLook, SafepointYield, SafepointStop,
                YieldClear, YieldLook, GiveRelease, Goto, Owner, HasTurn, Handing,
                IInv, TypeOK
  <2> QED BY <1>2, <1>8, <2>1 DEF JoinLoad, JoinAsk, ClaimStore, ClaimLook,
            SafepointYield, SafepointStop, YieldClear, YieldLook, GiveRelease
<1>9. ASSUME NEW a \in Agents,
             Pause(a) \/ Resume(a) \/ Start(a) \/ Finish(a) \/ (a = Root /\ (Return \/ RunScript))
      PROVE  UNCHANGED <<TurnOf, queue>>
  <2>1. \A b \in Agents : Owner(b)' <=> Owner(b)
    BY <1>9 DEF Pause, Resume, Start, Finish, Return, RunScript, Goto, Owner, HasTurn,
                Handing, IInv, TypeOK
  <2> QED BY <1>2, <1>9, <2>1 DEF Pause, Resume, Start, Finish, Return, RunScript
<1>10. CASE Interrupt \/ ClearInterrupt \/ UNCHANGED vars
  <2>1. \A b \in Agents : Owner(b)' <=> Owner(b)
    BY <1>10 DEF Interrupt, ClearInterrupt, vars, Owner, HasTurn, Handing
  <2> QED BY <1>2, <1>10, <2>1 DEF Interrupt, ClearInterrupt, vars
<1> QED BY <1>3, <1>4, <1>5, <1>6, <1>7, <1>8, <1>9, <1>10 DEF Next, Turn

(* The turn of a cluster of any size implements TurnSpec: it is granted in   *)
(* the order it was asked for and nobody barges in while it changes hands.   *)
THEOREM Refinement == Spec => ImplementsTurnSpec
<1>1. Init /\ IInv => Abstract!TurnInit
  <2> SUFFICES ASSUME Init, IInv PROVE TurnOf \in Agents /\ queue = <<>>
    BY DEF Abstract!TurnInit, TurnOf
  <2>1. held /\ queue = <<>>
    BY DEF Init
  <2> QED BY <2>1, TurnOfOwner DEF TurnOfIsOwner
<1>2. IInv /\ IInv' /\ [Next]_vars => [Abstract!TurnNext]_(Abstract!tvars)
  BY RefineStep
<1> QED BY <1>1, <1>2, Inductive, PTL DEF Spec, ImplementsTurnSpec, Abstract!TurnSafe
=============================================================================
