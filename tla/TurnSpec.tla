------------------------------ MODULE TurnSpec ------------------------------
(***************************************************************************)
(* What the turn-taking of internal/engine/agent.go promises to the rest   *)
(* of the engine: there is one turn, an agent that asks for it while       *)
(* somebody has it stands in a line, and the turn is handed along the line *)
(* in the order the agents asked, never to an agent that barges in.        *)
(***************************************************************************)
EXTENDS Sequences, SequencesExt

CONSTANTS Agents,   \* the agents of one cluster
          Nobody    \* "the turn is free"

VARIABLES turn,     \* whose turn it is
          line      \* who asked for it, oldest first

tvars == <<turn, line>>

TurnTypeOK == /\ turn \in Agents \cup {Nobody}
              /\ line \in Seq(Agents)

(* The first agent of a cluster is running when the cluster is created. *)
TurnInit == /\ turn \in Agents
            /\ line = <<>>

(* An agent asks: it has the turn at once, or it goes to the end of the line. *)
Ask(a) ==
  /\ turn # a
  /\ a \notin ToSet(line)
  /\ \/ turn = Nobody /\ turn' = a /\ line' = line
     \/ turn # Nobody /\ turn' = turn /\ line' = Append(line, a)

(* The agent whose turn it is gives it to the head of the line, if any. *)
Pass ==
  /\ turn # Nobody
  /\ \/ line = <<>> /\ turn' = Nobody /\ line' = line
     \/ line # <<>> /\ turn' = Head(line) /\ line' = Tail(line)

TurnNext == (\E a \in Agents : Ask(a)) \/ Pass

TurnSafe == TurnInit /\ [][TurnNext]_tvars
=============================================================================
