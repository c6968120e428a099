---------------------------- MODULE AgentBudget ----------------------------
(***************************************************************************)
(* What the budget of an agent promises of one agent run, whatever number  *)
(* of workflow runs it takes: so many segments, model turns, tool          *)
(* proposals and handoffs, and nothing once it is over.                    *)
(***************************************************************************)
EXTENDS Naturals

CONSTANTS
  Max,      \* AgentBudget: max_segments, max_model_turns, max_tool_calls, max_handoffs
  MaxTurns  \* bound: model turns of one segment

VARIABLES
  segments, turns,
  proposals, \* tools the model asked for
  effects,   \* those that were invoked
  children,  \* workflows the agent handed off to
  open       \* the agent run is not over

work == <<segments, turns, proposals, effects, children>>
vars == <<work, open>>

Init ==
  /\ segments = 0 /\ turns = 0
  /\ proposals = 0 /\ effects = 0 /\ children = 0
  /\ open = TRUE

\* The turns of a segment are known only when it returns: the last one may be over.
Segment ==
  /\ segments < Max.segments /\ turns < Max.turns
  /\ segments' = segments + 1
  /\ turns' \in turns..(turns + MaxTurns)
  /\ UNCHANGED <<proposals, effects, children>>

\* A denied proposal is spent as well.
Propose ==
  /\ proposals' = proposals + 1
  /\ UNCHANGED <<segments, turns, effects, children>>

\* A tool runs for the proposal at hand, at once or when it is approved.
Effect ==
  /\ proposals' \in {proposals, proposals + 1}
  /\ effects < proposals' /\ proposals' <= Max.tools
  /\ effects' = effects + 1
  /\ UNCHANGED <<segments, turns, children>>

StartChild ==
  /\ children < Max.handoffs
  /\ children' = children + 1
  /\ UNCHANGED <<segments, turns, proposals, effects>>

Work  == open /\ (Segment \/ Propose \/ Effect \/ StartChild) /\ UNCHANGED open
Close == open /\ open' = FALSE /\ UNCHANGED work

Spec == Init /\ [][Work \/ Close]_vars
=============================================================================
