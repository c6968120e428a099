-------------------------- MODULE MCAgentWorkflow --------------------------
(***************************************************************************)
(* Instances of AgentWorkflow for TLC.                                     *)
(***************************************************************************)
EXTENDS AgentWorkflow

SmallBudget == [segments |-> 4, turns |-> 4, tools |-> 3, handoffs |-> 1]
=============================================================================
