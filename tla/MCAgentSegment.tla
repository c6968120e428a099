--------------------------- MODULE MCAgentSegment ---------------------------
(***************************************************************************)
(* Instances of AgentSegment for TLC. The answers after which the agent    *)
(* asks again are interchangeable.                                         *)
(***************************************************************************)
EXTENDS AgentSegment, TLC

Symmetry == Permutations(More)
=============================================================================
