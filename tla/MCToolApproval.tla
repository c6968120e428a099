--------------------------- MODULE MCToolApproval ---------------------------
(***************************************************************************)
(* Instances of ToolApproval for TLC.                                      *)
(***************************************************************************)
EXTENDS ToolApproval, TLC

\* HTTP calls, requests, tasks and tool calls are interchangeable.
Interchangeable ==
  Permutations(HttpCalls) \cup Permutations(Requests)
    \cup Permutations(HumanTasks) \cup Permutations(ToolCalls)
=============================================================================
