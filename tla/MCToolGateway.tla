--------------------------- MODULE MCToolGateway ---------------------------
(***************************************************************************)
(* Instances of ToolGateway for TLC: a write tool that needs approval, a   *)
(* read tool, a tool of the HTTP adapter, one always denied and one that   *)
(* is not registered; in a task and in an evaluation case.                 *)
(***************************************************************************)
EXTENDS ToolGateway, TLC

CONSTANTS write, read, http, danger, gone, e1, b1, b2

MCTools     == {write, read, http, danger, gone}
MCRisk      == write :> "L3" @@ read :> "L1" @@ http :> "L1" @@ danger :> "L4"
                 @@ gone :> "L1"
MCEvalMode  == write :> "sandbox_commit" @@ read :> "sandbox_commit"
                 @@ http :> "preview_only" @@ danger :> "deny" @@ gone :> "deny"
MCEvalLimit == [t \in MCTools |-> 1]

\* One key per client intent: retries repeat it, also with another body.
Ask(op, tool, body, case, call) ==
  [op |-> op, tool |-> tool, key |-> op, body |-> body, case |-> case, call |-> call]

MCContents ==
  {Ask("preview", t, b1, None, None) : t \in MCTools \ {gone}}
    \cup {Ask("preview", write, b1, e1, None)}
    \cup {Ask("invoke", t, b1, None, None) : t \in {write, read, danger, gone}}
    \cup {Ask("invoke", read, b2, None, None), Ask("invoke", read, b1, e1, None)}
    \cup {Ask("commit", write, b, None, k) : b \in {b1, b2}, k \in ToolCalls}
    \cup {Ask("commit", write, b1, e1, k) : k \in ToolCalls}
    \cup {Ask("commit", http, b1, None, k) : k \in ToolCalls}

\* Requests and tool calls are interchangeable.
Interchangeable == Permutations(Requests) \cup Permutations(ToolCalls)
=============================================================================
