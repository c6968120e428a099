---------------------------- MODULE AgentWorkflow ----------------------------
(***************************************************************************)
(* piDurableAgentWorkflow: one agent run, over all its workflow runs.      *)
(*                                                                         *)
(* The workflow runs segments of the model. A segment that does not        *)
(* complete stops at a boundary - tools, a question to the user, a handoff *)
(* to another workflow - which the workflow resolves, keeping a ledger of  *)
(* what was spent. After every Threshold segments it continues as new: its *)
(* memory is what the next run gets as input. There is no catch block: an  *)
(* activity that gives up, or a cancellation, ends it as it stands.        *)
(***************************************************************************)
EXTENDS Naturals

CONSTANTS
  Max,          \* the budget of the plan, or of the tenant policy when there is one
  Threshold,    \* PI_MAX_SEGMENTS_BEFORE_CONTINUE_AS_NEW, 0 for never
  Owner,        \* task_status_owner
  Evaluation,   \* execution_context_type of the first run is 'evaluation'
  Targets,      \* FlowExecutionPlans the model may ask to hand off to
  NoTarget,
  MaxTurns,     \* bound: model turns of one segment
  MaxProposals, \* bound: tool proposals of one segment
  MaxFaults     \* bound: activities that give up, cancellations

ASSUME AgentAssumption ==
  /\ Max \in [segments : Nat, turns : Nat, tools : Nat, handoffs : Nat]
  /\ {Threshold, MaxTurns, MaxProposals, MaxFaults} \subseteq Nat
  /\ Owner \in BOOLEAN /\ Evaluation \in BOOLEAN
  /\ NoTarget \notin Targets

VARIABLES
  pc,
  input,    \* what the workflow run was started with
  ledger,   \* budget ledger, in the memory of the workflow
  index,    \* segmentIndex
  todo,     \* proposals of the segment that are not resolved yet
  charged,  \* chargedToolCallCount
  target,   \* the target of the handoff the segment asked for
  agentRun, \* agent_run.status
  taskRun,  \* task_run.status
  outcome,  \* what the workflow is about to report and return
  work,     \* history: what was really done, over all workflow runs
  faults

memory == <<ledger, index, todo, charged, target>>
vars == <<pc, input, memory, agentRun, taskRun, outcome, work, faults>>

Ledgers  == [segments : Nat, turns : Nat, tools : Nat, handoffs : Nat]
NoLedger == [segments |-> 0, turns |-> 0, tools |-> 0, handoffs |-> 0]
NoWork   == [segments |-> 0, turns |-> 0, proposals |-> 0, effects |-> 0,
             handoffs |-> 0, children |-> 0]
Works    == [segments : Nat, turns : Nat, proposals : Nat, effects : Nat,
             handoffs : Nat, children : Nat]
Pcs      == {"begin", "loop", "tools", "approve", "ask", "user", "handoff", "child",
             "boundary", "report", "reportTask", "closed", "aborted"}
Outcomes == {"completed", "failed", "budget_exceeded"}
Kinds    == {"completed", "tool_requested", "user_input_required", "handoff_requested",
             "stopped_by_budget", "failed", "cancelled"}
Over     == {"closed", "aborted"}
AgentStatuses == {"none", "running", "waiting_human", "waiting_user", "waiting_tool",
                  "handing_off", "cancelled"} \cup Outcomes

Init ==
  /\ pc = "begin"
  /\ input = [ledger |-> NoLedger, index |-> 0, chain |-> {}, evaluation |-> Evaluation]
  /\ ledger = NoLedger /\ index = 0
  /\ todo = 0 /\ charged = 0 /\ target = NoTarget
  /\ agentRun = "none" /\ taskRun = "running"
  /\ outcome = "none" /\ work = NoWork /\ faults = 0

Goto(p) == pc' = p
Finish(o) == outcome' = o /\ Goto("report")
GoOn(p) == Goto(p) /\ UNCHANGED outcome

-----------------------------------------------------------------------------
\* The plan, the policy and the configuration are loaded, and the agent_run created
\* or found by the id the run was started with. A model the tenant policy does not
\* allow fails the agent.
Begin ==
  /\ pc = "begin"
  /\ ledger' = input.ledger /\ index' = input.index
  /\ agentRun' = "running"
  /\ GoOn("loop") \/ Finish("failed")
  /\ UNCHANGED <<input, todo, charged, target, taskRun, work, faults>>

\* budgetExceededForLedger: tokens, duration and context bytes may be spent any time.
Exhausted(l) == l.segments >= Max.segments \/ l.turns >= Max.turns

\* Variant: the end of the loop is the end of the workflow.
StopSilently ==
  /\ pc = "loop"
  /\ outcome' = "budget_exceeded" /\ Goto("closed")
  /\ UNCHANGED <<input, memory, agentRun, taskRun, work, faults>>

\* The loop ends, or a budget is spent.
StopOnBudget ==
  /\ pc = "loop"
  /\ Finish("budget_exceeded")
  /\ UNCHANGED <<input, memory, agentRun, taskRun, work, faults>>

StatusForSegment ==
  [completed |-> "completed", tool_requested |-> "waiting_tool",
   user_input_required |-> "waiting_user", handoff_requested |-> "handing_off",
   stopped_by_budget |-> "budget_exceeded", failed |-> "failed", cancelled |-> "cancelled"]

\* runPiSegmentActivity, with the turns that are left; then the ledger, the row, and the
\* budget once more, which a completed segment need not meet.
RunSegment ==
  /\ pc = "loop" /\ index < Max.segments /\ ~Exhausted(ledger)
  /\ \E t \in 0..MaxTurns, kind \in Kinds, spent \in BOOLEAN :
       /\ ledger.turns + t > Max.turns => kind \in {"stopped_by_budget", "failed", "cancelled"}
       /\ ledger' = [ledger EXCEPT !.segments = @ + 1, !.turns = @ + t]
       /\ work' = [work EXCEPT !.segments = @ + 1, !.turns = @ + t]
       /\ agentRun' = StatusForSegment[kind]
       /\ LET over == spent \/ Exhausted(ledger') IN
          \/ kind = "completed" /\ Finish("completed") /\ UNCHANGED <<todo, target>>
          \/ /\ kind = "stopped_by_budget" \/ (over /\ kind # "completed")
             /\ Finish("budget_exceeded") /\ UNCHANGED <<todo, target>>
          \/ /\ kind \in {"failed", "cancelled"} /\ ~over
             /\ Finish("failed") /\ UNCHANGED <<todo, target>>
          \/ /\ kind = "tool_requested" /\ ~over
             /\ GoOn("tools") /\ todo' \in 1..MaxProposals /\ UNCHANGED target
          \/ kind = "user_input_required" /\ ~over /\ GoOn("ask") /\ UNCHANGED <<todo, target>>
          \/ /\ kind = "handoff_requested" /\ ~over
             /\ GoOn("handoff") /\ target' \in Targets /\ UNCHANGED todo
  /\ UNCHANGED <<input, index, charged, taskRun, faults>>

-----------------------------------------------------------------------------
\* executeProposedTools, one proposal at a time: charged first, then denied (over
\* budget, or by the plan, the risk or the policy), or invoked, or, for risk L3,
\* offered to a human: createHumanTaskActivity marks the task_run waiting.
WithinTools == ledger.tools + charged + 1 <= Max.tools

ProposeTool ==
  /\ pc = "tools" /\ todo > 0
  /\ todo' = todo - 1 /\ charged' = charged + 1
  /\ \/ /\ work' = [work EXCEPT !.proposals = @ + 1]
        /\ GoOn("tools") /\ UNCHANGED <<agentRun, taskRun>>
     \/ /\ WithinTools
        /\ work' = [work EXCEPT !.proposals = @ + 1, !.effects = @ + 1]
        /\ GoOn("tools") /\ UNCHANGED <<agentRun, taskRun>>
     \/ /\ WithinTools
        /\ work' = [work EXCEPT !.proposals = @ + 1]
        /\ GoOn("approve") /\ agentRun' = "waiting_human" /\ taskRun' = "waiting_human"
  /\ UNCHANGED <<input, ledger, index, target, faults>>

\* The human decides. A rejected proposal, and one the policy lets nobody commit, is
\* denied; an approved one is committed. No row is written.
Decide ==
  /\ pc = "approve"
  /\ work' \in {work, [work EXCEPT !.effects = @ + 1]}
  /\ GoOn("tools")
  /\ UNCHANGED <<input, memory, agentRun, taskRun, faults>>

\* Variant: only the proposals that were not denied are charged.
PersistEffectsOnly ==
  /\ pc = "tools" /\ todo = 0
  /\ \E n \in 0..charged : ledger' = [ledger EXCEPT !.tools = @ + n]
  /\ charged' = 0 /\ index' = index + 1
  /\ agentRun' = "running" /\ GoOn("boundary")
  /\ UNCHANGED <<input, todo, target, taskRun, work, faults>>

\* persistToolResultsToPiContextActivity and the ledger, after all proposals.
PersistTools ==
  /\ pc = "tools" /\ todo = 0
  /\ ledger' = [ledger EXCEPT !.tools = @ + charged]
  /\ charged' = 0 /\ index' = index + 1
  /\ agentRun' = "running" /\ GoOn("boundary")
  /\ UNCHANGED <<input, todo, target, taskRun, work, faults>>

AskUser ==
  /\ pc = "ask"
  /\ GoOn("user") /\ agentRun' = "waiting_user" /\ taskRun' = "waiting_user"
  /\ UNCHANGED <<input, memory, work, faults>>

\* The user's answer is appended to the context.
AnswerUser ==
  /\ pc = "user"
  /\ index' = index + 1
  /\ agentRun' = "running" /\ GoOn("boundary")
  /\ UNCHANGED <<input, ledger, todo, charged, target, taskRun, work, faults>>

\* The handoff is charged first. executeWorkflowHandoff refuses a target of the chain
\* the run was started with; the plan and the policy may refuse any.
Handoff ==
  /\ pc = "handoff"
  /\ ledger' = [ledger EXCEPT !.handoffs = @ + 1]
  /\ \/ /\ ledger.handoffs >= Max.handoffs
        /\ work' = [work EXCEPT !.handoffs = @ + 1]
        /\ Finish("budget_exceeded")
     \/ /\ ledger.handoffs < Max.handoffs
        /\ work' = [work EXCEPT !.handoffs = @ + 1]
        /\ Finish("failed")
     \/ /\ ledger.handoffs < Max.handoffs /\ target \notin input.chain
        /\ work' = [work EXCEPT !.handoffs = @ + 1, !.children = @ + 1]
        /\ GoOn("child")
  /\ UNCHANGED <<input, index, todo, charged, target, agentRun, taskRun, faults>>

\* The child workflow ends. The agent goes on only when it completed.
ChildEnds ==
  /\ pc = "child"
  /\ \/ Finish("failed") /\ UNCHANGED <<index, agentRun>>
     \/ GoOn("boundary") /\ index' = index + 1 /\ agentRun' = "running"
  /\ UNCHANGED <<input, ledger, todo, charged, target, taskRun, work, faults>>

\* Variant: the ledger of the next run starts at zero.
ContinueWithoutLedger ==
  /\ pc = "boundary"
  /\ Threshold > 0 /\ index % Threshold = 0
  /\ input' = [input EXCEPT !.ledger = NoLedger, !.index = index]
  /\ ledger' = NoLedger /\ index' = 0 /\ target' = NoTarget
  /\ GoOn("begin")
  /\ UNCHANGED <<todo, charged, agentRun, taskRun, work, faults>>

\* maybeContinueAsNew. The chain is carried along, and grows only by the target of a
\* handoff just made; the evaluation context is not part of the new input.
ContinueAsNew ==
  /\ pc = "boundary"
  /\ Threshold > 0 /\ index % Threshold = 0
  /\ input' = [ledger |-> ledger, index |-> index, evaluation |-> FALSE,
               chain |-> input.chain \cup ({target} \ {NoTarget})]
  /\ ledger' = NoLedger /\ index' = 0 /\ target' = NoTarget
  /\ GoOn("begin")
  /\ UNCHANGED <<todo, charged, agentRun, taskRun, work, faults>>

Loop ==
  /\ pc = "boundary"
  /\ Threshold = 0 \/ index % Threshold # 0
  /\ target' = NoTarget /\ GoOn("loop")
  /\ UNCHANGED <<input, ledger, index, todo, charged, agentRun, taskRun, work, faults>>

-----------------------------------------------------------------------------
\* The agent_run first, then, by its owner only, the task_run.
Report ==
  /\ pc = "report"
  /\ agentRun' = outcome
  /\ GoOn(IF Owner THEN "reportTask" ELSE "closed")
  /\ UNCHANGED <<input, memory, taskRun, work, faults>>

ReportTask ==
  /\ pc = "reportTask"
  /\ taskRun' = (IF outcome = "completed" THEN "completed" ELSE "failed")
  /\ GoOn("closed")
  /\ UNCHANGED <<input, memory, agentRun, work, faults>>

\* An activity gives up after its attempts, or the workflow is cancelled.
Abort ==
  /\ pc \notin Over /\ faults < MaxFaults
  /\ faults' = faults + 1 /\ GoOn("aborted")
  /\ UNCHANGED <<input, memory, agentRun, taskRun, work>>

Step ==
  \/ Begin \/ StopOnBudget \/ RunSegment \/ ProposeTool \/ PersistTools \/ AskUser \/ Handoff
  \/ ContinueAsNew \/ Loop \/ Report \/ ReportTask

Next == Step \/ ChildEnds \/ Decide \/ AnswerUser \/ Abort

Spec == Init /\ [][Next]_vars

\* Temporal goes on with the workflow and its activities, whose attempts are limited; a
\* human may not answer, and a child may wait for one, or retry, for ever.
Fairness == WF_vars(Step)
FairSpec == Spec /\ Fairness

-----------------------------------------------------------------------------
\* The states of the workflow and of its two rows.
TypeOK ==
  /\ pc \in Pcs
  /\ input \in [ledger : Ledgers, index : Nat, chain : SUBSET Targets, evaluation : BOOLEAN]
  /\ ledger \in Ledgers
  /\ {index, todo, charged, faults} \subseteq Nat
  /\ target \in Targets \cup {NoTarget}
  /\ agentRun \in AgentStatuses
  /\ taskRun \in {"running", "waiting_human", "waiting_user", "completed", "failed"}
  /\ outcome \in Outcomes \cup {"none"}
  /\ pc \in {"report", "reportTask", "closed"} => outcome \in Outcomes
  /\ work \in Works

\* The ledger is exactly what was done, over all workflow runs: a denied proposal and
\* a refused handoff count, nothing counts twice, and nothing is forgotten when the
\* workflow continues as new (applySegmentLedger, executeProposedTools,
\* maybeContinueAsNew).
LedgerIsExact ==
  pc # "aborted" =>
    LET l == IF pc = "begin" THEN input.ledger ELSE ledger IN
    /\ l.segments = work.segments /\ l.turns = work.turns
    /\ l.tools + charged = work.proposals
    /\ l.handoffs = work.handoffs

Budget == INSTANCE AgentBudget WITH
  segments <- work.segments, turns <- work.turns, proposals <- work.proposals,
  effects <- work.effects, children <- work.children,
  open <- pc \notin Over

\* The agent keeps to its budget over all its workflow runs: no segment starts once a
\* budget is spent, no tool runs and no child starts beyond it, and nothing is done
\* when it is over (budgetExceededForLedger, executeProposedTools).
KeepsToBudget == Budget!Spec

\* The agent ends and says how in its agent_run, and in the task_run it owns, unless
\* it was aborted, or waits for a human or for its child (the loop and its exits).
AgentReports ==
  <>[](\/ /\ pc = "closed" /\ agentRun = outcome
          /\ Owner => taskRun = IF outcome = "completed" THEN "completed" ELSE "failed"
       \/ pc \in {"aborted", "approve", "user", "child"})

\* Violated: the tools of an evaluated agent are called as evaluation calls. After
\* continuing as new they are called as those of a user.
EvaluationStaysSandboxed ==
  [][Evaluation /\ work'.effects # work.effects => input.evaluation]_vars
=============================================================================
