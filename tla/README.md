# Verification of durable-agent-runtime-lite

TLA+ modules of the parts of the runtime in which several processes move the same
rows, TLC runs that check them on small instances, and TLAPS proofs of what
matters most for instances of any size. Every definition is translated from the
source; `PROJECT.json` maps definitions to lines.

## 1. The system

A tenant's request becomes a *task run*: `runtime-api` routes it to a flow or an
agent, admits it, and starts a Temporal workflow in `runtime-worker`. The workflow
calls tools through `tool-gateway`, stops for humans where a tool is risky, and
writes its result to PostgreSQL. What flows, agents and tools there are is published
in `control-plane`, behind a gate that evaluation runs decide. All state that survives a
process is in PostgreSQL (rows) or in Temporal (workflow history, signals). There is no
transaction across two services, and most statements of one service are in none.

| Component | State it keeps | Operations | What makes it correct | Module |
|---|---|---|---|---|
| human-task decisions (`runtime-api`) | `human_task` rows | approve, reject, respond; creation by the worker | the first decision stands everywhere, the workflow hears of it, and never of one that is not stored | `HumanTask` |
| tool gateway | `tool_call_log`, `idempotency_record`, `evaluation_tool_call_reservation` | preview, commit, invoke | no L3 effect without approval, one result per key, evaluation limits hold, the log is true | `ToolGateway` |
| L3 step of the workflows (`runtime-worker`) | workflow locals, decision map | preview, createHumanTask, wait, commit, retries | completed means done, both consents are needed, a decision ends the step or starts a flow's retries | `ToolApproval` |
| task start and admission (`runtime-api`, `runtime-worker`, `repo-cli`) | `tenant_agent_admission`, `task_run` | reserve, activate, release, terminal status, reconcile | limit of concurrent runs, slots come back, none is taken from a live workflow | `Admission` |
| agent workflow (Pi) | `agent_run`, budget ledger, context | segments, tools, user input, handoff, Continue-As-New | the budget holds over all workflow runs, the end is reported | `AgentWorkflow` |
| agent segment and model client | `model_call_log`, `model_call_attempt`, `agent_step` | model calls with retries and fallback, recorded and replayed | a retry asks for no answer that is recorded, what the workflow is told is what is recorded | `AgentSegment` |
| conversations | `conversation`, `conversation_message` | send, send again, finalize, archive | one turn at a time, a usable context, a reply that matches its task | `Conversation` |
| evaluation runs | `evaluation_run`, case results, gate decision | create, cancel, execute, score, decide, override | a decision counts every case once, a cancelled run ends, reports are final | `EvaluationRun` |
| registry and releases | versions, `capability_release` | draft, update, clone, publish, gray, rollback, withdraw | the release history describes what is served | not yet, §5 |
| flow interpreter | step results | sequential steps with conditions | a failing step ends the flow | only its L3 branch |
| router, tenant policies, adapters, UI, packages | none, snapshots, or caches | pure functions and I/O | out of scope, §6 | |

**How they interact.** runtime-api starts workflows and sends the signals
`humanTaskDecision` and `userInputResponse`; the worker calls runtime-api's tables
directly and tool-gateway over HTTP from activities; tool-gateway reads `human_task`
rows that runtime-api writes, and both write `tool_call_log`. The reconcile command
of `repo-cli` reads `tenant_agent_admission`, `task_run` and Temporal. A conversation
turn starts a task and is finalized by its workflow. The control plane starts
`evaluationRunWorkflow`, whose cases are child workflows that run the agent, and reads the
decision it leaves when a version is published.

**What is hard.** Handlers are chains of awaits with no lock, most UPDATEs have no
condition, activities are retried, or given up, while an earlier attempt may still be
running, and any process can be lost between two steps. `PROJECT.json` lists the hazards
at their lines, with the properties that speak about them, or why none does.

## 2. Modules

Each await of the code (a database call, a signal, an adapter run, an activity) is one
action; what happens between two awaits of one process belongs to the action before. A
handler is a record with a program counter. A handler that is lost stops between two
actions and what it wrote stays. An activity that Temporal gives up may take effect later:
its call goes into `late` (EvaluationRun, Conversation) or simply goes on (ToolApproval,
AgentSegment).

Definitions marked *Variant* are the mutants: plausible bugs of the code that the
properties are tested with. No specification uses them.

```
HumanTask ──┐                     AgentBudget <── AgentWorkflow    Admission
            ├── ToolApproval       (abstract)      (implements)    Conversation
ToolGateway ┘   (composes both,                                    EvaluationRun
                 implements ToolGateway)                           AgentSegment
```

### HumanTask

`task` is the `human_task` table (status, kind, tool call in the payload, response),
`log` the status column of `tool_call_log`, `inbox` the two maps in which a workflow's
signal handlers keep the first decision and response per task, `audit` the events.

`Begin` is the service's own read (`wasPending`), `LoadDecide` / `LoadRespond` the
repository's read with its early returns, `WriteDecide` / `WriteRespond` its UPDATE
(by primary key only), then `UpdateToolCallLog`, `Signal`, `AppendAudit`. Two facts
decide everything: the repository returns a decided row silently, and the service then
goes on with *its own* verdict whenever its *own* read found the row pending.
The statuses `created` and `assigned`, which nothing writes, are read as pending in the
code and left out. A (response, key) pair is one value of `Responses`.

### ToolGateway

`preview`, `commit` and `invoke` share one handler record; a request stands for one HTTP
call and a client's retry is another request with the same content. `idem` holds the
idempotency records by store key (tool, operation, key) with the fingerprint of the request,
`reserved` the evaluation reservations. `approvals` is what
`findApprovedForToolCall` would return, moved by the environment (`Approve`, `Overrule`,
`LogDecision`); `ToolApproval` shows that the rest of the system does no more.
`effects` and `granted` are history: adapter runs and tool calls ever approved.
The checks of manifest, tenant policy and risk read immutable data, so they are one action;
which tools they refuse is the constant `Refused`. Audit events are left out. Since `Fresh`
draws unused ids, ids are as unique as `randomUUID`.

### ToolApproval

The workflow's L3 step: `SendPreview` .. `CommitReturns`, with the variables of HumanTask and
ToolGateway and both modules as instances (`H`, `G`). `log` is the table they share, and
`approvals` is no variable here: it is substituted by the definition `Approvals` on the rows of
`human_task`. The workflow sees only what it was signalled, the gateway only the rows.
An attempt of an activity that times out goes on: a gateway request runs to its end, and a
`createHumanTask` may insert its row later (`StrayInsert`). `task_run.status` and the
audit trail of the step are left out.

`wf.caller` is who takes the step. An agent's activities have `maximumAttempts`
(`PI_ACTIVITY_OPTIONS`: `MaxAttempts`), a flow's have only `startToCloseTimeout`
(`config-driven-workflow.ts:79`), so `RetryFrom` gives up for an agent and never for a flow.
What is retried is what throws (`Thrown`): a lost request, an adapter that threw, and the
answer `TOOL_ADAPTER_NOT_SUPPORTED` of a tool that cannot commit. A denied answer is
returned by the tool client and ends the step.

### Admission

`slot` and `attached` are the `tenant_agent_admission` row, `taskRun` the status of the
task, `api`, `run`, `pass` the three programs that move them. `Reserve` is one transaction
under the tenant's advisory lock; the other updates are guarded by `WHERE status IN (...)`.
Each task has its own `Limit`: the policy snapshot it was resolved with. A workflow that waits
for a human, or retries an activity that has no maximum of attempts, is `stalled` (`Stall`,
`Resume`): it is open, keeps its slot, and the command passes over it. Its task_run may say
`waiting_user` or `waiting_human`, which every reader here treats as `running`.
`Finalize` includes the run that was
reported completed, throws for want of a final text and is reported failed.
The command's passes are modelled for each candidate by itself, and every row counts as
stale, so it may run at any time; a pass forgets what it read when it has decided. Only tenants with an effective policy have admission; the
others have no row and nothing to check.

### AgentWorkflow and AgentBudget

One agent run over all its workflow runs. `ledger`, `index`, `charged`, `target` are the
workflow's memory, `input` what the current workflow run was started with; `ContinueAsNew`
writes the memory into `input` and `Begin` reads it back. The kind of boundary a segment stops
at, its turns, and whether tokens, time or context bytes are spent are the model's and the
clock's choice. A tool call is charged before it is allowed or denied, as in
`executeProposedTools`. `work` is history: what was really done, counted where it is done
and not where the ledger is kept.

`AgentBudget` is what a budget promises, told without workflow runs, ledger or boundaries: so
many segments, tools and handoffs, no segment once the turns are spent, nothing after the end.
`AgentWorkflow` implements it (`KeepsToBudget`). Only the turns of the last segment may
exceed the budget: `stopped_by_budget` is decided when they have been spent.
Left out: `toolIdentity`, by which a proposal resolved in an earlier segment is recognized, and
the audit trail. The L3 step is one decision here and is `ToolApproval` in full. A child agent
may wait for its own user or fail at any time, so `ChildEnds` is promised by nobody.

### AgentSegment

One segment, which `AgentWorkflow` takes as one step: the attempts of `runPiSegmentActivity`.
`log`, `rows` and `step` are the tables `model_call_log`, `model_call_attempt` and `agent_step`,
`attempt` the attempts with their program counters, `told` what the workflow got. The messages of
an attempt are `hist`, the answers it was given so far: they are what the request hash tells
apart. Replaying is deterministic, so the rest of a result (boundary, usage, budget) follows from
`hist` and is left out; a snapshot is known by the attempt that made it. Each statement of
`callModelWithLedger` is an action: `CreateOrGet`, `NextIndex`, `MarkRunning`, `StartAttempt`,
`Call`, `CompleteAttempt` / `RefuseAttempt`, `MarkSucceeded` / `MarkFailed`, then `Persist`,
`CreateStep`, `Return` of the activity and `UpdateStep` of the workflow. Which errors are tried
again, and which go to the next target, is the policy's choice. `failed`, `timed_out` and
`cancelled` are one status: nothing tells them apart. `Retry` starts the next attempt when
the last one has thrown, died or taken too long; in the last case the old one goes on, `Abort`
reaches it at some time or never, and `overlapped` remembers that the two ran side by side.
After how many turns an agent stops is the model's doing (`More`: answers none of whose tools
could be deferred). Left out: the cancellation of the workflow in the middle of a segment.

### Conversation

A message, its turn, its reply and its task share a key: the `client_message_id`. `req` are the
POST requests, each of them for any message, so a message may be sent again at any moment.
`ReadContext` is separate from `CreateTurn`, which is one transaction under the conversation's
lock; a turn remembers the turns of its context. `RouteTask`, `StartWorkflow`, `FailStart`,
`FinalizeNow` are the rest of the request; a start may throw although the workflow runs,
and then both finalize the reply. A finalization writes whatever the row holds.
`ContextNow` selects in pairs from the end of the conversation, two steps at a time, as
`selectConversationContext` does: one turn without a completed reply shifts the pairs.
`GenericAgentWorkflow`, the fallback, reports its task and knows nothing of the reply. A flow may
stall in its run (`stalled`), for a decision or over an activity that keeps failing. Its result
`waiting_human` (`config-driven-workflow.ts:165`) is left out because it does not occur: the flow waits
inside for a decision, which is made once it is signalled, and an agent returns no waiting status.

### EvaluationRun

`run` is the `evaluation_run` row's status, `result` the case rows, `creator` and `canceller`
the two requests, `wf` and `case` the program counters of the workflow and its children.
Cases run in batches of `Width`. A cancellation marks the row first (`RequestCancel`) and asks
Temporal afterwards (`AskTemporal`), if at all. `asked` throws the workflow out of any step that
is not shielded (`ScopeCancelled`); an activity already scheduled goes on (the code's default
TRY_CANCEL), which `late` keeps until `LateEffect`. A gate decision is written once per
candidate and policy version, and is what the publication reads, with an override of it.
The `WHERE status` of each UPDATE is an operator (`MarkedRunning`, `Completed`, `Failed`,
`Cancelled`). A failed hard gate and a system error are one value, `violated`: the aggregate
treats them alike. Left out: datasets, cases and plans, which are drafts published once;
comparison reports and the metrics of one case.

## 3. What is checked

State spaces are bounded by the sets of calls, requests, tasks and versions and by counts
of faults; nothing else is cut off. `CHECK_DEADLOCK FALSE` because every system stops when
all calls have been answered.

| Run | Instance | What it shows |
|---|---|---|
| `human_task` | 2 tasks, 1 tool call, 2 calls, 2 responses, 1 loss | `UntoldDecisionIsAttended`, `SignalFollowsDecision`, `SoleDeciderStands`, `UnopposedVerdictStands`, `RivalAnswersOverlapped`, `DecisionReachesWorkflow` |
| `tool_gateway` | 3 requests, 5 tools, 3 tool calls, 1 loss | `EffectOnlyAfterApproval`, `AnsweredKeyIsFinal`, `OneResultPerKey`, `EvaluationWithinLimit`, `CommittedMeansExecuted` |
| `tool_gateway_repeat` | 3 requests | *violated:* `NoRepeatedEffect` |
| `tool_approval` | 2 rows, 2 tool calls, 2 clicks, 3 requests, a failure of each kind | the composition implements `ToolGateway` (`GatewaySpec`), `CompletedMeansEffect`, `SoleApprovalStaysCommitted`, `EffectNeedsBothConsents` |
| `tool_approval_live` | 1 row, 1 click, 4 requests, a lost click, a timeout | `DecisionEndsStep` |
| `tool_approval_retry` | 1 row, 4 requests, nothing lost | *violated:* `CommitsAreLimited` |
| `admission` | 2 tasks, 1 slot, 1 fault | `HeldWithinLimit`, `RunningHoldsSlot`, `ReconciledWorkIsOver`, `SlotNeverRevived`, `StrandedSlotsCostFaults`, `AcknowledgedSlotIsAttended`, `AcknowledgedSlotReturns` |
| `agent_workflow` | 4 segments, 4 turns, 3 tools, 1 handoff; a new workflow run after every 2 segments; 1 fault | `LedgerIsExact`, `KeepsToBudget` (implements `AgentBudget`), `AgentReports` |
| `agent_evaluation_context` | the same, an evaluated agent | *violated:* `EvaluationStaysSandboxed` |
| `conversation` | 2 messages, 3 requests, archiving, 1 fault | `OneTurnAtATime`, `ContextHolds`, `ReplyMatchesTask`, `QueuedReplyIsAttended`, `TurnEnds` |
| `evaluation_run` | 1 run, 3 cases two at a time, 1 cancellation, 1 fault, an override | `PublishedOnWholeEvidence`, `UnreportedRunIsAttended`, `ReportIsFinal`, `RunEnds` |
| `agent_segment` | 2 attempts, 2 turns, 2 targets, 2 calls per target, 2 faults | `HistoriesAgree`, `ToldIsRecorded`, `StepDescribesSegment`, `AttemptsAreCounted`, `RecordedAnswerStays` |

`TypeOK` is in no run: it is proved of every module (§4).

The four `...Attended` invariants are the safety side of liveness. What must still happen (a
decision told, a slot given back, a turn answered, a run reported) is at every moment in the hands
of a named actor, or of one that was lost in a way the code does not recover from, or waits
for somebody who need not come; and the actor has a next step (`HandlersGoOn`, `SlotKeepersGoOn`, `TurnKeepersGoOn`, `RunKeepersGoOn`, which
use `ENABLED`). So a stuck handler shows as an ordinary counterexample. `StrandedSlotsCostFaults`
is the same question for slots: those that no workflow, request or pass of the command can ever
give back are never more than the faults there were, so capacity does not leak by itself.

**Why the bounds are enough to be interesting.** Two overlapping handlers are what every race of
this code needs; a third is the late one that must not disturb: the replay
after a pair of overlapping commits, the commit after a preview (ToolGateway), the message sent
again (Conversation). Two tasks with
one tool call are what a retried createHumanTask leaves behind. Two tasks and one slot
are the smallest contention (a stalled workflow keeps the other task out), and one fault is a lost
start, release, workflow or description of it; that several faults together do no more is proved, for
any `MaxFaults`. In `tool_approval_live` a `createHumanTask` whose timed-out attempt took the one row
cannot be tried again: rows left behind are in `tool_approval`.
One failure of each kind in `tool_approval` gives a retry of every activity with
its earlier attempt still running, by an agent and by a flow. The gateway's contents include
two bodies under one key, a tool that cannot commit, one that is refused, an L4 tool, and two
invokes of one case under a limit of one. Four segments and a threshold of two make the agent
continue as new with work behind it and before it, and each budget can be the one that runs
out. Three cases in batches of two leave a case unstarted when the run is cancelled, and one
fault is an attempt that takes effect after the run was reported. Two
attempts of a segment with two faults are a crash or a timeout with one more failure on either
side of it, and two different first answers make their second turns differ; the code's third
attempt meets the same rows as the second. Every property of a passing run is proved as
well, so the bounds matter for what the proofs of liveness assume (§4) and for the findings.

**What the violated runs say.** Three sentences of the repository's documents do not hold, quoted in
`PROJECT.json`: overlapping commits with one key both run the adapter; an
evaluated agent that continues as new is no longer marked as one, so that its tools are called as a
user's; and a flow's activities have no maximum of attempts, so that a commit which can never succeed
(the tool's adapter has none) is sent for ever, without any fault. The instance shows the first request
beyond the maximum that agents have; that there is no maximum at all is `RetryFrom`.

**What the exceptions in passing properties say.** Elsewhere the code does less than
one would wish, and a property says exactly how much less:

- a decision is stored and never signalled if its handler is lost after the write
  (`DecisionReachesWorkflow`); a second request finds the row decided and sends nothing. `LostOn`
  excepts a task with *any* lost handler: it does not tell one lost after its write from others;
- a decision ends the step, but a flow whose commit failed once may send it for ever
  (`Retrying` in `DecisionEndsStep`);
- two different responses may both be accepted, but only if their handlers overlapped
  (`RivalAnswersOverlapped`);
- an adapter may run for a tool call whose human task is rejected in the end, but only if an
  approval did reach both the workflow and the row (`EffectNeedsBothConsents`);
- a workflow may run without a slot, but only if its start was reported as failed
  (`RunningHoldsSlot`, `HeldWithinLimit`); a slot may be held by nobody for ever, but each one
  cost a fault (`StrandedSlotsCostFaults`). Without any fault, a slot is kept for as long as its
  workflow is stalled: nothing limits a wait for a human (no `workflowExecutionTimeout`, no timer), and the
  command passes over an open workflow (`AcknowledgedSlotReturns`);
- an evaluation run may stay unreported, but only if its creator died or its workflow was
  cancelled, or failed again, in its own catch block (`UnreportedRunIsAttended`, `RunEnds`);
- a reply may say what its task does not, and a context may lose a message, but only if a call
  was lost (`ReplyMatchesTask`, `ContextHolds`); a turn that fell back on the generic agent is
  never answered, nor is one whose flow stalls for ever (`TurnEnds`), and until a turn is
  answered the conversation takes no other message;
- an agent may stay unreported for as long as it waits for a decision, its user or its child
  (`AgentReports`);
- the ledger of a segment may lose an answer the workflow acts on, and the step may list tools it
  does not run, but only if an attempt was given up while it was running (`overlapped` in
  `ToldIsRecorded`, `RecordedAnswerStays`, `AttemptsAreCounted`, `StepDescribesSegment`) or one
  of the attempts failed; two attempts can never both get past a turn they were answered
  differently in (`HistoriesAgree`);
- `AnsweredKeyIsFinal` is what is left of idempotency: final once somebody was answered.

**Fairness.** `FairSpec` is weak fairness of one handler's or workflow's steps: the Node event
loop resumes a handler after each await, Temporal runs a workflow task and its next
attempt. In Admission requests need not even be fair. Clients need not call, nobody need decide or answer a task, nothing need fail, time out,
be cancelled or archived. No wait for a human is assumed to end, nor any loop of retries without a
maximum: `Resume` (Admission, Conversation), `GenericEnds`, `ChildEnds` and the decisions are outside
every fairness condition, and the properties except who is there (the list above). That the steps between
two such waits are taken does assume that their own database calls succeed some time. In `evaluation_run` the request that creates a run, the run's workflow and each
case are fair by themselves (`FairCreator`, `FairRun`, `FairCase`): a case is a child workflow with
its own history, which Temporal schedules whatever its parent and its siblings do, and its
`workflowExecutionTimeout` ends it if an activity does not. In
Admission one assumption goes further than the code: the operator keeps running the reconcile command
with batches that hold every row. Without it the slot of a terminated workflow is never
freed, which is how `governance.md` describes the command.

## 4. What is proved

All theorems hold for any values of the constants that satisfy the modules' named assumptions
(`ResponsesAssumption`, `GatewayAssumption`, `StepAssumption`, `AdmissionAssumption`,
`AgentAssumption`, `AgentSegmentAssumption`, `ConversationAssumption`, `EvaluationAssumption`;
TLC evaluates them in every run of those modules), so for any number of handlers, tasks, tools,
cases and faults.
The sets of tasks, requests and tool calls need not be finite except where cardinalities are
compared; there finiteness is an assumption or proved from the invariant.

**HumanTaskProofs** — `TypeOK`, `SignalFollowsDecision`, `SoleDeciderStands`,
`UnopposedVerdictStands`, `RivalAnswersOverlapped`. The invariant says
for each program counter what its handler has already written (row before log before signal before
audit), that a decided row stays decided, that a decided row was written by a handler that
found it pending, and that a handler past its write that is alone on its subject
still finds its verdict wherever it wrote it. *Alone* is stable: a handler that begins later
finds the row decided. For the last two properties a second invariant, `Origin`, says where
everything came from: a verdict in a row, in the log or under way was asked for by a call on that
row or tool call, and a stored or accepted response by one that found the row pending. A third,
`Told`, says who is about to signal a decision the workflow has not heard of; `DecisionsAreAttended`
is its direct consequence and `DecisionsArrive` the liveness that follows.

**ToolGatewayProofs** — `TypeOK`, `EffectOnlyAfterApproval`, `AnsweredKeyIsFinal`,
`OneResultPerKey`, `EvaluationWithinLimit`, `CommittedMeansExecuted`. The invariant ties each
program counter to the checks passed on the way: a handler at the adapter of an L3 tool is a commit of
an approved call; a handler with a success is the one its key's record names; a *late* handler
meets that record at its first step; an evaluation handler past its reservation holds a row, and the rows of a
case stay within the limit, so its effects do.

The second part of the module is what a client may rely on, from the same invariant and two more
facts (a record holds the result of a request whose adapter ran, with its question; a preview that is
not denied has left a log row): every result, a replayed one too, stands for an adapter run
that was asked the same (`ResultMeansEffect`). `Lasting` collects what no step takes back.

**ToolApprovalProofs** — `TypeOK`, `GatewayRefined` (`Spec => GatewaySpec`),
`EffectNeedsBothConsents`, `CompletedMeansEffect`, `SoleApprovalStaysCommitted`. Step by step: what the workflow
sends is an `Arrive`, a decision's write is an `Approve`, an `Overrule` or a stutter, its log update a
`LogDecision`, everything else of runtime-api and the workflow a stutter. An approval is
allowed only of a logged L3 call, so the invariant says that every `human_task` row is about
a logged tool call, which is what a preview leaves behind. The refinement carries the gateway's
invariants over, and the rest needs two more facts: commits carry the step's own tool call, and
from the commit on an approval of the awaited row has been signalled. The first decision is kept,
so that stays true. The module's instance `GP` is the gateway with its proofs, the module's `G` the
gateway of the model; `SameNames`, `SameSteps`, `SameDecisions` say that they are the same.

`SoleApprovalStaysCommitted` has an invariant of its own, `SoleInv`, because two services write one
`tool_call_log` row. On the side of runtime-api (`DecisionInv`) a handler that is alone on its tool
call finds its row as it left it, and whatever the workflow was told, a decider told it *after* its own
log update. So once a commit is under way the sole decider no longer writes the log, and its approval
is in the row. On the side of the gateway (`ReplyInv`, `SettledInv`) such a commit is therefore not
denied, and among commits of this call only one whose adapter returned writes the log. A decider
that begins later can only make deciders rivals, never the other way round, which is why the
property may speak of the deciders of the present state.

`DecisionsEndSteps` is `DecisionEndsStep` in two halves: a decided row is with a handler that is
about to signal it (`OnTheWay`, as in HumanTaskProofs), and a step that was told goes on to its
commits, each of which goes through the stages of the gateway in one direction (`After`). An agent's
attempts are counted in the stages, one after the other, which is why the theorem is for
`MaxAttempts <= 4` (the code has 2 for a commit, 3 for a preview, 4 for a row); a flow is followed to its second attempt, where `Retrying` holds.
It does not assume that retries come to an end.

**AdmissionProofs** — `TypeOK`, `HeldWithinLimit`, `RunningHoldsSlot`, `ReconciledWorkIsOver`,
`SlotNeverRevived`.
`HeldWithinLimit` is not inductive: the holder with the greatest limit may leave. Its
strengthening is that *every* nonempty set of holders has a member whose limit covers that set; it
survives a release because it speaks of all subsets, and a reservation because
the new holder's limit covers all. `ReconciledWorkIsOver` needs that a status which a pass
has read is terminal only if the workflow has got past its work, which stays so.
`StrandedSlotsCostFaults` is a count: each stranded slot belongs to a request that met a fault of its
own, and a step that strands a slot spends one (`StrandedSlotsAreFaults`).
`AcknowledgedSlotsReturn` follows a slot through the workflow, to its end or to a stall, and, once it is
closed, through two passes of the command: one that may still hold what it read before, and one that
reads now. That a stalled workflow goes on is not assumed.

**AgentWorkflowProofs** — `TypeOK`, `LedgerIsExact`, `AgentKeepsToBudget` (`Spec =>
KeepsToBudget`). The invariant adds to the exact ledger that tools and children which ran are
covered by proposals and handoffs within the budget, and what was checked when a tool was
charged, for as long as that tool waits for its approval, and what the two rows say once they are
written (`Reported`). Each action is then a
step of `AgentBudget` or a stutter: Continue-As-New is a stutter because the ledger is exact.

**ConversationProofs** — `TypeOK`, `OneTurnAtATime`, `ContextHolds`, `ReplyMatchesTask`. The
invariant: a turn is owned by at most one request, a queued reply is the only one, turns are numbered from one
without gaps, and, *without lost calls*, a turn is moved by its request or by its workflow and
never by both, so that its owner finds the reply as it left it. For `QueuedRepliesAttended` and
`TurnsEnd`: a turn without a final reply still has that owner, or was given up, or its flow is
stalled; that the flow goes on is not assumed.

**EvaluationRunProofs** — `TypeOK`, `PublishedOnWholeEvidence`, `ClosedRunReported` (a workflow
that closed has reported), `ReportIsFinal`. The invariant follows a decision back: what was published rests on a decision
(or an override), a decision on the rows of all cases, because the gate is reached, by the
workflow or by an attempt that outlived it, only once every case was joined, and a joined case
keeps a scored row whatever late attempts write over it. `Hands` says in whose hands an
unreported row is, for `RunsAreAttended`.

**AgentSegmentProofs** — `TypeOK`, `HistoriesAgree`, `ToldIsRecorded`, `StepDescribesSegment`,
`AttemptsAreCounted`, `RecordedAnswerStays`. `Base` holds of all interleavings: an attempt goes on
only with answers that the ledger was asked for with its history, and the request in a row never
changes once written, so two attempts agree even if they ran side by side. `Solo` is about
executions in which no attempt began beside another: the one that runs is alone, its answers and
those the step was written for are in the ledger and stay there, and the index of its next call is
past every call of the turn.
Two segments that ended whole have every turn in the ledger, so they are equal: this is why a repeated attempt
may rewrite the step.

**Liveness.** Every temporal property that a run checks is also a theorem:

| Theorem | Property | Hypotheses besides `Spec` and `Fairness` |
|---|---|---|
| `DecisionsArrive` | `DecisionReachesWorkflow` | `HandlersGoOn` |
| `DecisionsEndSteps` | `DecisionEndsStep` | `StepGoesOn`, and `MaxAttempts <= 4` |
| `AcknowledgedSlotsReturn` | `AcknowledgedSlotReturns` | `SlotKeepersGoOn`, `Describable` (describe of Temporal does not fail for ever) |
| `TurnsEnd` | `TurnEnds` | `TurnKeepersGoOn` |
| `RunsEnd` | `RunEnds` | `RunKeepersGoOn`, `BatchesEnd` (the cases of a run are over some time) |
| `CasesEnd` | every case is over some time | `RunKeepersGoOn` |
| `AgentsReport` | `AgentReports` | `StepGoesOn`, `Settles` (segments and proposals are finitely many) |

All of them are proved backwards: the stages of an actor are ordered (`Succ`, `After`), a stage whose
successors all lead to the goal leads there itself, and the last stage is the goal. Each such step is
one invariant about one action, one `ENABLED` fact and one application of weak fairness.
The hypotheses are of three kinds, and each is there because TLAPS 1.4.5 cannot discharge it:

- *ENABLED*: there is no reasoning about it, so that an actor with something to do can take its step is
  assumed. TLC checks just this, in the `...IsAttended` invariants for the first four of the
  `...GoOn`, and for the two `StepGoesOn` through the temporal property itself, which a step
  that cannot be taken violates.
- *Counting*: there is no induction over a number of steps, so that a loop is left is assumed:
  `Settles`, `BatchesEnd` and `Describable` say that segments and proposals, batches and failing
  describes come to an end. The first two are bounded in the code (the
  budgets, the number of cases) and hold in the runs, where they follow from the property that is
  checked; the last is `MaxFaults` in the model and an assumption on the service in the code.
  `BatchesEnd` is what `CasesEnd` gives of each case, added up over the cases.
- *`[]Fairness`* in place of `Fairness` where one of several handlers does the work: the two are
  the same, fairness does not depend on the moment, but tlapm cannot exchange the quantifier and
  the box.

Only model-checked: these hypotheses, as far as said, and the violations.

## 5. What is left

In this order: the registry, whose `transition` writes status and content of a version by key, after
an edit may have changed both (`registry.ts:512`); the cancellation of a workflow in the middle of a
segment; `task_run.status` in ToolApproval and AgentWorkflow (a late `waiting_human` over a
terminal status); batches in Admission, where skipped rows may starve later ones;
datasets and evaluation plans; the identity of tools resolved in an earlier segment. The hazards that wait for these are in `PROJECT.json` with a note.

## 6. Not modelled

Routing, JSON schemas, argument resolution and conditions of flows (pure data); tool adapters, the
model protocols and the context codec (I/O; an adapter appears as one that runs, or throws before or after
its effect, a model as one that answers or fails); tenant policy snapshots (immutable: constants of the
modules); authentication; audit trails except those of decisions; the UI, mock servers, seeding and
scripts; comparison reports and metrics, which are computed once from immutable rows.
