---------------------------- MODULE ToolApproval ----------------------------
(***************************************************************************)
(* One L3 tool step of a workflow, from preview to commit: the workflow    *)
(* (executeFlowSpec in configDrivenWorkflow, executeProposedTools in       *)
(* piDurableAgentWorkflow) composed with HumanTask (runtime-api and the    *)
(* decision signals) and ToolGateway (preview and commit).                 *)
(*                                                                         *)
(* The workflow calls the other parts through Temporal activities. An      *)
(* attempt of an activity may fail, or time out and go on unattended, and  *)
(* the next attempt does everything again: a retried preview draws a new   *)
(* tool_call_id, a retried createHumanTask inserts a second row. A commit  *)
(* has the same idempotency key in every attempt. An agent's activities    *)
(* have a maximum of attempts; a flow's have none, so Temporal retries     *)
(* them until one succeeds or fails for good.                              *)
(*                                                                         *)
(* The status of the task_run and the audit trail of the step are left out.*)
(***************************************************************************)
EXTENDS Naturals, FiniteSets

CONSTANTS
  HumanTasks, ToolCalls, HttpCalls, Requests, Tools, Mock, Refused, None,
  MaxAttempts,      \* maximumAttempts of an agent's activities (PI_ACTIVITY_OPTIONS:
                    \*   2 to 4); configDrivenWorkflow sets none
  MaxTimeouts,      \* bound: attempts that time out
  MaxLostCalls,     \* bound: handlers of runtime-api lost half way
  MaxLostRequests   \* bound: handlers of tool-gateway lost half way

ASSUME StepAssumption ==
  /\ None \notin HumanTasks \cup ToolCalls \cup HttpCalls \cup Requests
                  \cup {"approved", "rejected"}
  /\ Mock \subseteq Tools /\ Refused \subseteq Tools
  /\ MaxAttempts \in Nat \ {0}
  /\ MaxTimeouts \in Nat /\ MaxLostCalls \in Nat /\ MaxLostRequests \in Nat

VARIABLES
  \* HumanTask
  task, log, inbox, call, audit, lostCalls,
  \* ToolGateway (log is shared)
  handler, logTool, idem, reserved, effects, granted, lostRequests,
  \* the workflow
  wf,         \* program counter and locals of the step
  strays,     \* createHumanTask attempts that timed out before their insert
  timeouts

humanVars    == <<task, inbox, call, audit, lostCalls>>
gatewayVars  == <<handler, logTool, idem, reserved, effects, lostRequests>>
workflowVars == <<wf, strays, timeouts>>
vars == <<humanVars, log, gatewayVars, granted, workflowVars>>

\* DbHumanTaskLookupStore.findApprovedForToolCall, on the rows as they are.
Approvals ==
  {k \in ToolCalls : \E t \in HumanTasks : task[t].status = "approved"
                                         /\ task[t].toolCall = k}

\* The idempotency key is per agent step or task run and tool; for a commit it
\* holds the tool_call_id. previewToolActivity and commitToolActivity.
PreviewOf(tool) == [op |-> "preview", tool |-> tool, key |-> None, body |-> None,
                    case |-> None, call |-> None]
CommitOf(tool, k) == [op |-> "commit", tool |-> tool, key |-> k, body |-> None,
                      case |-> None, call |-> k]
Contents == {PreviewOf(tool) : tool \in Tools}
              \cup {CommitOf(tool, k) : tool \in Tools, k \in ToolCalls}

H == INSTANCE HumanTask WITH
       Tasks <- HumanTasks, Calls <- HttpCalls, Responses <- {},
       CrossKind <- FALSE, MaxFaults <- MaxLostCalls, faults <- lostCalls

G == INSTANCE ToolGateway WITH
       Cases <- {}, Unlimited <- {}, Risk <- [tool \in Tools |-> "L3"],
       EvalMode <- [tool \in Tools |-> "deny"], EvalLimit <- [tool \in Tools |-> 0],
       MaxFaults <- MaxLostRequests, faults <- lostRequests, approvals <- Approvals

Callers == {"agent", "flow"}

Start(tool, caller) == [pc |-> "preview", tool |-> tool, caller |-> caller,
                        request |-> None, toolCall |-> None, awaited |-> None,
                        attempt |-> 1, outcome |-> "none"]

Init ==
  /\ task   = [t \in HumanTasks |-> H!AbsentRow]
  /\ inbox  = [t \in HumanTasks |-> [decision |-> None, response |-> None]]
  /\ call   = [c \in HttpCalls |-> H!IdleCall]
  /\ audit  = {} /\ lostCalls = 0
  /\ G!Init
  /\ wf \in {Start(tool, caller) : tool \in Tools, caller \in Callers}
  /\ strays = 0 /\ timeouts = 0

-----------------------------------------------------------------------------
\* Steps of the other two parts.
HumanStep(c) ==
  /\ H!Step(c)
  /\ granted' = granted \cup Approvals'
  /\ UNCHANGED <<gatewayVars, workflowVars>>

Click(c, t, v) ==
  /\ H!Begin(c, t, v)
  /\ UNCHANGED <<gatewayVars, granted, workflowVars>>

LoseCall(c) ==
  /\ H!Lose(c)
  /\ UNCHANGED <<gatewayVars, granted, workflowVars>>

GatewayStep(r) ==
  /\ UNCHANGED <<humanVars, workflowVars>>
  /\ G!Step(r)

LoseRequest(r) ==
  /\ UNCHANGED <<humanVars, workflowVars>>
  /\ G!Lose(r)

-----------------------------------------------------------------------------
\* Steps of the workflow.
Elsewhere == UNCHANGED <<humanVars, log, gatewayVars, granted>>

Finish(outcome) == wf' = [wf EXCEPT !.pc = "done", !.outcome = outcome]

\* An attempt failed: Temporal starts the next one, for a flow always; or the
\* activity fails and the step with it.
RetryFrom(pc) ==
  IF wf.caller = "agent" => wf.attempt < MaxAttempts
    THEN wf' = [wf EXCEPT !.pc = pc, !.request = None, !.attempt = @ + 1]
    ELSE Finish("failed")

\* tool-client throws. classifyActivityFailure takes the message for a failure
\* for good when it holds one of its words, and lets Temporal retry otherwise.
Thrown(pc) == RetryFrom(pc) \/ Finish("failed")

Send(content, pc) ==
  /\ UNCHANGED humanVars
  /\ \E r \in Requests :
       /\ G!Arrive(r, content)
       /\ wf' = [wf EXCEPT !.pc = pc, !.request = r]
  /\ UNCHANGED <<strays, timeouts>>

Answered == handler[wf.request].pc = "answered"
Reply    == handler[wf.request].answer

SendPreview == wf.pc = "preview" /\ Send(PreviewOf(wf.tool), "previewing")

PreviewReturns ==
  /\ wf.pc = "previewing" /\ Answered
  /\ CASE Reply = "error"  -> Thrown("preview")
       [] Reply = "denied" -> Finish("failed")
       [] OTHER -> wf' = [wf EXCEPT !.pc = "create", !.attempt = 1, !.request = None,
                                    !.toolCall = G!Call(wf.request)]
  /\ Elsewhere /\ UNCHANGED <<strays, timeouts>>

\* Variant: the row is for another tool call.
InsertTaskOfAnyCall(t) ==
  /\ wf.pc = "create"
  /\ \E k \in ToolCalls : H!CreateTask(t, "approval", k)
  /\ wf' = [wf EXCEPT !.pc = "created", !.awaited = t]
  /\ UNCHANGED <<inbox, call, audit, lostCalls, log, gatewayVars, granted,
                 strays, timeouts>>

\* createHumanTaskActivity: HumanTaskRepository.create, then the rest of the
\* attempt (task_run status, audit) and its return to the workflow.
InsertTask(t) ==
  /\ wf.pc = "create"
  /\ H!CreateTask(t, "approval", wf.toolCall)
  /\ wf' = [wf EXCEPT !.pc = "created", !.awaited = t]
  /\ UNCHANGED <<inbox, call, audit, lostCalls, log, gatewayVars, granted,
                 strays, timeouts>>

CreateReturns ==
  /\ wf.pc = "created"
  /\ wf' = [wf EXCEPT !.pc = "wait", !.attempt = 1]
  /\ Elsewhere /\ UNCHANGED <<strays, timeouts>>

\* Variants: any decision starts the commit; only an approval wakes the step.
DecisionArrivesUnread ==
  /\ wf.pc = "wait"
  /\ inbox[wf.awaited].decision # None
  /\ wf' = [wf EXCEPT !.pc = "commit"]
  /\ Elsewhere /\ UNCHANGED <<strays, timeouts>>

DecisionArrivesIfApproved ==
  /\ wf.pc = "wait"
  /\ inbox[wf.awaited].decision = "approved"
  /\ wf' = [wf EXCEPT !.pc = "commit"]
  /\ Elsewhere /\ UNCHANGED <<strays, timeouts>>

\* condition(() => decisions.has(humanTaskId)).
DecisionArrives ==
  /\ wf.pc = "wait"
  /\ inbox[wf.awaited].decision # None
  /\ IF inbox[wf.awaited].decision = "approved"
       THEN wf' = [wf EXCEPT !.pc = "commit"]
       ELSE Finish("failed")
  /\ Elsewhere /\ UNCHANGED <<strays, timeouts>>

SendCommit == wf.pc = "commit" /\ Send(CommitOf(wf.tool, wf.toolCall), "committing")

\* Variant: whatever is not an error is a success.
CommitReturnsAnything ==
  /\ wf.pc = "committing" /\ Answered
  /\ CASE Reply = "error"       -> Thrown("commit")
       [] Reply = "unsupported" -> RetryFrom("commit")
       [] OTHER                 -> Finish("completed")
  /\ Elsewhere /\ UNCHANGED <<strays, timeouts>>

\* tool-client hands a denial or a conflict to the workflow, which fails the step.
\* It throws for an adapter that cannot commit, with a message that holds none
\* of the words: that commit is retried although it can never succeed.
CommitReturns ==
  /\ wf.pc = "committing" /\ Answered
  /\ CASE Reply = "error"                      -> Thrown("commit")
       [] Reply = "unsupported"                -> RetryFrom("commit")
       [] Reply \in {"committed", "replayed"}  -> Finish("completed")
       [] OTHER                                -> Finish("failed")
  /\ Elsewhere /\ UNCHANGED <<strays, timeouts>>

\* An attempt times out. What it started goes on: a request of the gateway runs
\* to its end, a createHumanTask may still insert its row.
TimeoutOfRequest ==
  /\ wf.pc \in {"previewing", "committing"} /\ ~Answered
  /\ RetryFrom(IF wf.pc = "previewing" THEN "preview" ELSE "commit")
  /\ UNCHANGED strays

TimeoutOfCreate ==
  /\ wf.pc \in {"create", "created"}
  /\ RetryFrom("create")
  /\ strays' = IF wf.pc = "create" THEN strays + 1 ELSE strays

Timeout ==
  /\ timeouts < MaxTimeouts
  /\ timeouts' = timeouts + 1
  /\ TimeoutOfRequest \/ TimeoutOfCreate
  /\ Elsewhere

StrayInsert(t) ==
  /\ strays > 0
  /\ H!CreateTask(t, "approval", wf.toolCall)
  /\ strays' = strays - 1
  /\ UNCHANGED <<inbox, call, audit, lostCalls, log, gatewayVars, granted, wf, timeouts>>

Workflow ==
  \/ SendPreview \/ PreviewReturns
  \/ \E t \in HumanTasks : InsertTask(t)
  \/ CreateReturns \/ DecisionArrives
  \/ SendCommit \/ CommitReturns

Next ==
  \/ Workflow
  \/ Timeout
  \/ \E t \in HumanTasks : StrayInsert(t)
  \/ \E c \in HttpCalls, t \in HumanTasks, v \in H!Verdicts : Click(c, t, v)
  \/ \E c \in HttpCalls : HumanStep(c)
  \/ \E c \in HttpCalls : LoseCall(c)
  \/ \E r \in Requests : GatewayStep(r)
  \/ \E r \in Requests : LoseRequest(r)

Spec == Init /\ [][Next]_vars

\* Temporal runs the workflow whenever it can go on; the handlers of both
\* services run to their end unless they are lost. Nobody has to decide a task,
\* and no attempt has to time out.
FairWorkflow   == WF_vars(Workflow)
FairCall(c)    == WF_vars(HumanStep(c))
FairRequest(r) == WF_vars(GatewayStep(r))

Fairness ==
  FairWorkflow /\ (\A c \in HttpCalls : FairCall(c)) /\ (\A r \in Requests : FairRequest(r))
FairSpec == Spec /\ Fairness

-----------------------------------------------------------------------------
Locals == [pc       : {"preview", "previewing", "create", "created", "wait",
                       "commit", "committing", "done"},
           tool     : Tools,
           caller   : Callers,
           request  : Requests \cup {None},
           toolCall : ToolCalls \cup {None},
           awaited  : HumanTasks \cup {None},
           attempt  : Nat \ {0},
           outcome  : {"none", "completed", "failed"}]

Step == {s \in Locals : s.caller = "agent" => s.attempt <= MaxAttempts}

\* Every variable has its type; an agent's attempts keep to their maximum.
TypeOK ==
  /\ H!TypeOK
  /\ G!TypeOK
  /\ wf \in Step
  /\ strays \in 0 .. MaxTimeouts
  /\ timeouts \in 0 .. MaxTimeouts

\* What the rest of the system does to the gateway is what ToolGateway assumes
\* of its environment: tool calls are approved and overruled, and their log
\* entries decided, only once the preview of the L3 call has been logged.
GatewaySpec == G!Spec

\* A step that reports completed has run the tool, in a commit of the tool call
\* that the human task it waited for was about.
CompletedMeansEffect ==
  wf.outcome = "completed" =>
    /\ task[wf.awaited].toolCall = wf.toolCall
    /\ \E r \in effects : G!Op(r) = "commit" /\ G!Call(r) = wf.toolCall

\* The handlers that found a task of the tool call still pending.
Deciders(k) ==
  {c \in HttpCalls : call[c].task # None /\ call[c].wasPending
                                         /\ task[call[c].task].toolCall = k}

\* With one such handler nothing is overruled between the decision and the end
\* of the step: the tool_call_log of a completed step says committed and keeps
\* saying it, although runtime-api and tool-gateway both write the row.
SoleApprovalStaysCommitted ==
  wf.outcome = "completed" /\ (\E c \in HttpCalls : Deciders(wf.toolCall) = {c})
    => log[wf.toolCall] = "committed"

\* An effect needs both consents, which travel on different ways: the workflow
\* was signalled an approval first, and the gateway found an approved row of that
\* tool call. Neither a rejection overtaken by an approval nor an approval of an
\* orphaned row is enough.
EffectNeedsBothConsents ==
  \A r \in effects :
    /\ wf.awaited # None /\ inbox[wf.awaited].decision = "approved"
    /\ G!Call(r) = wf.toolCall /\ wf.toolCall \in granted

\* A flow sends its commit again. It does so without limit as long as the commit
\* fails in a way that does not count as a failure for good.
Retrying == wf.caller = "flow" /\ wf.pc \in {"commit", "committing"} /\ wf.attempt > 1

\* A decision on the task that the workflow waits for ends the step, through
\* signal, commit and an agent's retries, unless the handler that decided was lost
\* or a flow's commit has to be retried.
DecisionEndsStep ==
  \A t \in HumanTasks :
    (wf.pc = "wait" /\ wf.awaited = t /\ task[t].status \in H!Verdicts)
      ~> (wf.pc = "done" \/ Retrying \/ H!LostOn(t))

-----------------------------------------------------------------------------
\* What the documents say and the code does not keep.

\* runtime-worker DEV_SPEC.md: an external call has a maximum number of retries.
\* A step sends its commit no more often than the maximum that agents have.
CommitsAreLimited ==
  Cardinality({r \in Requests : handler[r].pc # "idle" /\ G!Op(r) = "commit"})
    <= MaxAttempts

=============================================================================
