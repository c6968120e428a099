----------------------------- MODULE Admission -----------------------------
(***************************************************************************)
(* Admission of agent tasks of one tenant: tenant_agent_admission rows are *)
(* slots, at most max_concurrent_agent_runs of them held at a time.        *)
(*                                                                         *)
(* Three programs move a slot. TaskService (runtime-api) reserves it,      *)
(* creates the task_run, starts the workflow and activates the slot, or    *)
(* releases it when the start fails. The workflow writes its terminal      *)
(* status and releases the slot (updateTaskRunStatusActivity). The         *)
(* reconcile command frees slots that were left behind. They run           *)
(* concurrently and each of their steps is one database or Temporal call.  *)
(***************************************************************************)
EXTENDS Naturals, FiniteSets

CONSTANTS
  Tasks,      \* task runs, each admitted for itself
  Limit,      \* [Tasks -> max_concurrent_agent_runs of the policy snapshot the
              \*   task was resolved with]: the policy may change between tasks
  MaxFaults   \* bound: calls that throw, processes that die, workflows terminated

ASSUME AdmissionAssumption == Limit \in [Tasks -> Nat] /\ MaxFaults \in Nat

VARIABLES
  slot,      \* tenant_agent_admission.status, "none" without a row
  attached,  \* whether the row has a workflow_id
  taskRun,   \* task_run.status, "none" without a row; running stands for
             \*   waiting_user and waiting_human as well
  api,       \* program counter of the request that creates the task
  run,       \* program counter of the workflow
  outcome,   \* what the workflow is going to report
  pass,      \* the reconcile command, for each candidate row
  faults

vars == <<slot, attached, taskRun, api, run, outcome, pass, faults>>

SlotStatus == {"none", "reserved", "active", "released", "rejected", "reconciled"}
Outcomes   == {"completed", "failed"}
TaskStatus == {"none", "queued", "running", "failed_to_start"} \cup Outcomes
ApiPcs     == {"idle", "create", "start", "record", "activate", "release", "mark",
               "refused", "answered", "failed"}
RunPcs     == {"none", "begin", "work", "stalled", "write", "release", "finalize",
               "closed"}
NoPass     == [pc |-> "idle", attached |-> FALSE, terminal |-> FALSE]
Terminal(status) == status \in {"completed", "failed"}

Held(s) == s \in {"reserved", "active"}
Holding == {t \in Tasks : Held(slot[t])}
Started(t) == run[t] # "none"
Open(t)    == Started(t) /\ run[t] # "closed"

Init ==
  /\ slot     = [t \in Tasks |-> "none"]
  /\ attached = [t \in Tasks |-> FALSE]
  /\ taskRun  = [t \in Tasks |-> "none"]
  /\ api      = [t \in Tasks |-> "idle"]
  /\ run      = [t \in Tasks |-> "none"]
  /\ outcome  = [t \in Tasks |-> "failed"]
  /\ pass     = [t \in Tasks |-> NoPass]
  /\ faults   = 0

Fault == faults < MaxFaults /\ faults' = faults + 1

-----------------------------------------------------------------------------
\* TaskService.create and createAgentTask.
ApiGoto(t, pc) == api' = [api EXCEPT ![t] = pc]

\* Variant: only active rows count.
CountedActiveOnly == {t \in Tasks : slot[t] = "active"}

\* activeAdmissionCount.
Counted == {t \in Tasks : slot[t] \in {"reserved", "active"}}

\* Variant: the request goes on whatever reserve answers.
ReserveUnchecked(t) ==
  /\ api[t] = "idle"
  /\ slot' = [slot EXCEPT ![t] = IF Cardinality(Counted) >= Limit[t]
                                   THEN "rejected" ELSE "reserved"]
  /\ ApiGoto(t, "create")
  /\ UNCHANGED <<attached, taskRun, run, outcome, pass, faults>>

\* Variant: the row is written before the count and stays as it is.
ReserveBeforeCount(t) ==
  /\ api[t] = "idle"
  /\ slot' = [slot EXCEPT ![t] = "reserved"]
  /\ ApiGoto(t, IF Cardinality(Counted) >= Limit[t] THEN "refused" ELSE "create")
  /\ UNCHANGED <<attached, taskRun, run, outcome, pass, faults>>

\* reserve, one transaction under the tenant's advisory lock. The task_run_id is
\* new, so there is no row of it yet.
Reserve(t) ==
  /\ api[t] = "idle"
  /\ IF Cardinality(Counted) >= Limit[t]
       THEN slot' = [slot EXCEPT ![t] = "rejected"] /\ ApiGoto(t, "refused")
       ELSE slot' = [slot EXCEPT ![t] = "reserved"] /\ ApiGoto(t, "create")
  /\ UNCHANGED <<attached, taskRun, run, outcome, pass, faults>>

CreateTaskRun(t) ==
  /\ api[t] = "create"
  /\ taskRun' = [taskRun EXCEPT ![t] = "queued"]
  /\ ApiGoto(t, "start")
  /\ UNCHANGED <<slot, attached, run, outcome, pass, faults>>

\* workflowStarter.start. It may throw although Temporal started the workflow.
StartWorkflow(t) ==
  /\ api[t] = "start"
  /\ \/ run' = [run EXCEPT ![t] = "begin"] /\ ApiGoto(t, "record") /\ UNCHANGED faults
     \/ /\ Fault
        /\ ApiGoto(t, "release")
        /\ run' \in {run, [run EXCEPT ![t] = "begin"]}
  /\ UNCHANGED <<slot, attached, taskRun, outcome, pass>>

\* updateWorkflowStart writes what was started into the task_run row.
RecordStart(t) ==
  /\ api[t] = "record"
  /\ ApiGoto(t, "activate")
  /\ UNCHANGED <<slot, attached, taskRun, run, outcome, pass, faults>>

\* Variant: without WHERE status = 'reserved'.
ActivateAny(t) ==
  /\ api[t] = "activate"
  /\ ApiGoto(t, "answered")
  /\ slot' = [slot EXCEPT ![t] = "active"]
  /\ attached' = [attached EXCEPT ![t] = TRUE]
  /\ UNCHANGED <<taskRun, run, outcome, pass, faults>>

\* Variant: the workflow_id is left out.
ActivateUnattached(t) ==
  /\ api[t] = "activate"
  /\ ApiGoto(t, "answered")
  /\ slot' = IF slot[t] = "reserved" THEN [slot EXCEPT ![t] = "active"] ELSE slot
  /\ UNCHANGED <<attached, taskRun, run, outcome, pass, faults>>

\* activate: WHERE status = 'reserved'; sets the workflow_id as well.
Activate(t) ==
  /\ api[t] = "activate"
  /\ ApiGoto(t, "answered")
  /\ IF slot[t] = "reserved"
       THEN /\ slot' = [slot EXCEPT ![t] = "active"]
            /\ attached' = [attached EXCEPT ![t] = TRUE]
       ELSE UNCHANGED <<slot, attached>>
  /\ UNCHANGED <<taskRun, run, outcome, pass, faults>>

\* release: WHERE status IN ('reserved', 'active', 'orphaned'), no status orphaned
\* being ever written.
Release(t) == slot' = IF Held(slot[t]) THEN [slot EXCEPT ![t] = "released"] ELSE slot

ReleaseAfterError(t) ==
  /\ api[t] = "release"
  /\ Release(t)
  /\ ApiGoto(t, "mark")
  /\ UNCHANGED <<attached, taskRun, run, outcome, pass, faults>>

MarkFailedToStart(t) ==
  /\ api[t] = "mark"
  /\ taskRun' = [taskRun EXCEPT ![t] = "failed_to_start"]
  /\ ApiGoto(t, "failed")
  /\ UNCHANGED <<slot, attached, run, outcome, pass, faults>>

\* A call throws, or the process dies. Inside the try block the error leads to the
\* catch block; elsewhere the request is over with nothing undone.
ApiError(t) ==
  /\ Fault
  /\ \/ api[t] \in {"record", "activate"} /\ ApiGoto(t, "release")
     \/ api[t] \in {"create", "start", "record", "activate", "release", "mark"}
          /\ ApiGoto(t, "failed")
  /\ UNCHANGED <<slot, attached, taskRun, run, outcome, pass>>

ApiStep(t) ==
  \/ CreateTaskRun(t) \/ StartWorkflow(t) \/ RecordStart(t) \/ Activate(t)
  \/ ReleaseAfterError(t) \/ MarkFailedToStart(t)

-----------------------------------------------------------------------------
\* The workflow: configDrivenWorkflow or genericAgentWorkflow.
RunGoto(t, pc) == run' = [run EXCEPT ![t] = pc]

Begin(t) ==
  /\ run[t] = "begin"
  /\ taskRun' = [taskRun EXCEPT ![t] = "running"]
  /\ RunGoto(t, "work")
  /\ UNCHANGED <<slot, attached, api, outcome, pass, faults>>

\* The flow or the agent comes to something that may last for ever: it waits for
\* its user or a decision, or an activity without a maximum of attempts keeps
\* failing. The task_run may then say waiting_user or waiting_human, as good as
\* running for every reader here.
Stall(t) ==
  /\ run[t] = "work"
  /\ RunGoto(t, "stalled")
  /\ UNCHANGED <<slot, attached, taskRun, api, outcome, pass, faults>>

\* The answer, or the attempt that succeeds.
Resume(t) ==
  /\ run[t] = "stalled"
  /\ RunGoto(t, "work")
  /\ UNCHANGED <<slot, attached, taskRun, api, outcome, pass, faults>>

\* The flow or the agent ends, with an error too (the catch block).
Work(t) ==
  /\ run[t] = "work"
  /\ \E result \in Outcomes : outcome' = [outcome EXCEPT ![t] = result]
  /\ RunGoto(t, "write")
  /\ UNCHANGED <<slot, attached, taskRun, api, pass, faults>>

\* updateTaskRunStatusActivity: the status, then the slot. (No flow or agent ends
\* with waiting_human or waiting_user: they wait inside, see Stall.)
WriteStatus(t) ==
  /\ run[t] = "write"
  /\ taskRun' = [taskRun EXCEPT ![t] = outcome[t]]
  /\ RunGoto(t, "release")
  /\ UNCHANGED <<slot, attached, api, outcome, pass, faults>>

ReleaseSlot(t) ==
  /\ run[t] = "release"
  /\ Release(t)
  /\ RunGoto(t, "finalize")
  /\ UNCHANGED <<attached, taskRun, api, outcome, pass, faults>>

\* The turn of the conversation is finalized after the status was written. A flow
\* without final text throws there: its completed run is reported failed.
Finalize(t) ==
  /\ run[t] = "finalize"
  /\ \/ RunGoto(t, "closed") /\ UNCHANGED outcome
     \/ /\ outcome[t] = "completed"
        /\ outcome' = [outcome EXCEPT ![t] = "failed"]
        /\ RunGoto(t, "write")
  /\ UNCHANGED <<slot, attached, taskRun, api, pass, faults>>

\* The workflow closes early: terminated, timed out, or an activity of its catch
\* block failed for good.
Abort(t) ==
  /\ Open(t)
  /\ Fault
  /\ RunGoto(t, "closed")
  /\ UNCHANGED <<slot, attached, taskRun, api, outcome, pass>>

\* The steps a workflow takes by itself: it ends its work or stalls in it.
WorkflowStep(t) ==
  \/ Begin(t) \/ Stall(t) \/ Work(t)
  \/ WriteStatus(t) \/ ReleaseSlot(t) \/ Finalize(t)

-----------------------------------------------------------------------------
\* The reconcile command. Its passes over the candidates are modelled for each
\* candidate alone; every row counts as stale. Nothing of what a pass has read is
\* used after its decision.
PassGoto(t, pc) == pass' = [pass EXCEPT ![t] = [NoPass EXCEPT !.pc = pc]]

PickCandidate(t) ==
  /\ pass[t].pc = "idle"
  /\ Held(slot[t])
  /\ pass' = [pass EXCEPT ![t] = [pc |-> "task", attached |-> attached[t],
                                  terminal |-> FALSE]]
  /\ UNCHANGED <<slot, attached, taskRun, api, run, outcome, faults>>

ReadTask(t) ==
  /\ pass[t].pc = "task"
  /\ pass' = [pass EXCEPT ![t].pc = "decide", ![t].terminal = Terminal(taskRun[t])]
  /\ UNCHANGED <<slot, attached, taskRun, api, run, outcome, faults>>

\* Variants: the status of the task decides although a workflow is known; a row
\* without workflow is taken for abandoned.
DecideByTask(t) ==
  /\ pass[t].pc = "decide"
  /\ PassGoto(t, IF pass[t].terminal THEN "mark" ELSE "idle")
  /\ UNCHANGED <<slot, attached, taskRun, api, run, outcome, faults>>

DecideUnattachedAbandoned(t) ==
  /\ pass[t].pc = "decide"
  /\ PassGoto(t, IF pass[t].attached => ~Open(t) THEN "mark" ELSE "idle")
  /\ UNCHANGED <<slot, attached, taskRun, api, run, outcome, faults>>

\* decideAdmissionReconcile: a known workflow decides, else the task.
Decide(t) ==
  /\ pass[t].pc = "decide"
  /\ PassGoto(t, IF IF pass[t].attached THEN ~Open(t) ELSE pass[t].terminal
                   THEN "mark" ELSE "idle")
  /\ UNCHANGED <<slot, attached, taskRun, api, run, outcome, faults>>

\* describe fails; NOT_FOUND for a closed workflow leaves it to the task.
DescribeFails(t) ==
  /\ pass[t].pc = "decide" /\ pass[t].attached
  /\ Fault
  /\ PassGoto(t, IF ~Open(t) /\ pass[t].terminal THEN "mark" ELSE "idle")
  /\ UNCHANGED <<slot, attached, taskRun, api, run, outcome>>

\* markReconciled: WHERE status IN ('reserved', 'active', 'orphaned').
MarkReconciled(t) ==
  /\ pass[t].pc = "mark"
  /\ slot' = IF Held(slot[t]) THEN [slot EXCEPT ![t] = "reconciled"] ELSE slot
  /\ PassGoto(t, "idle")
  /\ UNCHANGED <<attached, taskRun, api, run, outcome, faults>>

Reconcile(t) == PickCandidate(t) \/ ReadTask(t) \/ Decide(t) \/ MarkReconciled(t)

Next ==
  \E t \in Tasks :
    \/ Reserve(t) \/ ApiStep(t) \/ ApiError(t)
    \/ WorkflowStep(t) \/ Resume(t) \/ Abort(t)
    \/ Reconcile(t) \/ DescribeFails(t)

Spec == Init /\ [][Next]_vars

\* Workflows go on, and the operator keeps running the reconcile command on batches
\* that hold every row. Nobody promises Resume: the code waits for its users without
\* a limit, and a flow's activities are retried without one. Of requests nothing is
\* asked: what is promised is promised to those that were answered.
FairWorkflow(t) == WF_vars(WorkflowStep(t))
FairPasses(t)   == WF_vars(Reconcile(t))

Fairness == \A t \in Tasks : FairWorkflow(t) /\ FairPasses(t)
FairSpec == Spec /\ Fairness

-----------------------------------------------------------------------------
\* Every variable has its type.
TypeOK ==
  /\ slot     \in [Tasks -> SlotStatus]
  /\ attached \in [Tasks -> BOOLEAN]
  /\ taskRun  \in [Tasks -> TaskStatus]
  /\ api      \in [Tasks -> ApiPcs]
  /\ run      \in [Tasks -> RunPcs]
  /\ outcome  \in [Tasks -> Outcomes]
  /\ pass     \in [Tasks -> [pc : {"idle", "task", "decide", "mark"},
                             attached : BOOLEAN, terminal : BOOLEAN]]
  /\ faults   \in 0 .. MaxFaults

\* The slots held never exceed the limit of every task that holds one: some
\* holder was admitted under a limit that covers them all, whatever limits the
\* policies had and however reservations, errors, workflows and reconcile passes
\* interleave.
HeldWithinLimit ==
  Holding # {} => \E t \in Holding : Cardinality(Holding) <= Limit[t]

\* A slot that was given back or refused is never held again, although the
\* request may activate it after the workflow or the command has ended it.
SlotNeverRevived ==
  [][\A t \in Tasks :
       slot[t] \in {"released", "rejected", "reconciled"} => ~Held(slot'[t])]_vars

\* The reconcile command takes no slot from a workflow that still works or waits,
\* although it decides on what it read before.
ReconciledWorkIsOver ==
  \A t \in Tasks :
    slot[t] = "reconciled" => run[t] \in {"write", "release", "finalize", "closed"}

\* A workflow runs without a slot only if its client was told the start failed:
\* with HeldWithinLimit, the tasks that run beside those are within the limit.
\* (start may throw although Temporal began the workflow; the slot is released.)
RunningHoldsSlot ==
  \A t \in Tasks :
    run[t] \in {"begin", "work", "stalled"}
      => Held(slot[t]) \/ api[t] \in {"mark", "failed"}

\* An acknowledged slot is never out of reach: its workflow was started, and the
\* row names it, so that the reconcile command can ask for it once it is closed.
\* Unless the workflow is stalled, neither it nor the command is stuck on the way.
SlotKeepersGoOn ==
  \A t \in Tasks :
    /\ Open(t) /\ run[t] # "stalled" => ENABLED <<WorkflowStep(t)>>_vars
    /\ Held(slot[t]) \/ pass[t].pc # "idle" => ENABLED <<Reconcile(t)>>_vars

AcknowledgedSlotIsAttended ==
  /\ \A t \in Tasks : api[t] = "answered" /\ Held(slot[t]) => Started(t) /\ attached[t]
  /\ SlotKeepersGoOn

\* Capacity is lost to faults alone. A slot is stranded when its request is over,
\* its workflow closed or never started, and the reconcile command has nothing to
\* decide on; a tenant never has more of those than calls that failed or
\* processes that died, however workflows stall and end.
Stranded ==
  {t \in Holding : /\ api[t] \in {"answered", "failed", "refused"}
                   /\ ~Open(t) /\ ~attached[t] /\ ~Terminal(taskRun[t])}

StrandedSlotsCostFaults == Cardinality(Stranded) <= faults

\* The slot of a task whose start was acknowledged is given back in the end, by
\* the workflow or, if that is terminated, by the command. The one exception is a
\* workflow stalled in its work: it is open, so the command leaves it its slot,
\* and nothing in the code ends the wait. Each time it goes on, the slot is given
\* back or the workflow stalls again.
AcknowledgedSlotReturns ==
  \A t \in Tasks :
    (api[t] = "answered") ~> (~Held(slot[t]) \/ run[t] = "stalled")

=============================================================================
