---------------------------- MODULE Conversation ----------------------------
(***************************************************************************)
(* The turns of one conversation.                                          *)
(*                                                                         *)
(* A request reads the context, creates the user's message and a queued    *)
(* reply in one transaction, and has a task routed and started for it. The *)
(* reply is finalized by the request, when there is nothing to run or the  *)
(* start failed, or by the workflow of the task. A client may send the     *)
(* same message again, at any time, and archive the conversation.          *)
(***************************************************************************)
EXTENDS Naturals, FiniteSets

CONSTANTS
  Msgs,      \* client_message_ids
  Reqs,      \* POST requests
  NoMsg,
  MaxFaults  \* bound: calls that fail, activities that give up, processes that die

ASSUME ConversationAssumption ==
  IsFiniteSet(Msgs) /\ NoMsg \notin Msgs /\ MaxFaults \in Nat

VARIABLES
  status,  \* conversation.status
  order,   \* place of the turn of each message in the conversation, 0 for no turn
  reply,   \* conversation_message.status of the reply to each message
  context, \* context_message_ids of the reply, by the turns they are of
  task,    \* task_run.status of the turn
  wf,      \* program counter of the workflow of the turn
  late,    \* finalizations nobody waits for any more that still take effect
  req,     \* the requests
  faults

vars == <<status, order, reply, context, task, wf, late, req, faults>>

Final    == {"completed", "failed"}
ReqPcs   == {"idle", "create", "route", "start", "failStart", "failReply", "clarify", "reject",
             "over", "dead"}
\* Past the point where the turn is the request's own.
Creators == ReqPcs \ {"idle", "create", "over"}
Waiting  == [pc |-> "idle", msg |-> NoMsg, context |-> {}]
WfPcs    == {"none", "run", "stalled", "reportDone", "complete", "reportFailed", "failReply",
             "catchReply", "catchTask", "generic", "fellBack", "closed", "lost"}

Init ==
  /\ status = "active"
  /\ order = [m \in Msgs |-> 0]
  /\ reply = [m \in Msgs |-> "none"]
  /\ context = [m \in Msgs |-> {}]
  /\ task = [m \in Msgs |-> "none"]
  /\ wf = [m \in Msgs |-> "none"]
  /\ late = {}
  /\ req = [q \in Reqs |-> Waiting]
  /\ faults = 0

Fault == faults < MaxFaults /\ faults' = faults + 1
At(q, pc) == req[q].pc = pc
ReqGoto(q, pc) == req' = [req EXCEPT ![q] = [pc |-> pc, msg |-> req[q].msg, context |-> {}]]
Answer(q) == req' = [req EXCEPT ![q] = [pc |-> "over", msg |-> NoMsg, context |-> {}]]
WfGoto(m, pc) == wf' = [wf EXCEPT ![m] = pc]
SetReply(m, s) == reply' = [reply EXCEPT ![m] = s]
SetTask(m, s) == task' = [task EXCEPT ![m] = s]
Turns == {m \in Msgs : order[m] > 0}

-----------------------------------------------------------------------------
\* Variant: a turn that is still being answered is taken as well.
AnyContext == Turns

\* listCompletedContextMessages, then selectConversationContext, within the limits: the
\* completed messages are taken in pairs from the last one, two steps at a time. A turn
\* without a completed reply leaves one message, and the pairs before it are missed
\* until another such turn.
ContextNow ==
  {m \in Turns :
     /\ reply[m] = "completed"
     /\ Cardinality({n \in Turns : order[n] > order[m] /\ reply[n] # "completed"}) % 2 = 0}

ReadContext(q) ==
  /\ At(q, "idle")
  /\ \E m \in Msgs : req' = [req EXCEPT ![q] = [pc |-> "create", msg |-> m,
                                                context |-> ContextNow]]
  /\ UNCHANGED <<status, order, reply, context, task, wf, late, faults>>

InFlight == \E m \in Turns : reply[m] = "queued"

\* Variant: the turn that is found is carried on with.
CreateTurnAgain(q) ==
  /\ At(q, "create")
  /\ LET m == req[q].msg IN
     \/ /\ status # "active" \/ (order[m] = 0 /\ InFlight)
        /\ Answer(q) /\ UNCHANGED <<order, reply, context>>
     \/ /\ status = "active" /\ order[m] # 0
        /\ ReqGoto(q, "route") /\ UNCHANGED <<order, reply, context>>
     \/ /\ status = "active" /\ order[m] = 0 /\ ~InFlight
        /\ order' = [order EXCEPT ![m] = Cardinality(Turns) + 1]
        /\ SetReply(m, "queued")
        /\ context' = [context EXCEPT ![m] = req[q].context]
        /\ ReqGoto(q, "route")
  /\ UNCHANGED <<status, task, wf, late, faults>>

\* createUserAndAssistantTurn, one transaction under the lock of the conversation. A
\* message that is there already is answered with its turn, or refused when its text
\* differs.
CreateTurn(q) ==
  /\ At(q, "create")
  /\ LET m == req[q].msg IN
     \/ /\ status # "active" \/ order[m] # 0 \/ InFlight
        /\ Answer(q) /\ UNCHANGED <<order, reply, context>>
     \/ /\ status = "active" /\ order[m] = 0 /\ ~InFlight
        /\ order' = [order EXCEPT ![m] = Cardinality(Turns) + 1]
        /\ SetReply(m, "queued")
        /\ context' = [context EXCEPT ![m] = req[q].context]
        /\ ReqGoto(q, "route")
  /\ UNCHANGED <<status, task, wf, late, faults>>

\* TaskService.create: nothing is created for an unclear or rejected message.
RouteTask(q) ==
  /\ At(q, "route")
  /\ \/ SetTask(req[q].msg, "open") /\ ReqGoto(q, "start") /\ UNCHANGED faults
     \/ ReqGoto(q, "clarify") /\ UNCHANGED <<task, faults>>
     \/ ReqGoto(q, "reject") /\ UNCHANGED <<task, faults>>
     \/ Fault /\ ReqGoto(q, "failReply") /\ UNCHANGED task
  /\ UNCHANGED <<status, order, reply, context, wf, late>>

\* A matched task runs ConfigDrivenWorkflow, one that fell back on an agent runs
\* GenericAgentWorkflow, which knows nothing of the conversation. The start may throw
\* although Temporal started it.
StartWorkflow(q) ==
  /\ At(q, "start")
  /\ \/ /\ \E first \in {"run", "generic"} : WfGoto(req[q].msg, first)
        /\ Answer(q) /\ UNCHANGED faults
     \/ /\ Fault /\ ReqGoto(q, "failStart")
        /\ UNCHANGED wf \/ \E first \in {"run", "generic"} : WfGoto(req[q].msg, first)
  /\ UNCHANGED <<status, order, reply, context, task, late>>

FailStart(q) ==
  /\ At(q, "failStart")
  /\ SetTask(req[q].msg, "failed") /\ ReqGoto(q, "failReply")
  /\ UNCHANGED <<status, order, reply, context, wf, late, faults>>

\* failAssistant after an error, finalizeImmediateRouteDecisions otherwise; like every
\* finalization they write whatever the row holds.
FinalizeNow(q) ==
  /\ req[q].pc \in {"failReply", "clarify", "reject"}
  /\ SetReply(req[q].msg, IF At(q, "clarify") THEN "completed" ELSE "failed")
  /\ Answer(q)
  /\ UNCHANGED <<status, order, context, task, wf, late, faults>>

\* The process dies, or an audit event, or the failed reply, cannot be written.
RequestDies(q) ==
  /\ req[q].pc \in Creators \ {"dead"} /\ Fault
  /\ ReqGoto(q, "dead")
  /\ UNCHANGED <<status, order, reply, context, task, wf, late>>

\* archive and unarchive ask nothing of the turns.
ToggleArchive ==
  /\ status' = IF status = "active" THEN "archived" ELSE "active"
  /\ UNCHANGED <<order, reply, context, task, wf, late, req, faults>>

-----------------------------------------------------------------------------
\* configDrivenWorkflow. An agent of the flow is seeded with the context, whose messages
\* must still be completed: its error is one more way to end in the catch block.
Seedable(m) == \A c \in context[m] : reply[c] = "completed"

\* The flow ends, or stalls: a step of it waits for a decision, an agent of it for its
\* user, or an activity, none of which has a maximum of attempts, keeps failing. (It
\* never returns waiting_human: a decision that was signalled is made.)
RunFlow(m) ==
  /\ wf[m] = "run"
  /\ \E pc \in {"stalled", "reportDone", "reportFailed", "catchReply"} : WfGoto(m, pc)
  /\ UNCHANGED <<status, order, reply, context, task, late, req, faults>>

\* The decision, the answer or the attempt that succeeds.
Resume(m) ==
  /\ wf[m] = "stalled"
  /\ WfGoto(m, "run")
  /\ UNCHANGED <<status, order, reply, context, task, late, req, faults>>

\* The task_run first, then the reply: a completed flow without a text for it throws.
ReportTask(m) ==
  /\ \/ /\ wf[m] = "reportDone"
        /\ SetTask(m, "completed") /\ wf' \in {[wf EXCEPT ![m] = pc] : pc \in {"complete", "catchReply"}}
     \/ wf[m] = "reportFailed" /\ SetTask(m, "failed") /\ WfGoto(m, "failReply")
  /\ UNCHANGED <<status, order, reply, context, late, req, faults>>

\* Variant: a failed flow finalizes its reply like a completed one.
FinalizeAlike(m) ==
  /\ wf[m] \in {"complete", "failReply"}
  /\ SetReply(m, "completed") /\ WfGoto(m, "closed")
  /\ UNCHANGED <<status, order, context, task, late, req, faults>>

Finalize(m) ==
  /\ \/ wf[m] = "complete" /\ SetReply(m, "completed") /\ WfGoto(m, "closed")
     \/ wf[m] = "failReply" /\ SetReply(m, "failed") /\ WfGoto(m, "closed")
  /\ UNCHANGED <<status, order, context, task, late, req, faults>>

\* Variant: the catch block only fails the task_run.
CatchTaskOnly(m) ==
  /\ wf[m] \in {"catchReply", "catchTask"}
  /\ SetTask(m, "failed") /\ WfGoto(m, "closed")
  /\ UNCHANGED <<status, order, reply, context, late, req, faults>>

\* The catch block, which fails a task_run that was just reported completed, too.
Catch(m) ==
  /\ \/ wf[m] = "catchReply" /\ SetReply(m, "failed") /\ WfGoto(m, "catchTask") /\ UNCHANGED task
     \/ wf[m] = "catchTask" /\ SetTask(m, "failed") /\ WfGoto(m, "closed") /\ UNCHANGED reply
  /\ UNCHANGED <<status, order, context, late, req, faults>>

\* GenericAgentWorkflow reports the task_run only.
GenericEnds(m) ==
  /\ wf[m] = "generic"
  /\ \E s \in Final : SetTask(m, s)
  /\ WfGoto(m, "fellBack")
  /\ UNCHANGED <<status, order, reply, context, late, req, faults>>

\* An activity fails for good, with an error that is not retried; an attempt of it that
\* timed out before may still take effect. In the catch block nobody catches it.
ActivityFails(m) ==
  /\ Fault
  /\ \/ wf[m] \in {"reportDone", "complete", "reportFailed", "failReply"} /\ WfGoto(m, "catchReply")
     \/ wf[m] \in {"catchReply", "catchTask"} /\ WfGoto(m, "lost")
  /\ \/ UNCHANGED late
     \/ wf[m] = "complete" /\ late' = late \cup {[msg |-> m, status |-> "completed"]}
     \/ wf[m] \in {"failReply", "catchReply"} /\ late' = late \cup {[msg |-> m, status |-> "failed"]}
  /\ UNCHANGED <<status, order, reply, context, task, req>>

LateFinalize ==
  /\ \E f \in late : SetReply(f.msg, f.status) /\ late' = late \ {f}
  /\ UNCHANGED <<status, order, context, task, wf, req, faults>>

-----------------------------------------------------------------------------
ReqStep(q) == CreateTurn(q) \/ RouteTask(q) \/ StartWorkflow(q) \/ FailStart(q) \/ FinalizeNow(q)
WfStep(m)  == RunFlow(m) \/ ReportTask(m) \/ Finalize(m) \/ Catch(m)

Next ==
  \/ \E q \in Reqs : ReadContext(q) \/ ReqStep(q) \/ RequestDies(q)
  \/ \E m \in Msgs : WfStep(m) \/ Resume(m) \/ GenericEnds(m) \/ ActivityFails(m)
  \/ LateFinalize \/ ToggleArchive

Spec == Init /\ [][Next]_vars

\* A live request goes on with its next step, Temporal with a workflow of a flow. Nobody
\* promises Resume: the code waits and retries without a limit; nor GenericEnds, whose
\* agent may wait for its user.
FairRequest(q)  == WF_vars(ReqStep(q))
FairWorkflow(m) == WF_vars(WfStep(m))

Fairness == (\A q \in Reqs : FairRequest(q)) /\ (\A m \in Msgs : FairWorkflow(m))
FairSpec == Spec /\ Fairness

-----------------------------------------------------------------------------
\* The states of the rows, of the requests and of the workflows.
TypeOK ==
  /\ status \in {"active", "archived"}
  /\ order \in [Msgs -> Nat]
  /\ reply \in [Msgs -> Final \cup {"none", "queued"}]
  /\ context \in [Msgs -> SUBSET Msgs]
  /\ task \in [Msgs -> Final \cup {"none", "open"}]
  /\ wf \in [Msgs -> WfPcs]
  /\ late \subseteq [msg : Msgs, status : Final]
  /\ req \in [Reqs -> [pc : ReqPcs, msg : Msgs \cup {NoMsg}, context : SUBSET Msgs]]
  /\ faults \in Nat
  /\ \A q \in Reqs : req[q].pc \notin {"idle", "over"} => req[q].msg \in Msgs
  /\ \A m \in Msgs : order[m] = 0 <=> reply[m] = "none"

\* However often a message is sent, one request creates its turn and runs its task, and
\* the turns of the conversation are answered one at a time (createUserAndAssistantTurn).
OneTurnAtATime ==
  /\ \A m \in Msgs : Cardinality({q \in Reqs : req[q].msg = m /\ req[q].pc \in Creators}) <= 1
  /\ Cardinality({m \in Msgs : reply[m] = "queued"}) <= 1
  /\ \A m, n \in Turns : order[m] = order[n] => m = n

\* What a turn is answered from lies before it and can still be loaded when its agent
\* starts: unless a call was lost, no reply of its context is taken back, though the
\* context is read before the turn is created (loadConversationContextActivity).
ContextHolds ==
  \A m \in Turns :
    /\ \A c \in context[m] : c \in Turns /\ order[c] < order[m]
    /\ faults = 0 => Seedable(m)

\* Unless a call was lost, a workflow that is through leaves a reply that says what its
\* task_run says (the order of configDrivenWorkflow's reports, and its catch block).
ReplyMatchesTask ==
  \A m \in Msgs :
    wf[m] = "closed" /\ faults = 0 => reply[m] = task[m] /\ reply[m] \in Final

\* A queued reply is never nobody's: the request that created the turn or the workflow
\* it started is going to answer it, unless they ended or stalled as TurnEnds says; and
\* neither is ever stuck, whatever the other requests, a late finalization or an archive
\* did.
RequestOnIt(q, m) == req[q].msg = m /\ req[q].pc \in Creators \ {"dead"}
WorkflowOnIt(m)   == wf[m] \in {"run", "reportDone", "complete", "reportFailed", "failReply",
                                "catchReply"}
Stalled(m) == wf[m] = "stalled"
GivenUp(m) ==
  wf[m] \in {"lost", "generic", "fellBack"} \/ \E q \in Reqs : req[q].msg = m /\ req[q].pc = "dead"

TurnKeepersGoOn ==
  \A m \in Msgs :
    /\ \A q \in Reqs : RequestOnIt(q, m) => ENABLED <<ReqStep(q)>>_vars
    /\ WorkflowOnIt(m) => ENABLED <<WfStep(m)>>_vars

QueuedReplyIsAttended ==
  /\ \A m \in Msgs :
       reply[m] = "queued"
         => GivenUp(m) \/ Stalled(m) \/ WorkflowOnIt(m) \/ \E q \in Reqs : RequestOnIt(q, m)
  /\ TurnKeepersGoOn

\* Every turn is answered, so that the conversation can go on, unless its request died
\* on the way, its workflow was lost in the catch block, its task fell back on an agent,
\* which answers nobody, or its flow stalls: it waits for a human, or retries a call, and
\* nothing in the code ends that. Each time it goes on, the turn is answered or the flow
\* stalls again; until then the conversation takes no other message.
TurnEnds ==
  \A m \in Msgs :
    reply[m] = "queued" ~> (reply[m] \in Final \/ GivenUp(m) \/ Stalled(m))
=============================================================================
