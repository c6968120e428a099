------------------------- MODULE ToolApprovalProofs -------------------------
(***************************************************************************)
(* Proofs about ToolApproval, for any numbers of human tasks, tool calls,  *)
(* HTTP calls, requests, tools, attempts and failures.                     *)
(*                                                                         *)
(* The composition implements ToolGateway (GatewayRefined), so the         *)
(* invariants proved of the gateway alone (Inv and ClientInv of            *)
(* ToolGatewayProofs) hold here too. Inv adds what runtime-api and the     *)
(* workflow know: rows are about logged tool calls, and from the commit on *)
(* the task that is awaited is about the step's own tool call and the      *)
(* workflow has been signalled an approval of it. A step is shown in three *)
(* parts: the gateway's by refinement, runtime-api's (HumanInv) and the    *)
(* workflow's (WorkflowInv). SoleInv, further down, follows a decision     *)
(* without rivals: who told the workflow, and who writes the log then. The *)
(* last part is about liveness: every decision ends the step.              *)
(***************************************************************************)
EXTENDS ToolApproval, TLAPS

\* The gateway of ToolApproval, with what is proved of it. Its operators are
\* those of G under another name (SameNames, SameSteps, SameDecisions).
GP == INSTANCE ToolGatewayProofs WITH
       Cases <- {}, Unlimited <- {}, Risk <- [tool \in Tools |-> "L3"],
       EvalMode <- [tool \in Tools |-> "deny"], EvalLimit <- [tool \in Tools |-> 0],
       MaxFaults <- MaxLostRequests, faults <- lostRequests, approvals <- Approvals

LEMMA GatewayInstance == GP!GatewayAssumption
BY StepAssumption
DEF GP!GatewayAssumption, GP!RiskLevels, GP!Modes, GP!Ops, Contents, PreviewOf, CommitOf

LEMMA SameNames ==
  /\ \A r \in Requests : /\ G!Content(r) = GP!Content(r) /\ G!Op(r) = GP!Op(r)
                         /\ G!Call(r) = GP!Call(r) /\ G!Tool(r) = GP!Tool(r)
  /\ G!TypeOK <=> GP!TypeOK
  /\ G!Init <=> GP!Init
  /\ G!vars = GP!vars
<1>1. \A r \in Requests : /\ G!Content(r) = GP!Content(r) /\ G!Op(r) = GP!Op(r)
                          /\ G!Call(r) = GP!Call(r) /\ G!Tool(r) = GP!Tool(r)
  BY DEF G!Content, GP!Content, G!Op, GP!Op, G!Call, GP!Call, G!Tool, GP!Tool
<1>2. G!StoreKeys = GP!StoreKeys /\ G!Record = GP!Record /\ G!Handler = GP!Handler
      /\ G!Idle = GP!Idle /\ G!NoRecord = GP!NoRecord /\ G!LogStatus = GP!LogStatus
  BY DEF G!StoreKeys, GP!StoreKeys, G!StoreKeyOf, GP!StoreKeyOf, G!Record, GP!Record,
    G!FingerprintOf, GP!FingerprintOf, G!Handler, GP!Handler, G!Pcs, GP!Pcs,
    G!Answers, GP!Answers, G!Idle, GP!Idle, G!NoRecord, GP!NoRecord,
    G!LogStatus, GP!LogStatus
<1> QED
  BY <1>1, <1>2 DEF G!TypeOK, GP!TypeOK, G!Init, GP!Init, G!vars, GP!vars

LEMMA SameSteps ==
  ASSUME GP!TypeOK, NEW r \in Requests
  PROVE  /\ G!Step(r) <=> GP!Step(r)
         /\ G!Lose(r) <=> GP!Lose(r)
         /\ \A c \in Contents : G!Arrive(r, c) <=> GP!Arrive(r, c)
<1> USE DEF
      G!At, GP!At, G!Goto, GP!Goto, G!Answer, GP!Answer, G!Reply, GP!Reply,
      G!Content, GP!Content, G!Op, GP!Op, G!Call, GP!Call, G!Tool, GP!Tool,
      G!Case, GP!Case, G!RiskOf, GP!RiskOf, G!StoreKey, GP!StoreKey,
      G!StoreKeyOf, GP!StoreKeyOf, G!FingerprintOf, GP!FingerprintOf,
      G!Recorded, GP!Recorded
<1>1. G!ReadIdempotency(r) <=> GP!ReadIdempotency(r)
  BY DEF G!ReadIdempotency, GP!ReadIdempotency
<1>2. G!CheckPolicy(r) <=> GP!CheckPolicy(r)
  BY DEF G!CheckPolicy, GP!CheckPolicy, G!EvaluationAllows, GP!EvaluationAllows
<1>3. G!LookupToolCall(r) <=> GP!LookupToolCall(r)
  BY DEF G!LookupToolCall, GP!LookupToolCall
<1>4. G!CheckApproval(r) <=> GP!CheckApproval(r)
  BY DEF G!CheckApproval, GP!CheckApproval
<1>5. G!Reserve(r) <=> GP!Reserve(r)
  <2>1. G!NamedCalls(r) = GP!NamedCalls(r)
    BY DEF G!NamedCalls, GP!NamedCalls, G!Fresh, GP!Fresh
  <2>2. GP!Case(r) = None \/ ~GP!At(r, "reserve")
    BY DEF GP!TypeOK, Contents, PreviewOf, CommitOf
  <2> QED
    BY <2>1, <2>2 DEF G!Reserve, GP!Reserve
<1>6. G!RefuseCommit(r) <=> GP!RefuseCommit(r)
  BY DEF G!RefuseCommit, GP!RefuseCommit
<1>7. G!RunAdapter(r) <=> GP!RunAdapter(r)
  BY DEF G!RunAdapter, GP!RunAdapter
<1>8. G!UpdateLog(r) <=> GP!UpdateLog(r)
  BY DEF G!UpdateLog, GP!UpdateLog
<1>9. G!CreateLog(r) <=> GP!CreateLog(r)
  BY DEF G!CreateLog, GP!CreateLog, G!PreviewStatus, GP!PreviewStatus
<1>10. G!CreateFailedLog(r) <=> GP!CreateFailedLog(r)
  BY DEF G!CreateFailedLog, GP!CreateFailedLog
<1>11. G!SaveRecord(r) <=> GP!SaveRecord(r)
  BY DEF G!SaveRecord, GP!SaveRecord
<1>12. G!Lose(r) <=> GP!Lose(r)
  BY DEF G!Lose, GP!Lose
<1>13. \A c \in Contents : G!Arrive(r, c) <=> GP!Arrive(r, c)
  BY DEF G!Arrive, GP!Arrive, G!Succeeded, GP!Succeeded
<1> QED
  BY <1>1, <1>2, <1>3, <1>4, <1>5, <1>6, <1>7, <1>8, <1>9, <1>10, <1>11, <1>12, <1>13
  DEF G!Step, GP!Step

LEMMA SameDecisions ==
  ASSUME NEW k \in ToolCalls
  PROVE  GP!Decide(k) <=> G!Decide(k)
BY DEF GP!Decide, G!Decide, GP!Approve, G!Approve, GP!Overrule, G!Overrule,
  GP!LogDecision, G!LogDecision, GP!AwaitsDecision, G!AwaitsDecision

-----------------------------------------------------------------------------
Handled(t) == task[t].status # "absent"

\* A handler of runtime-api that began has found a row and knows its verdict.
CallInv ==
  \A c \in HttpCalls : call[c].pc # "idle" =>
    /\ call[c].task \in HumanTasks /\ Handled(call[c].task)
    /\ call[c].verdict \in H!Verdicts

\* Human tasks are about tool calls the gateway has logged.
RowInv == \A t \in HumanTasks : Handled(t) => GP!Logged(task[t].toolCall)

Consent == wf.awaited \in HumanTasks /\ inbox[wf.awaited].decision = "approved"

AwaitsOwn == /\ wf.awaited \in HumanTasks /\ Handled(wf.awaited)
             /\ task[wf.awaited].toolCall = wf.toolCall

\* What the step knows at each of its awaits.
StepInv ==
  /\ wf.pc \in {"create", "created", "wait", "commit", "committing"} \/ strays > 0
       => GP!Logged(wf.toolCall)
  /\ wf.pc \in {"preview", "previewing"} => strays = 0
  /\ wf.pc \in {"created", "wait", "commit", "committing"} => AwaitsOwn
  /\ wf.pc \in {"commit", "committing"} => Consent
  /\ wf.pc # "done" => wf.outcome = "none"
  /\ wf.outcome = "completed" =>
       /\ AwaitsOwn /\ Consent
       /\ \E r \in effects : GP!Op(r) = "commit" /\ GP!Call(r) = wf.toolCall

\* Its requests: the one it waits for, and the commits, which nobody else sends.
RequestsInv ==
  /\ wf.pc \in {"previewing", "committing"} =>
       /\ wf.request \in Requests /\ GP!Pc(wf.request) # "idle"
       /\ GP!Content(wf.request) = IF wf.pc = "previewing"
                                     THEN PreviewOf(wf.tool)
                                     ELSE CommitOf(wf.tool, wf.toolCall)
  /\ \A r \in Requests : GP!Pc(r) # "idle" /\ GP!Op(r) = "commit" =>
       /\ wf.pc \in {"commit", "committing", "done"}
       /\ GP!Content(r) = CommitOf(wf.tool, wf.toolCall) /\ Consent /\ AwaitsOwn

Inv ==
  /\ TypeOK
  /\ GP!Inv /\ GP!ClientInv
  /\ strays <= timeouts
  /\ CallInv /\ RowInv /\ StepInv /\ RequestsInv

-----------------------------------------------------------------------------
\* Steps of runtime-api, as far as the others see them.
HumanFrame ==
  /\ \A t \in HumanTasks : Handled(t) =>
       Handled(t)' /\ task'[t].toolCall = task[t].toolCall
  /\ \A t \in HumanTasks :
       inbox[t].decision = "approved" => inbox'[t].decision = "approved"

\* A handler of task t, asked for v, moves on; k is the tool call of t.
HumanMove(c, t, v, k) ==
  /\ \/ UNCHANGED <<task, log>>
     \/ task' = [task EXCEPT ![t].status = v] /\ UNCHANGED log
     \/ log' = [log EXCEPT ![k] = v] /\ UNCHANGED task
  /\ \/ UNCHANGED inbox
     \/ inbox' = [inbox EXCEPT ![t].decision = H!KeepFirst(@, v)]
  /\ \E pc \in {"write", "log", "signal", "audit", "done"} :
       call' = [call EXCEPT ![c].pc = pc]
  /\ audit' \in {audit, audit \cup {[task |-> t, verdict |-> v]}}
  /\ lostCalls' = lostCalls

LEMMA HumanStepMoves ==
  ASSUME Inv, NEW c \in HttpCalls, H!Step(c)
  PROVE  \E t \in HumanTasks, v \in {"approved", "rejected"}, k \in ToolCalls :
           /\ t = call[c].task /\ v = call[c].verdict /\ k = task[t].toolCall
           /\ Handled(t) /\ GP!Logged(k) /\ HumanMove(c, t, v, k)
<1> DEFINE t == call[c].task
           v == call[c].verdict
           k == task[t].toolCall
           Gone(pc) == call' = [call EXCEPT ![c].pc = pc]
<1>1. call[c].pc # "idle" /\ ~H!IsResponse(c)
  BY DEF H!Step, H!LoadDecide, H!LoadRespond, H!WriteDecide, H!WriteRespond,
    H!UpdateToolCallLog, H!Signal, H!AppendAudit, H!IsResponse
<1>2. /\ t \in HumanTasks /\ Handled(t) /\ v \in {"approved", "rejected"}
      /\ k \in ToolCalls /\ GP!Logged(k)
  BY <1>1 DEF Inv, CallInv, RowInv, GP!Logged, H!Verdicts
<1>3. k # None
  BY <1>2, StepAssumption
<1>4. CASE H!LoadDecide(c)
  <2>1. Gone("write") \/ Gone("log")
    BY <1>4 DEF H!LoadDecide, H!Goto
  <2> QED
    BY <1>2, <1>4, <2>1 DEF H!LoadDecide, HumanMove
<1>5. CASE H!WriteDecide(c)
  <2>1. Gone("log")
    BY <1>5 DEF H!WriteDecide, H!Goto
  <2>2. task' = [task EXCEPT ![t].status = v]
    BY <1>5 DEF H!WriteDecide
  <2> QED
    BY <1>2, <1>5, <2>1, <2>2 DEF H!WriteDecide, HumanMove
<1>6. CASE H!UpdateToolCallLog(c)
  <2>1. Gone("signal") \/ Gone("done")
    BY <1>6 DEF H!UpdateToolCallLog, H!Goto
  <2>2. log' \in {log, [log EXCEPT ![k] = v]}
    BY <1>6 DEF H!UpdateToolCallLog
  <2> QED
    BY <1>2, <1>6, <2>1, <2>2 DEF H!UpdateToolCallLog, HumanMove
<1>7. CASE H!Signal(c)
  <2>1. Gone("audit")
    BY <1>7 DEF H!Signal, H!Goto
  <2>2. inbox' = [inbox EXCEPT ![t].decision = H!KeepFirst(@, v)]
    BY <1>1, <1>7 DEF H!Signal
  <2> QED
    BY <1>2, <1>7, <2>1, <2>2 DEF H!Signal, HumanMove
<1>8. CASE H!AppendAudit(c)
  <2>1. Gone("done")
    BY <1>8 DEF H!AppendAudit, H!Goto
  <2> QED
    BY <1>2, <1>8, <2>1 DEF H!AppendAudit, HumanMove
<1> QED
  BY <1>1, <1>4, <1>5, <1>6, <1>7, <1>8 DEF H!Step, H!LoadRespond, H!WriteRespond

-----------------------------------------------------------------------------
\* Every step is a step of the gateway or of the environment it assumes.
LEMMA VerdictRefines ==
  ASSUME Inv, NEW t \in HumanTasks, NEW v \in {"approved", "rejected"},
         NEW k \in ToolCalls, k = task[t].toolCall, GP!Logged(k), Handled(t),
         task' = [task EXCEPT ![t].status = v],
         granted' = granted \cup Approvals',
         UNCHANGED <<log, gatewayVars>>
  PROVE  [GP!Next]_(GP!vars)
<1>1. /\ task \in [HumanTasks -> H!Row] /\ Approvals \subseteq granted
      /\ GP!AwaitsDecision(k)
      /\ UNCHANGED <<handler, log, logTool, idem, reserved, effects, lostRequests>>
  BY DEF Inv, TypeOK, H!TypeOK, GP!Inv, GP!AwaitsDecision, GP!Logged, gatewayVars
<1>2. /\ task'[t].status = v /\ task'[t].toolCall = k
      /\ \A u \in HumanTasks \ {t} : task'[u] = task[u]
  BY <1>1 DEF H!Row
<1>3. CASE v = "approved"
  <2>1. Approvals' = Approvals \cup {k}
    BY <1>2, <1>3 DEF Approvals
  <2>2. granted' = granted \cup {k}
    BY <1>1, <2>1
  <2>3. GP!Decide(k)
    BY <1>1, <2>1, <2>2 DEF GP!Decide, GP!Approve
  <2> QED
    BY <2>3 DEF GP!Next
<1>4. CASE v = "rejected"
  <2>1. Approvals' = Approvals \/ Approvals' = Approvals \ {k}
    BY <1>2, <1>4 DEF Approvals
  <2>2. granted' = granted
    BY <1>1, <2>1
  <2>3. CASE Approvals' = Approvals
    BY <1>1, <2>2, <2>3 DEF GP!vars
  <2>4. CASE Approvals' = Approvals \ {k}
    <3>1. GP!Decide(k)
      BY <1>1, <2>2, <2>4 DEF GP!Decide, GP!Overrule
    <3> QED
      BY <3>1 DEF GP!Next
  <2> QED
    BY <2>1, <2>3, <2>4
<1> QED
  BY <1>3, <1>4

LEMMA HumanStepRefines ==
  ASSUME Inv, NEW c \in HttpCalls, HumanStep(c)
  PROVE  [GP!Next]_(GP!vars)
<1>1. PICK t \in HumanTasks, v \in {"approved", "rejected"}, k \in ToolCalls :
        /\ k = task[t].toolCall /\ Handled(t) /\ GP!Logged(k) /\ HumanMove(c, t, v, k)
  BY HumanStepMoves DEF HumanStep
<1>2. granted' = granted \cup Approvals' /\ UNCHANGED gatewayVars
  BY DEF HumanStep
<1>3. CASE task' = [task EXCEPT ![t].status = v] /\ UNCHANGED log
  BY <1>1, <1>2, <1>3, VerdictRefines
<1>4. CASE UNCHANGED task /\ (UNCHANGED log \/ log' = [log EXCEPT ![k] = v])
  <2>1. UNCHANGED Approvals /\ Approvals \subseteq granted
    BY <1>4 DEF Approvals, Inv, GP!Inv
  <2>2. UNCHANGED <<handler, logTool, idem, reserved, Approvals, effects, granted, lostRequests>>
    BY <1>2, <2>1 DEF gatewayVars
  <2>3. CASE UNCHANGED log
    BY <2>2, <2>3 DEF GP!vars
  <2>4. CASE log' = [log EXCEPT ![k] = v]
    <3>1. GP!AwaitsDecision(k)
      BY <1>1 DEF GP!AwaitsDecision, GP!Logged
    <3>2. GP!Decide(k)
      BY <2>2, <2>4, <3>1 DEF GP!Decide, GP!LogDecision
    <3> QED
      BY <3>2 DEF GP!Next
  <2> QED
    BY <1>4, <2>3, <2>4
<1> QED
  BY <1>1, <1>3, <1>4 DEF HumanMove

\* A new row is pending, so it approves nothing.
LEMMA NewRowApprovesNothing ==
  ASSUME Inv, NEW t \in HumanTasks, NEW k, H!CreateTask(t, "approval", k)
  PROVE  UNCHANGED Approvals
<1>1. /\ task \in [HumanTasks -> H!Row] /\ task[t].status = "absent"
      /\ task'[t].status = "pending" /\ \A u \in HumanTasks \ {t} : task'[u] = task[u]
  BY DEF Inv, TypeOK, H!TypeOK, H!CreateTask
<1> QED
  BY <1>1 DEF Approvals

LEMMA SendRefines ==
  ASSUME Inv, NEW content \in Contents, NEW pc, Send(content, pc)
  PROVE  [GP!Next]_(GP!vars)
<1>1. PICK r \in Requests : G!Arrive(r, content)
  BY DEF Send
<1>2. GP!Arrive(r, content)
  BY <1>1, SameSteps DEF Inv, GP!Inv
<1> QED
  BY <1>2 DEF GP!Next

LEMMA StepRefines == Inv /\ [Next]_vars => [GP!Next]_(GP!vars)
<1> SUFFICES ASSUME Inv, [Next]_vars PROVE [GP!Next]_(GP!vars)
  OBVIOUS
<1>1. ASSUME UNCHANGED <<gatewayVars, log, granted, task>> PROVE [GP!Next]_(GP!vars)
  BY <1>1 DEF gatewayVars, GP!vars, Approvals
<1>2. ASSUME NEW r \in Requests, G!Step(r) \/ G!Lose(r) PROVE [GP!Next]_(GP!vars)
  BY <1>2, SameSteps DEF Inv, GP!Inv, GP!Next
<1>3. CASE SendPreview
  <2>1. PreviewOf(wf.tool) \in Contents
    BY DEF Inv, TypeOK, Step, Locals, Contents
  <2> QED
    BY <1>3, <2>1, SendRefines DEF SendPreview
<1>4. CASE SendCommit
  <2>1. CommitOf(wf.tool, wf.toolCall) \in Contents
    BY <1>4 DEF SendCommit, Inv, TypeOK, Step, Locals, StepInv, GP!Logged, Contents
  <2> QED
    BY <1>4, <2>1, SendRefines DEF SendCommit
<1>5. CASE PreviewReturns \/ CreateReturns \/ DecisionArrives \/ CommitReturns \/ Timeout
  BY <1>1, <1>5
  DEF PreviewReturns, CreateReturns, DecisionArrives, CommitReturns, Timeout, Elsewhere, humanVars
<1>6. ASSUME NEW t \in HumanTasks, InsertTask(t) \/ StrayInsert(t)
      PROVE  [GP!Next]_(GP!vars)
  <2>1. UNCHANGED <<gatewayVars, log, granted, Approvals>>
    BY <1>6, NewRowApprovesNothing DEF InsertTask, StrayInsert
  <2> QED
    BY <2>1 DEF gatewayVars, GP!vars
<1>7. ASSUME NEW c \in HttpCalls, HumanStep(c) PROVE [GP!Next]_(GP!vars)
  BY <1>7, HumanStepRefines
<1>8. ASSUME NEW c \in HttpCalls,
             LoseCall(c) \/ \E t \in HumanTasks, v \in H!Verdicts : Click(c, t, v)
      PROVE  [GP!Next]_(GP!vars)
  BY <1>1, <1>8 DEF LoseCall, Click, H!Lose, H!Begin
<1>9. ASSUME NEW r \in Requests, GatewayStep(r) \/ LoseRequest(r)
      PROVE  [GP!Next]_(GP!vars)
  BY <1>2, <1>9 DEF GatewayStep, LoseRequest
<1>10. CASE UNCHANGED vars
  BY <1>1, <1>10 DEF vars, humanVars
<1> QED
  BY <1>3, <1>4, <1>5, <1>6, <1>7, <1>8, <1>9, <1>10 DEF Next, Workflow

-----------------------------------------------------------------------------
\* The part of runtime-api.
HumanInv == H!TypeOK /\ CallInv /\ RowInv

LEMMA RowsKeep ==
  ASSUME Inv, GP!Inv', GP!Lasting, HumanFrame, H!TypeOK',
         \A t \in HumanTasks : Handled(t)' =>
           Handled(t) \/ GP!Logged(task'[t].toolCall)
  PROVE  RowInv'
<1> SUFFICES ASSUME NEW t \in HumanTasks, Handled(t)'
             PROVE  GP!Logged(task[t].toolCall)'
  BY DEF RowInv
<1>1. \A k : GP!Logged(k) => GP!Logged(k)'
  BY DEF GP!Lasting, GP!Logged
<1>2. CASE Handled(t)
  BY <1>1, <1>2 DEF HumanFrame, Inv, RowInv, GP!Logged
<1>3. CASE GP!Logged(task'[t].toolCall)
  BY <1>1, <1>3 DEF GP!Lasting, GP!Logged
<1> QED
  BY <1>2, <1>3

LEMMA HumanMoveKeeps ==
  ASSUME Inv, GP!Inv', GP!Lasting, NEW c \in HttpCalls, H!Step(c)
  PROVE  HumanInv' /\ HumanFrame
<1>1. PICK t \in HumanTasks, v \in {"approved", "rejected"}, k \in ToolCalls :
        /\ t = call[c].task /\ v = call[c].verdict /\ k = task[t].toolCall
        /\ Handled(t) /\ GP!Logged(k) /\ HumanMove(c, t, v, k)
  BY HumanStepMoves
<1>2. H!TypeOK /\ log' \in [ToolCalls -> H!LogStatus]
  BY DEF Inv, TypeOK, GP!Inv, GP!TypeOK, H!LogStatus, GP!LogStatus
<1>3. task' \in [HumanTasks -> H!Row] /\ (\A u \in HumanTasks : Handled(u) <=> Handled(u)')
      /\ \A u \in HumanTasks : task'[u].toolCall = task[u].toolCall
  <2>1. CASE UNCHANGED task
    BY <1>2, <2>1 DEF H!TypeOK, Handled
  <2>2. CASE task' = [task EXCEPT ![t].status = v]
    BY <1>1, <1>2, <2>2 DEF H!TypeOK, H!Row, H!Decided, Handled
  <2> QED
    BY <1>1, <2>1, <2>2 DEF HumanMove
<1>4. /\ inbox' \in [HumanTasks -> [decision : H!Verdicts \cup {None}, response : {} \cup {None}]]
      /\ \A u \in HumanTasks :
           inbox[u].decision = "approved" => inbox'[u].decision = "approved"
  <2>1. "approved" # None
    BY StepAssumption
  <2>2. H!KeepFirst(inbox[t].decision, v) \in H!Verdicts
        /\ (inbox[t].decision = "approved" => H!KeepFirst(inbox[t].decision, v) = "approved")
    BY <1>2, <2>1 DEF H!KeepFirst, H!TypeOK, H!Verdicts
  <2>3. CASE UNCHANGED inbox
    BY <1>2, <2>3 DEF H!TypeOK
  <2>4. CASE inbox' = [inbox EXCEPT ![t].decision = H!KeepFirst(@, v)]
    BY <1>2, <2>2, <2>4 DEF H!TypeOK
  <2> QED
    BY <1>1, <2>3, <2>4 DEF HumanMove
<1>5. call' \in [HttpCalls -> H!Handler]
      /\ \A d \in HttpCalls : /\ call'[d].task = call[d].task
                              /\ call'[d].verdict = call[d].verdict
                              /\ d # c => call'[d].pc = call[d].pc
  BY <1>1, <1>2 DEF HumanMove, H!TypeOK, H!Handler
<1>6. audit' \subseteq [task : HumanTasks, verdict : H!Verdicts \cup {}] /\ lostCalls' = lostCalls
  BY <1>1, <1>2 DEF HumanMove, H!TypeOK, H!Verdicts
<1>7. H!TypeOK'
  BY <1>2, <1>3, <1>4, <1>5, <1>6 DEF H!TypeOK
<1>8. HumanFrame
  BY <1>3, <1>4 DEF HumanFrame
<1>9. CallInv'
  BY <1>1, <1>3, <1>5 DEF Inv, CallInv, H!Verdicts
<1>10. RowInv'
  BY <1>3, <1>7, <1>8, RowsKeep
<1> QED
  BY <1>7, <1>8, <1>9, <1>10 DEF HumanInv

LEMMA CreateTaskKeeps ==
  ASSUME Inv, GP!Inv', GP!Lasting, NEW t \in HumanTasks,
         H!CreateTask(t, "approval", wf.toolCall), GP!Logged(wf.toolCall),
         UNCHANGED <<inbox, call, audit, lostCalls>>
  PROVE  HumanInv' /\ HumanFrame /\ Handled(t)' /\ task'[t].toolCall = wf.toolCall
<1> DEFINE row == [status |-> "pending", kind |-> "approval",
                   toolCall |-> wf.toolCall, response |-> None]
<1>1. H!TypeOK /\ log' \in [ToolCalls -> H!LogStatus]
  BY DEF Inv, TypeOK, GP!Inv, GP!TypeOK, H!LogStatus, GP!LogStatus
<1>2. row \in H!Row
  BY DEF H!Row, GP!Logged
<1>3. /\ ~Handled(t) /\ task' = [task EXCEPT ![t] = row]
      /\ task'[t] = row /\ \A u \in HumanTasks \ {t} : task'[u] = task[u]
      /\ task' \in [HumanTasks -> H!Row]
  BY <1>1, <1>2 DEF H!CreateTask, H!TypeOK, Handled
<1>4. H!TypeOK'
  BY <1>1, <1>3 DEF H!TypeOK
<1>5. HumanFrame /\ Handled(t)' /\ task'[t].toolCall = wf.toolCall
  BY <1>3 DEF HumanFrame, Handled
<1>6. CallInv'
  BY <1>5 DEF Inv, CallInv, HumanFrame
<1>7. RowInv'
  <2>1. \A u \in HumanTasks : Handled(u)' => Handled(u) \/ GP!Logged(task'[u].toolCall)
    BY <1>3 DEF Handled
  <2> QED
    BY <1>4, <1>5, <2>1, RowsKeep
<1> QED
  BY <1>4, <1>5, <1>6, <1>7 DEF HumanInv

LEMMA OthersKeepHuman ==
  ASSUME Inv, GP!Inv', GP!Lasting, UNCHANGED humanVars
  PROVE  HumanInv' /\ HumanFrame
<1>1. H!TypeOK /\ log' \in [ToolCalls -> H!LogStatus]
      /\ UNCHANGED <<task, inbox, call, audit, lostCalls>>
  BY DEF Inv, TypeOK, GP!Inv, GP!TypeOK, H!LogStatus, GP!LogStatus, humanVars
<1>2. H!TypeOK'
  BY <1>1 DEF H!TypeOK
<1>3. HumanFrame /\ \A u \in HumanTasks : Handled(u) <=> Handled(u)'
  BY <1>1 DEF HumanFrame, Handled
<1>4. CallInv'
  BY <1>1, <1>3 DEF Inv, CallInv
<1>5. RowInv'
  BY <1>2, <1>3, RowsKeep
<1> QED
  BY <1>2, <1>3, <1>4, <1>5 DEF HumanInv

LEMMA CallsKeepHuman ==
  ASSUME Inv, GP!Inv', GP!Lasting, NEW c \in HttpCalls,
         H!Lose(c) \/ \E t \in HumanTasks, v \in H!Verdicts : H!Begin(c, t, v)
  PROVE  HumanInv' /\ HumanFrame
<1>1. H!TypeOK /\ UNCHANGED <<task, log, inbox, audit>>
      /\ \A u \in HumanTasks : Handled(u) <=> Handled(u)'
  BY DEF Inv, TypeOK, H!Lose, H!Begin, Handled
<1>2. HumanFrame
  BY <1>1 DEF HumanFrame
<1>3. call' \in [HttpCalls -> H!Handler] /\ CallInv' /\ lostCalls' \in 0 .. MaxLostCalls
  <2>1. CASE H!Lose(c)
    <3>1. /\ call[c].pc # "idle" /\ call' = [call EXCEPT ![c].pc = "failed"]
          /\ lostCalls < MaxLostCalls /\ lostCalls' = lostCalls + 1
      BY <2>1 DEF H!Lose, H!UnderWay, H!Goto
    <3>2. lostCalls' \in 0 .. MaxLostCalls
      BY <1>1, <3>1, StepAssumption DEF H!TypeOK
    <3>3. call' \in [HttpCalls -> H!Handler]
          /\ \A d \in HttpCalls : /\ call'[d].task = call[d].task
                                  /\ call'[d].verdict = call[d].verdict
                                  /\ d # c => call'[d].pc = call[d].pc
      BY <1>1, <3>1 DEF H!TypeOK, H!Handler
    <3> QED
      BY <1>1, <3>1, <3>2, <3>3 DEF Inv, CallInv
  <2>2. CASE \E t \in HumanTasks, v \in H!Verdicts : H!Begin(c, t, v)
    <3>1. PICK t \in HumanTasks, v \in H!Verdicts : H!Begin(c, t, v)
      BY <2>2
    <3> DEFINE new == [pc |-> "load", task |-> t, verdict |-> v,
                       wasPending |-> task[t].status = "pending"]
    <3>2. new \in H!Handler
      BY DEF H!Handler
    <3>3. call' = [call EXCEPT ![c] = new] /\ Handled(t) /\ lostCalls' = lostCalls
      BY <3>1 DEF H!Begin, Handled
    <3> QED
      BY <1>1, <3>2, <3>3 DEF Inv, CallInv, H!TypeOK
  <2> QED
    BY <2>1, <2>2
<1>4. H!TypeOK'
  BY <1>1, <1>3 DEF H!TypeOK
<1>5. RowInv'
  BY <1>1, <1>2, <1>4, RowsKeep
<1> QED
  BY <1>2, <1>3, <1>4, <1>5 DEF HumanInv

-----------------------------------------------------------------------------
\* The part of the workflow.
WorkflowInv == wf \in Step /\ timeouts \in 0 .. MaxTimeouts
               /\ strays \in Nat /\ strays <= timeouts /\ StepInv /\ RequestsInv

\* What the workflow knows outlasts every step of the others.
Outlasts ==
  /\ \A k : GP!Logged(k) => GP!Logged(k)'
  /\ \A t \in HumanTasks :
       /\ Handled(t) => Handled(t)' /\ task'[t].toolCall = task[t].toolCall
       /\ inbox[t].decision = "approved" => inbox'[t].decision = "approved"
  /\ \A r \in effects : GP!Op(r) = "commit" =>
       r \in effects' /\ GP!Op(r)' = "commit" /\ GP!Call(r)' = GP!Call(r)

LEMMA KnowledgeOutlasts ==
  ASSUME Inv, GP!ClientInv', GP!Lasting, HumanFrame
  PROVE  Outlasts
<1>1. ASSUME NEW r \in effects, GP!Op(r) = "commit"
      PROVE  r \in effects' /\ GP!Op(r)' = "commit" /\ GP!Call(r)' = GP!Call(r)
  <2>1. r \in Requests /\ GP!Pc(r) # "idle"
    BY DEF Inv, GP!Inv, GP!TypeOK, GP!RequestInv, GP!EffectInv
  <2>2. /\ GP!Pc(r)' # "idle" /\ GP!Content(r)' = GP!Content(r) /\ r \in effects'
    BY <2>1 DEF GP!Lasting
  <2>3. GP!Op(r)' = "commit"
    BY <1>1, <2>2 DEF GP!Op
  <2>4. GP!Call(r) = GP!Content(r).call /\ GP!Call(r)' = GP!Content(r)'.call
    BY <1>1, <2>1, <2>2, <2>3 DEF Inv, GP!ClientInv, GP!Serves
  <2> QED
    BY <2>2, <2>3, <2>4
<1>2. \A k : GP!Logged(k) => GP!Logged(k)'
  BY DEF GP!Lasting, GP!Logged
<1> QED
  BY <1>1, <1>2 DEF Outlasts, HumanFrame

\* No request arrives, and none that has is changed.
SameRequests ==
  \A q \in Requests : /\ GP!Content(q)' = GP!Content(q)
                      /\ GP!Pc(q) = "idle" <=> GP!Pc(q)' = "idle"

LEMMA OpsKeep ==
  ASSUME SameRequests
  PROVE  \A q \in Requests : GP!Op(q)' = GP!Op(q)
BY DEF SameRequests, GP!Op

LEMMA ConsentOutlasts ==
  ASSUME Outlasts, wf'.awaited = wf.awaited, wf'.toolCall = wf.toolCall
  PROVE  /\ Consent => Consent'
         /\ AwaitsOwn => AwaitsOwn'
         /\ GP!Logged(wf.toolCall) => GP!Logged(wf.toolCall)'
<1>1. wf.awaited \in HumanTasks /\ Handled(wf.awaited) => Handled(wf.awaited)'
  BY DEF Outlasts, Handled
<1>2. GP!Logged(wf.toolCall) => GP!Logged(wf.toolCall)'
  BY DEF Outlasts, GP!Logged
<1> QED
  BY <1>1, <1>2 DEF Outlasts, Consent, AwaitsOwn

LEMMA OthersKeepWorkflow ==
  ASSUME Inv, Outlasts, SameRequests, UNCHANGED workflowVars
  PROVE  WorkflowInv'
<1>1. /\ wf' = wf /\ strays' = strays /\ timeouts' = timeouts
      /\ wf \in Step /\ timeouts \in 0 .. MaxTimeouts /\ strays \in Nat /\ strays <= timeouts
  BY DEF workflowVars, Inv, TypeOK
<1>2. StepInv'
  BY <1>1, ConsentOutlasts DEF Inv, StepInv, Outlasts
<1>3. RequestsInv'
  BY OpsKeep, <1>1, ConsentOutlasts DEF Inv, RequestsInv, SameRequests
<1> QED
  BY <1>1, <1>2, <1>3 DEF WorkflowInv

\* An attempt that ends without a result, for whatever reason.
LEMMA FailedKeeps ==
  ASSUME Inv, Outlasts, SameRequests, Finish("failed"),
         timeouts' \in 0 .. MaxTimeouts, strays' \in Nat, strays' <= timeouts',
         strays' > 0 => GP!Logged(wf.toolCall)
  PROVE  WorkflowInv'
<1>1. /\ wf \in Step /\ wf' \in Step /\ wf'.pc = "done" /\ wf'.outcome = "failed"
      /\ wf'.tool = wf.tool /\ wf'.toolCall = wf.toolCall /\ wf'.awaited = wf.awaited
  BY DEF Inv, TypeOK, Step, Locals, Finish
<1>2. StepInv'
  BY <1>1, ConsentOutlasts DEF StepInv
<1>3. RequestsInv'
  BY OpsKeep, <1>1, ConsentOutlasts DEF Inv, RequestsInv, SameRequests
<1> QED
  BY <1>1, <1>2, <1>3 DEF WorkflowInv

LEMMA RetryKeeps ==
  ASSUME Inv, Outlasts, SameRequests, NEW pc, RetryFrom(pc),
         \/ pc = "preview" /\ wf.pc = "previewing" /\ strays' = strays
         \/ pc = "create" /\ wf.pc \in {"create", "created"}
         \/ pc = "commit" /\ wf.pc = "committing",
         timeouts' \in 0 .. MaxTimeouts, strays' \in Nat, strays' <= timeouts'
  PROVE  WorkflowInv'
<1>1. strays' > 0 => GP!Logged(wf.toolCall)
  BY DEF Inv, StepInv
<1>2. CASE Finish("failed")
  BY <1>1, <1>2, FailedKeeps
<1>3. CASE /\ wf.caller = "agent" => wf.attempt < MaxAttempts
           /\ wf' = [wf EXCEPT !.pc = pc, !.request = None, !.attempt = @ + 1]
  <2>0. wf \in Step
    BY DEF Inv, TypeOK
  <2>1. /\ wf.attempt + 1 \in Nat \ {0}
        /\ wf.caller = "agent" => wf.attempt + 1 <= MaxAttempts
    BY <1>3, <2>0, StepAssumption DEF Step, Locals
  <2>2. /\ wf' \in Step /\ wf'.pc = pc /\ wf'.outcome = wf.outcome /\ wf'.tool = wf.tool
        /\ wf'.toolCall = wf.toolCall /\ wf'.awaited = wf.awaited
    BY <1>3, <2>0, <2>1 DEF Step, Locals
  <2>3. StepInv'
    BY <2>2, <1>1, ConsentOutlasts DEF Inv, StepInv
  <2>4. RequestsInv'
    BY OpsKeep, <2>2, ConsentOutlasts DEF Inv, RequestsInv, SameRequests
  <2> QED
    BY <2>2, <2>3, <2>4 DEF WorkflowInv
<1> QED
  BY <1>2, <1>3 DEF RetryFrom

LEMMA NothingTimedOut ==
  ASSUME Inv, UNCHANGED <<strays, timeouts>>
  PROVE  timeouts' \in 0 .. MaxTimeouts /\ strays' \in Nat /\ strays' <= timeouts'
BY DEF Inv, TypeOK

\* The preview returned a tool call: there is a row of it in the log.
LEMMA PreviewReturnsKeeps ==
  ASSUME Inv, Outlasts, SameRequests, PreviewReturns
  PROVE  WorkflowInv'
<1>0. /\ wf.pc = "previewing" /\ wf.request \in Requests
      /\ GP!Pc(wf.request) = "answered" /\ GP!Op(wf.request) = "preview"
      /\ UNCHANGED <<strays, timeouts>> /\ wf \in Step
  BY DEF PreviewReturns, Answered, Inv, TypeOK, RequestsInv, PreviewOf, GP!Pc, GP!Op
<1>1. CASE Thrown("preview")
  BY <1>0, <1>1, RetryKeeps, FailedKeeps, NothingTimedOut DEF Inv, StepInv, Thrown
<1>2. CASE Finish("failed")
  BY <1>0, <1>2, FailedKeeps, NothingTimedOut DEF Inv, StepInv
<1>3. CASE /\ Reply \notin {"error", "denied"}
           /\ wf' = [wf EXCEPT !.pc = "create", !.attempt = 1, !.request = None,
                               !.toolCall = G!Call(wf.request)]
  <2>1. GP!Logged(G!Call(wf.request))
    BY <1>0, <1>3, SameNames DEF Inv, GP!ClientInv, GP!Serves, Reply
  <2>2. /\ wf' \in Step /\ wf'.pc = "create" /\ wf'.outcome = "none"
        /\ wf'.toolCall = G!Call(wf.request)
    <3>1. G!Call(wf.request) \in ToolCalls /\ 1 \in Nat \ {0} /\ 1 <= MaxAttempts /\ wf.outcome = "none"
      BY <1>0, <2>1, StepAssumption DEF GP!Logged, Inv, StepInv
    <3> HIDE DEF G!Call
    <3> QED
      BY <1>0, <1>3, <3>1 DEF Step, Locals
  <2>3. GP!Logged(wf.toolCall)'
    BY <2>1, <2>2 DEF Outlasts, GP!Logged
  <2>4. StepInv'
    BY <2>2, <2>3 DEF StepInv
  <2>5. RequestsInv'
    BY OpsKeep, <1>0, <2>2 DEF Inv, RequestsInv, SameRequests
  <2> QED
    BY <1>0, <2>2, <2>4, <2>5, NothingTimedOut DEF WorkflowInv
<1> QED
  BY <1>1, <1>2, <1>3 DEF PreviewReturns

LEMMA CreateReturnsKeeps ==
  ASSUME Inv, Outlasts, SameRequests, CreateReturns
  PROVE  WorkflowInv'
<1>0. /\ wf.pc = "created" /\ wf \in Step /\ UNCHANGED <<strays, timeouts>>
      /\ wf' = [wf EXCEPT !.pc = "wait", !.attempt = 1] /\ 1 \in Nat \ {0} /\ 1 <= MaxAttempts
  BY StepAssumption DEF CreateReturns, Inv, TypeOK
<1>1. /\ wf' \in Step /\ wf'.pc = "wait" /\ wf'.outcome = wf.outcome
      /\ wf'.toolCall = wf.toolCall /\ wf'.awaited = wf.awaited
  BY <1>0 DEF Step, Locals
<1>2. StepInv'
  BY <1>0, <1>1, ConsentOutlasts DEF Inv, StepInv
<1>3. RequestsInv'
  BY OpsKeep, <1>0, <1>1 DEF Inv, RequestsInv, SameRequests
<1> QED
  BY <1>0, <1>1, <1>2, <1>3, NothingTimedOut DEF WorkflowInv

\* Only an approval lets the step go on to the commit.
LEMMA DecisionArrivesKeeps ==
  ASSUME Inv, Outlasts, SameRequests, DecisionArrives
  PROVE  WorkflowInv'
<1>0. wf.pc = "wait" /\ wf \in Step /\ UNCHANGED <<strays, timeouts>> /\ AwaitsOwn
  BY DEF DecisionArrives, Inv, TypeOK, StepInv
<1>1. CASE Finish("failed")
  BY <1>0, <1>1, FailedKeeps, NothingTimedOut DEF Inv, StepInv
<1>2. CASE /\ inbox[wf.awaited].decision = "approved"
           /\ wf' = [wf EXCEPT !.pc = "commit"]
  <2>1. /\ wf' \in Step /\ wf'.pc = "commit" /\ wf'.outcome = wf.outcome
        /\ wf'.toolCall = wf.toolCall /\ wf'.awaited = wf.awaited
    BY <1>0, <1>2 DEF Step, Locals
  <2>2. Consent
    BY <1>0, <1>2 DEF Consent, AwaitsOwn
  <2>3. StepInv'
    BY <1>0, <2>1, <2>2, ConsentOutlasts DEF Inv, StepInv
  <2>4. RequestsInv'
    BY OpsKeep, <1>0, <2>1 DEF Inv, RequestsInv, SameRequests
  <2> QED
    BY <1>0, <2>1, <2>3, <2>4, NothingTimedOut DEF WorkflowInv
<1> QED
  BY <1>1, <1>2 DEF DecisionArrives

\* A result of the commit, its own or a replayed one, stands for an effect.
LEMMA CommitReturnsKeeps ==
  ASSUME Inv, Outlasts, SameRequests, CommitReturns
  PROVE  WorkflowInv'
<1>0. /\ wf.pc = "committing" /\ wf \in Step /\ UNCHANGED <<strays, timeouts>>
      /\ AwaitsOwn /\ Consent
      /\ wf.request \in Requests
      /\ GP!Content(wf.request) = CommitOf(wf.tool, wf.toolCall)
  BY DEF CommitReturns, Inv, TypeOK, StepInv, RequestsInv
<1>1. CASE RetryFrom("commit")
  BY <1>0, <1>1, RetryKeeps, NothingTimedOut
<1>2. CASE Finish("failed")
  BY <1>0, <1>2, FailedKeeps, NothingTimedOut DEF Inv, StepInv
<1>3. CASE Reply \in {"committed", "replayed"} /\ Finish("completed")
  <2>1. /\ wf' \in Step /\ wf'.pc = "done" /\ wf'.outcome = "completed" /\ wf'.tool = wf.tool
        /\ wf'.toolCall = wf.toolCall /\ wf'.awaited = wf.awaited
    BY <1>0, <1>3 DEF Step, Locals, Finish
  <2>2. PICK q \in effects :
          /\ GP!FingerprintOf(GP!Content(q)) = GP!FingerprintOf(GP!Content(wf.request))
          /\ GP!Op(q) = "commit" => GP!Call(q) = GP!Content(q).call
    BY <1>0, <1>3, GatewayInstance, GP!ResultOfEffect DEF Inv, Reply
  <2>3. GP!Op(q) = "commit" /\ GP!Call(q) = wf.toolCall
    BY <1>0, <2>2 DEF GP!FingerprintOf, GP!Op, CommitOf
  <2>4. \E r \in effects' : GP!Op(r)' = "commit" /\ GP!Call(r)' = wf'.toolCall
    BY <2>1, <2>2, <2>3 DEF Outlasts
  <2>5. StepInv'
    BY <1>0, <2>1, <2>4, ConsentOutlasts DEF Inv, StepInv
  <2>6. RequestsInv'
    BY OpsKeep, <2>1, ConsentOutlasts DEF Inv, RequestsInv, SameRequests
  <2> QED
    BY <1>0, <2>1, <2>5, <2>6, NothingTimedOut DEF WorkflowInv
<1> QED
  BY <1>1, <1>2, <1>3 DEF CommitReturns, Thrown

\* A request of the step arrives at the gateway.
LEMMA SendKeeps ==
  ASSUME Inv, Outlasts,
         \/ SendPreview
         \/ SendCommit
  PROVE  WorkflowInv'
<1> DEFINE content == IF wf.pc = "preview" THEN PreviewOf(wf.tool)
                                          ELSE CommitOf(wf.tool, wf.toolCall)
           next    == IF wf.pc = "preview" THEN "previewing" ELSE "committing"
<1>0. /\ wf.pc \in {"preview", "commit"} /\ wf \in Step /\ Send(content, next)
      /\ UNCHANGED <<strays, timeouts>>
  BY DEF SendPreview, SendCommit, Send, Inv, TypeOK
<1>1. PICK r \in Requests :
        G!Arrive(r, content) /\ wf' = [wf EXCEPT !.pc = next, !.request = r]
  BY <1>0 DEF Send
<1>2. content \in Contents
  BY <1>0 DEF Step, Locals, Contents, Inv, StepInv, GP!Logged
<1>3. GP!TypeOK /\ GP!Arrive(r, content)
  BY <1>1, <1>2, SameSteps DEF Inv, GP!Inv
<1> HIDE DEF content
<1>4. /\ GP!Content(r)' = content /\ GP!Pc(r)' # "idle"
      /\ \A q \in Requests \ {r} : handler'[q] = handler[q]
  BY <1>3 DEF GP!Arrive, GP!TypeOK, GP!Content, GP!Pc
<1>5. /\ wf' \in Step /\ wf'.pc = next /\ wf'.request = r /\ wf'.tool = wf.tool
      /\ wf'.toolCall = wf.toolCall /\ wf'.awaited = wf.awaited
      /\ wf'.outcome = wf.outcome
  BY <1>0, <1>1 DEF Step, Locals
<1>6. StepInv'
  BY <1>0, <1>5, ConsentOutlasts DEF Inv, StepInv
<1>7. GP!Content(r)' = IF wf'.pc = "previewing" THEN PreviewOf(wf'.tool)
                                               ELSE CommitOf(wf'.tool, wf'.toolCall)
  BY <1>0, <1>4, <1>5 DEF content
<1>8. ASSUME NEW q \in Requests, GP!Pc(q)' # "idle", GP!Op(q)' = "commit"
      PROVE  /\ wf'.pc \in {"commit", "committing", "done"}
             /\ GP!Content(q)' = CommitOf(wf'.tool, wf'.toolCall) /\ Consent' /\ AwaitsOwn'
  <2>1. CASE q = r
    <3>1. wf'.pc = "committing" /\ GP!Content(r)' = CommitOf(wf'.tool, wf'.toolCall)
      BY <1>0, <1>5, <1>7, <1>8, <2>1 DEF GP!Op, PreviewOf, CommitOf
    <3>2. Consent /\ AwaitsOwn
      BY <1>0, <1>5, <3>1 DEF Inv, StepInv
    <3> QED
      BY <1>5, <2>1, <3>1, <3>2, ConsentOutlasts
  <2>2. CASE q # r
    <3>1. GP!Pc(q) # "idle" /\ GP!Op(q) = "commit" /\ GP!Content(q)' = GP!Content(q)
      BY <1>4, <1>8, <2>2 DEF GP!Pc, GP!Op, GP!Content
    <3>2. /\ wf.pc \in {"commit", "committing", "done"}
          /\ GP!Content(q) = CommitOf(wf.tool, wf.toolCall) /\ Consent /\ AwaitsOwn
      BY <3>1 DEF Inv, RequestsInv
    <3> QED
      BY <1>0, <1>5, <3>1, <3>2, ConsentOutlasts
  <2> QED
    BY <2>1, <2>2
<1>9. RequestsInv'
  BY <1>4, <1>5, <1>7, <1>8 DEF RequestsInv
<1> QED
  BY <1>0, <1>5, <1>6, <1>9, NothingTimedOut DEF WorkflowInv

LEMMA InsertTaskKeeps ==
  ASSUME Inv, Outlasts, SameRequests, NEW t \in HumanTasks, InsertTask(t),
         Handled(t)', task'[t].toolCall = wf.toolCall
  PROVE  WorkflowInv'
<1>0. /\ wf.pc = "create" /\ wf \in Step /\ UNCHANGED <<strays, timeouts>>
      /\ wf' = [wf EXCEPT !.pc = "created", !.awaited = t]
  BY DEF InsertTask, Inv, TypeOK
<1>1. /\ wf' \in Step /\ wf'.pc = "created" /\ wf'.outcome = wf.outcome
      /\ wf'.toolCall = wf.toolCall /\ wf'.awaited = t
  BY <1>0 DEF Step, Locals
<1>2. GP!Logged(wf.toolCall)'
  BY <1>0, <1>1 DEF Inv, StepInv, Outlasts, GP!Logged
<1>3. AwaitsOwn'
  BY <1>1 DEF AwaitsOwn, Handled
<1>4. StepInv'
  BY <1>0, <1>1, <1>2, <1>3 DEF Inv, StepInv
<1>5. RequestsInv'
  BY OpsKeep, <1>0, <1>1 DEF Inv, RequestsInv, SameRequests
<1> QED
  BY <1>0, <1>1, <1>4, <1>5, NothingTimedOut DEF WorkflowInv

LEMMA TimeoutKeeps ==
  ASSUME Inv, Outlasts, SameRequests, Timeout
  PROVE  WorkflowInv'
<1>0. /\ timeouts < MaxTimeouts /\ timeouts' = timeouts + 1 /\ strays \in Nat
      /\ timeouts \in 0 .. MaxTimeouts /\ strays <= timeouts
      /\ timeouts' \in 0 .. MaxTimeouts
  BY StepAssumption DEF Timeout, Inv, TypeOK
<1>1. CASE TimeoutOfRequest
  BY <1>0, <1>1, RetryKeeps DEF TimeoutOfRequest
<1>2. CASE TimeoutOfCreate
  <2>1. strays' \in Nat /\ strays' <= timeouts'
    BY <1>0, <1>2 DEF TimeoutOfCreate
  <2> QED
    BY <1>0, <1>2, <2>1, RetryKeeps DEF TimeoutOfCreate
<1> QED
  BY <1>1, <1>2 DEF Timeout

LEMMA StrayInsertKeeps ==
  ASSUME Inv, Outlasts, SameRequests, NEW t \in HumanTasks, StrayInsert(t)
  PROVE  WorkflowInv'
<1>0. /\ wf' = wf /\ wf \in Step /\ timeouts' = timeouts /\ timeouts \in 0 .. MaxTimeouts
      /\ strays \in Nat /\ strays > 0 /\ strays' = strays - 1 /\ strays <= timeouts
  BY DEF StrayInsert, Inv, TypeOK
<1>1. strays' \in Nat /\ strays' <= timeouts'
  BY <1>0
<1>2. StepInv'
  BY <1>0, ConsentOutlasts DEF Inv, StepInv, Outlasts
<1>3. RequestsInv'
  BY OpsKeep, <1>0, ConsentOutlasts DEF Inv, RequestsInv, SameRequests
<1> QED
  BY <1>0, <1>1, <1>2, <1>3 DEF WorkflowInv

-----------------------------------------------------------------------------
LEMMA InitInv == Init => Inv
<1> SUFFICES ASSUME Init PROVE Inv
  OBVIOUS
<1> USE StepAssumption
<1>1. Approvals = {}
  BY DEF Init, Approvals, H!AbsentRow
<1>2. GP!Inv /\ GP!ClientInv
  BY SameNames, GatewayInstance, GP!InitInv, GP!ClientInit DEF Init
<1>3. G!TypeOK
  BY <1>2, SameNames DEF GP!Inv
<1>4. H!TypeOK
  <2>1. H!AbsentRow \in H!Row /\ H!IdleCall \in H!Handler
    BY DEF H!AbsentRow, H!Row, H!IdleCall, H!Handler
  <2>2. log \in [ToolCalls -> H!LogStatus]
    BY <1>3 DEF G!TypeOK, G!LogStatus, H!LogStatus
  <2> QED
    BY <2>1, <2>2 DEF Init, H!TypeOK
<1>5. wf \in Step /\ wf.pc = "preview" /\ wf.outcome = "none"
  BY DEF Init, Start, Step, Locals
<1>6. TypeOK
  BY <1>3, <1>4, <1>5 DEF Init, TypeOK
<1>7. CallInv /\ RowInv
  BY DEF Init, CallInv, RowInv, Handled, H!IdleCall, H!AbsentRow
<1>8. StepInv
  BY <1>5 DEF Init, StepInv
<1>9. RequestsInv
  BY <1>5 DEF Init, RequestsInv, G!Init, G!Idle, GP!Pc
<1> QED
  BY <1>2, <1>6, <1>7, <1>8, <1>9 DEF Init, Inv

LEMMA PartsMakeInv ==
  ASSUME GP!Inv', GP!ClientInv', HumanInv', WorkflowInv'
  PROVE  Inv'
<1>1. G!TypeOK' <=> GP!TypeOK'
  BY SameNames, PTL
<1>2. G!TypeOK'
  BY <1>1 DEF GP!Inv
<1>3. strays' \in 0 .. MaxTimeouts
  BY StepAssumption DEF WorkflowInv
<1> QED
  BY <1>2, <1>3 DEF HumanInv, WorkflowInv, TypeOK, Inv

LEMMA NextInv == Inv /\ [Next]_vars => Inv'
<1> SUFFICES ASSUME Inv, [Next]_vars PROVE Inv'
  OBVIOUS
<1>1. /\ GP!Inv' /\ GP!ClientInv' /\ GP!Lasting
  BY StepRefines, GatewayInstance, GP!NextInv, GP!ClientNext DEF Inv
<1>2. ASSUME UNCHANGED gatewayVars PROVE SameRequests
  BY <1>2 DEF gatewayVars, SameRequests, GP!Content, GP!Pc
<1>3. ASSUME HumanInv' /\ HumanFrame, Outlasts => WorkflowInv' PROVE Inv'
  BY <1>1, <1>3, KnowledgeOutlasts, PartsMakeInv
<1>4. CASE SendPreview \/ SendCommit
  <2>1. UNCHANGED humanVars
    BY <1>4 DEF SendPreview, SendCommit, Send
  <2> QED
    BY <1>1, <1>3, <1>4, <2>1, OthersKeepHuman, SendKeeps
<1>5. CASE PreviewReturns \/ CreateReturns \/ DecisionArrives \/ CommitReturns \/ Timeout
  <2>1. UNCHANGED humanVars /\ UNCHANGED gatewayVars
    BY <1>5
    DEF PreviewReturns, CreateReturns, DecisionArrives, CommitReturns, Timeout, Elsewhere
  <2> QED
    BY <1>1, <1>2, <1>3, <1>5, <2>1, OthersKeepHuman, PreviewReturnsKeeps, CreateReturnsKeeps,
       DecisionArrivesKeeps, CommitReturnsKeeps, TimeoutKeeps
<1>6. ASSUME NEW t \in HumanTasks, InsertTask(t) \/ StrayInsert(t) PROVE Inv'
  <2>1. /\ H!CreateTask(t, "approval", wf.toolCall) /\ UNCHANGED gatewayVars
        /\ UNCHANGED <<inbox, call, audit, lostCalls>>
    BY <1>6 DEF InsertTask, StrayInsert
  <2>2. GP!Logged(wf.toolCall)
    BY <1>6 DEF InsertTask, StrayInsert, Inv, StepInv
  <2>3. HumanInv' /\ HumanFrame /\ Handled(t)' /\ task'[t].toolCall = wf.toolCall
    BY <1>1, <2>1, <2>2, CreateTaskKeeps
  <2> QED
    BY <1>2, <1>3, <1>6, <2>1, <2>3, InsertTaskKeeps, StrayInsertKeeps
<1>7. ASSUME NEW c \in HttpCalls, HumanStep(c) PROVE Inv'
  <2>1. H!Step(c) /\ UNCHANGED gatewayVars /\ UNCHANGED workflowVars
    BY <1>7 DEF HumanStep
  <2> QED
    BY <1>1, <1>2, <1>3, <2>1, HumanMoveKeeps, OthersKeepWorkflow
<1>8. ASSUME NEW c \in HttpCalls,
             LoseCall(c) \/ \E t \in HumanTasks, v \in H!Verdicts : Click(c, t, v)
      PROVE  Inv'
  <2>1. /\ H!Lose(c) \/ \E t \in HumanTasks, v \in H!Verdicts : H!Begin(c, t, v)
        /\ UNCHANGED gatewayVars /\ UNCHANGED workflowVars
    BY <1>8 DEF LoseCall, Click
  <2> QED
    BY <1>1, <1>2, <1>3, <2>1, CallsKeepHuman, OthersKeepWorkflow
<1>9. ASSUME NEW r \in Requests, GatewayStep(r) \/ LoseRequest(r) PROVE Inv'
  <2>1. /\ GP!TypeOK /\ (GP!Step(r) \/ GP!Lose(r))
        /\ UNCHANGED humanVars /\ UNCHANGED workflowVars
    BY <1>9, SameSteps DEF GatewayStep, LoseRequest, Inv, GP!Inv
  <2>2. SameRequests
    BY <2>1, GatewayInstance, GP!StepKeepsRequests DEF SameRequests
  <2> QED
    BY <1>1, <1>3, <2>1, <2>2, OthersKeepHuman, OthersKeepWorkflow
<1>10. CASE UNCHANGED vars
  <2>1. UNCHANGED humanVars /\ UNCHANGED gatewayVars /\ UNCHANGED workflowVars
    BY <1>10 DEF vars
  <2> QED
    BY <1>1, <1>2, <1>3, <2>1, OthersKeepHuman, OthersKeepWorkflow
<1> QED
  BY <1>4, <1>5, <1>6, <1>7, <1>8, <1>9, <1>10 DEF Next, Workflow

LEMMA InvHolds == Spec => []Inv
BY InitInv, NextInv, PTL DEF Spec

-----------------------------------------------------------------------------
\* Every variable of the step and of the services it uses keeps its type.
THEOREM TypeCorrect == Spec => []TypeOK
<1>1. Inv => TypeOK
  BY DEF Inv
<1> QED
  BY <1>1, InvHolds, PTL

\* The step, runtime-api and the gateway together do to the gateway what
\* ToolGateway says: whatever is proved of ToolGateway with an environment that
\* decides at will holds in the composition.
THEOREM GatewayRefined == Spec => GatewaySpec
<1>1. Init => G!Init
  BY DEF Init
<1>2. Inv /\ [Next]_vars => [G!Next]_(G!vars)
  <2> SUFFICES ASSUME Inv, [GP!Next]_(GP!vars) PROVE [G!Next]_(G!vars)
    BY StepRefines
  <2>1. GP!TypeOK /\ G!vars = GP!vars /\ G!vars' = GP!vars'
    BY DEF Inv, GP!Inv, G!vars, GP!vars
  <2> QED
    BY <2>1, SameSteps, SameDecisions DEF GP!Next, G!Next
<1> QED
  BY <1>1, <1>2, InvHolds, PTL DEF Spec, GatewaySpec, G!Spec

\* An effect needs the signal of an approval and an approved row.
THEOREM BothConsents == Spec => []EffectNeedsBothConsents
<1> SUFFICES ASSUME Inv PROVE EffectNeedsBothConsents
  BY InvHolds, PTL
<1> SUFFICES ASSUME NEW r \in effects
             PROVE  /\ wf.awaited # None /\ inbox[wf.awaited].decision = "approved"
                    /\ G!Call(r) = wf.toolCall /\ wf.toolCall \in granted
  BY DEF EffectNeedsBothConsents
<1>1. /\ r \in Requests /\ GP!Pc(r) # "idle" /\ GP!RequestInv(r)
      /\ GP!Approved(r) /\ GP!Content(r) \in Contents
  BY DEF Inv, GP!Inv, GP!TypeOK, GP!RequestInv, GP!EffectInv, GP!Pc, GP!Content
<1>2. GP!RiskOf(r) = "L3"
  BY <1>1 DEF GP!RiskOf, GP!Tool, Contents, PreviewOf, CommitOf
<1>3. GP!Op(r) = "commit" /\ GP!Call(r) \in granted
  BY <1>1, <1>2 DEF GP!Approved
<1>4. Consent /\ GP!Call(r) = wf.toolCall
  BY <1>1, <1>3 DEF Inv, RequestsInv, GP!ClientInv, GP!Serves, CommitOf
<1> QED
  BY <1>1, <1>3, <1>4, SameNames, StepAssumption DEF Consent

\* A completed step has had its effect, for the task it waited for.
THEOREM CompletedIsTrue == Spec => []CompletedMeansEffect
<1> SUFFICES ASSUME Inv PROVE CompletedMeansEffect
  BY InvHolds, PTL
<1> SUFFICES ASSUME wf.outcome = "completed"
             PROVE  /\ task[wf.awaited].toolCall = wf.toolCall
                    /\ \E r \in effects : G!Op(r) = "commit" /\ G!Call(r) = wf.toolCall
  BY DEF CompletedMeansEffect
<1>1. effects \subseteq Requests
  BY DEF Inv, GP!Inv, GP!TypeOK
<1> QED
  BY <1>1, SameNames DEF Inv, StepInv, AwaitsOwn

-----------------------------------------------------------------------------
\* A decision that nobody rivals. What the handlers of runtime-api know: a handler that
\* found its row decided writes nothing; one that is alone on its tool call finds the
\* row as it left it; and what the workflow was told, a decider has told it.
Told == {"audit", "done", "failed"}
Alone(c) == call[c].wasPending /\ Deciders(task[call[c].task].toolCall) = {c}

DeciderInv(c) ==
  /\ call[c].pc = "idle" => call[c] = H!IdleCall
  /\ call[c].pc \in {"write", "signal", "audit"} => call[c].wasPending
  /\ call[c].pc # "idle" /\ ~call[c].wasPending =>
       task[call[c].task].status \in H!Verdicts
  /\ Alone(c) =>
       /\ call[c].pc \in {"load", "write"} => task[call[c].task].status = "pending"
       /\ \/ call[c].pc \in {"log", "signal", "audit", "done"}
          \/ inbox[call[c].task].decision # None
          => task[call[c].task].status = call[c].verdict

ToldBy(t, c) == /\ call[c].task = t /\ call[c].wasPending /\ call[c].pc \in Told
                /\ call[c].verdict = inbox[t].decision

DecisionInv ==
  /\ \A c \in HttpCalls : DeciderInv(c)
  /\ \A t \in HumanTasks : inbox[t].decision # None => \E c \in HttpCalls : ToldBy(t, c)
  /\ \A t \in HumanTasks : task[t].status # "resolved"

\* A handler that found a row pending is a decider of its tool call.
LEMMA BegunDecides ==
  ASSUME Inv, NEW c \in HttpCalls, call[c].pc # "idle", call[c].wasPending
  PROVE  c \in Deciders(task[call[c].task].toolCall)
BY StepAssumption DEF Inv, CallInv, Deciders

\* A handler that moves on writes, if anything, the row it found pending, or tells the
\* workflow about it.
Moves(c, pc) ==
  LET t == call[c].task
      v == call[c].verdict
  IN /\ call[c].pc # "idle" /\ pc # "idle"
     /\ call[c].pc \in Told => pc \in Told
     /\ call' = [call EXCEPT ![c].pc = pc]
     /\ \/ UNCHANGED <<task, inbox>>
        \/ /\ call[c].wasPending /\ UNCHANGED inbox
           /\ task' = [task EXCEPT ![t].status = v]
        \/ /\ call[c].wasPending /\ UNCHANGED task /\ pc = "audit"
           /\ inbox' = [inbox EXCEPT ![t].decision = H!KeepFirst(@, v)]

LEMMA MovesFacts ==
  ASSUME Inv, NEW c \in HttpCalls, NEW pc, Moves(c, pc)
  PROVE  /\ call'[c] = [call[c] EXCEPT !.pc = pc]
         /\ \A d \in HttpCalls \ {c} : call'[d] = call[d]
         /\ call[c].task \in HumanTasks /\ call[c].verdict \in {"approved", "rejected"}
         /\ \A u \in HumanTasks : /\ task'[u].toolCall = task[u].toolCall
                                  /\ \/ task'[u].status = task[u].status
                                     \/ /\ u = call[c].task /\ call[c].wasPending
                                        /\ task'[u].status = call[c].verdict
         /\ \A k : Deciders(k)' = Deciders(k)
<1>1. /\ call \in [HttpCalls -> H!Handler] /\ task \in [HumanTasks -> H!Row]
      /\ \A d \in HttpCalls : call[d].task \in HumanTasks \cup {None}
      /\ call[c].task \in HumanTasks /\ call[c].verdict \in {"approved", "rejected"}
  BY DEF Inv, TypeOK, H!TypeOK, H!Handler, CallInv, Moves, H!Verdicts
<1>2. /\ call'[c] = [call[c] EXCEPT !.pc = pc]
      /\ \A d \in HttpCalls \ {c} : call'[d] = call[d]
  BY <1>1 DEF Moves
<1>3. \A d \in HttpCalls : call'[d].task = call[d].task /\ call'[d].wasPending = call[d].wasPending
  BY <1>1, <1>2 DEF H!Handler
<1>4. \A u \in HumanTasks : /\ task'[u].toolCall = task[u].toolCall
                            /\ \/ task'[u].status = task[u].status
                               \/ /\ u = call[c].task /\ call[c].wasPending
                                  /\ task'[u].status = call[c].verdict
  <2>1. CASE UNCHANGED task
    BY <2>1
  <2>2. CASE call[c].wasPending /\ task' = [task EXCEPT ![call[c].task].status = call[c].verdict]
    BY <1>1, <2>2 DEF H!Row
  <2> QED
    BY <2>1, <2>2 DEF Moves
<1>5. \A k : Deciders(k)' = Deciders(k)
  BY <1>1, <1>3, <1>4 DEF Deciders
<1> QED
  BY <1>1, <1>2, <1>4, <1>5

LEMMA MovesKeeps ==
  ASSUME Inv, DecisionInv, NEW c \in HttpCalls, NEW pc, Moves(c, pc), DeciderInv(c)'
  PROVE  DecisionInv' /\ \A k : Deciders(k)' = Deciders(k)
<1> DEFINE t == call[c].task
           v == call[c].verdict
<1>1. /\ call'[c] = [call[c] EXCEPT !.pc = pc]
      /\ \A d \in HttpCalls \ {c} : call'[d] = call[d]
      /\ t \in HumanTasks /\ v \in {"approved", "rejected"}
      /\ \A u \in HumanTasks : /\ task'[u].toolCall = task[u].toolCall
                               /\ \/ task'[u].status = task[u].status
                                  \/ u = t /\ call[c].wasPending /\ task'[u].status = v
      /\ \A k : Deciders(k)' = Deciders(k)
  BY MovesFacts
<1>2. /\ call[c].pc # "idle" /\ inbox \in [HumanTasks -> [decision : H!Verdicts \cup {None},
                                                          response : {} \cup {None}]]
      /\ call \in [HttpCalls -> H!Handler] /\ None \notin {"approved", "rejected"}
  BY StepAssumption DEF Moves, Inv, TypeOK, H!TypeOK
<1>3. \A u \in HumanTasks :
        \/ inbox'[u].decision = inbox[u].decision
        \/ /\ u = t /\ call[c].wasPending /\ pc = "audit"
           /\ inbox[u].decision = None /\ inbox'[u].decision = v
  BY <1>1, <1>2 DEF Moves, H!KeepFirst
<1>4. ASSUME NEW d \in HttpCalls \ {c} PROVE DeciderInv(d)'
  <2>0. DeciderInv(d) /\ call'[d] = call[d]
    BY <1>1 DEF DecisionInv
  <2>1. CASE call[d].pc = "idle"
    BY <2>0, <2>1 DEF DeciderInv, Alone, H!IdleCall
  <2>2. CASE call[d].pc # "idle"
    <3>1. call[d].task \in HumanTasks
      BY <2>2 DEF Inv, CallInv
    <3>2. Alone(d)' => Alone(d) /\ (call[c].wasPending => call[d].task # t)
      <4>1. Alone(d)' => Alone(d)
        BY <1>1, <2>0, <3>1 DEF Alone
      <4>2. call[c].wasPending => c \in Deciders(task[t].toolCall)
        BY <1>2, BegunDecides
      <4>3. Alone(d) => c \notin Deciders(task[call[d].task].toolCall)
        BY DEF Alone
      <4> QED
        BY <4>1, <4>2, <4>3
    <3>3. Alone(d)' => /\ task'[call[d].task].status = task[call[d].task].status
                       /\ inbox'[call[d].task].decision = inbox[call[d].task].decision
      BY <1>1, <1>3, <3>1, <3>2
    <3>4. task[call[d].task].status \in H!Verdicts => task'[call[d].task].status \in H!Verdicts
      BY <1>1, <3>1 DEF H!Verdicts
    <3> QED
      BY <2>0, <2>2, <3>2, <3>3, <3>4 DEF DeciderInv
  <2> QED
    BY <2>1, <2>2
<1>5. ASSUME NEW u \in HumanTasks, inbox'[u].decision # None
      PROVE  \E d \in HttpCalls : ToldBy(u, d)'
  <2>1. CASE inbox'[u].decision = inbox[u].decision
    <3>1. PICK d \in HttpCalls : ToldBy(u, d)
      BY <1>5, <2>1 DEF DecisionInv
    <3>2. ToldBy(u, d)'
      BY <1>1, <1>2, <2>1, <3>1 DEF ToldBy, Moves, H!Handler
    <3> QED
      BY <3>2
  <2>2. CASE u = t /\ call[c].wasPending /\ pc = "audit" /\ inbox'[u].decision = v
    <3>1. ToldBy(u, c)'
      BY <1>1, <1>2, <2>2 DEF ToldBy, Told, H!Handler
    <3> QED
      BY <3>1
  <2> QED
    BY <1>3, <2>1, <2>2
<1>6. \A u \in HumanTasks : task'[u].status # "resolved"
  BY <1>1 DEF DecisionInv
<1> QED
  BY <1>1, <1>4, <1>5, <1>6 DEF DecisionInv

LEMMA DecisionStepKeeps ==
  ASSUME Inv, DecisionInv, NEW c \in HttpCalls, H!Step(c)
  PROVE  DecisionInv' /\ \A k : Deciders(k)' = Deciders(k)
<1> DEFINE t == call[c].task
           v == call[c].verdict
<1>0. /\ DeciderInv(c) /\ call[c] \in H!Handler
      /\ call \in [HttpCalls -> H!Handler] /\ task \in [HumanTasks -> H!Row]
      /\ inbox \in [HumanTasks -> [decision : H!Verdicts \cup {None}, response : {} \cup {None}]]
  BY DEF DecisionInv, Inv, TypeOK, H!TypeOK
<1>1. ASSUME NEW pc, Moves(c, pc), H!Step(c)
      PROVE  /\ call'[c].pc = pc /\ call'[c].task = t /\ call'[c].verdict = v
             /\ call'[c].wasPending = call[c].wasPending
             /\ t \in HumanTasks /\ v \in H!Verdicts
             /\ Alone(c)' <=> Alone(c)
  <2>1. /\ call'[c] = [call[c] EXCEPT !.pc = pc] /\ t \in HumanTasks /\ v \in H!Verdicts
        /\ task'[t].toolCall = task[t].toolCall /\ \A k : Deciders(k)' = Deciders(k)
    BY <1>1, MovesFacts DEF H!Verdicts
  <2>2. /\ call'[c].pc = pc /\ call'[c].task = t /\ call'[c].verdict = v
        /\ call'[c].wasPending = call[c].wasPending
    BY <1>0, <2>1 DEF H!Handler
  <2> QED
    BY <2>1, <2>2 DEF Alone
<1>2. ~H!IsResponse(c)
  BY DEF H!IsResponse
<1>3. CASE H!LoadDecide(c)
  <2> DEFINE pc == IF task[t].status = "pending" THEN "write" ELSE "log"
  <2>1. call[c].pc = "load" /\ Moves(c, pc) /\ UNCHANGED <<task, inbox>>
    BY <1>3 DEF H!LoadDecide, H!Goto, Moves, Told
  <2>2. "pending" \notin H!Verdicts
    BY DEF H!Verdicts
  <2>3. DeciderInv(c)'
    BY <1>0, <1>1, <2>1, <2>2 DEF DeciderInv
  <2> QED
    BY <2>1, <2>3, MovesKeeps
<1>4. CASE H!WriteDecide(c)
  <2>1. /\ call[c].pc = "write" /\ Moves(c, "log") /\ UNCHANGED inbox
        /\ task' = [task EXCEPT ![t].status = v]
    BY <1>0, <1>4 DEF H!WriteDecide, H!Goto, Moves, Told, DeciderInv
  <2>2. task'[t].status = v
    BY <1>0, <1>1, <2>1 DEF H!Row
  <2>3. DeciderInv(c)'
    BY <1>0, <1>1, <2>1, <2>2 DEF DeciderInv
  <2> QED
    BY <2>1, <2>3, MovesKeeps
<1>5. CASE H!UpdateToolCallLog(c)
  <2> DEFINE pc == IF call[c].wasPending THEN "signal" ELSE "done"
  <2>1. call[c].pc = "log" /\ Moves(c, pc) /\ UNCHANGED <<task, inbox>>
    BY <1>5 DEF H!UpdateToolCallLog, H!Goto, Moves, Told
  <2>2. DeciderInv(c)'
    BY <1>0, <1>1, <2>1 DEF DeciderInv
  <2> QED
    BY <2>1, <2>2, MovesKeeps
<1>6. CASE H!Signal(c)
  <2>1. /\ call[c].pc = "signal" /\ Moves(c, "audit") /\ UNCHANGED task
    BY <1>0, <1>2, <1>6 DEF H!Signal, H!Goto, Moves, Told, DeciderInv
  <2>2. DeciderInv(c)'
    BY <1>0, <1>1, <2>1 DEF DeciderInv
  <2> QED
    BY <2>1, <2>2, MovesKeeps
<1>7. CASE H!AppendAudit(c)
  <2>1. call[c].pc = "audit" /\ Moves(c, "done") /\ UNCHANGED <<task, inbox>>
    BY <1>7 DEF H!AppendAudit, H!Goto, Moves, Told
  <2>2. DeciderInv(c)'
    BY <1>0, <1>1, <2>1 DEF DeciderInv
  <2> QED
    BY <2>1, <2>2, MovesKeeps
<1> QED
  BY <1>2, <1>3, <1>4, <1>5, <1>6, <1>7 DEF H!Step, H!LoadRespond, H!WriteRespond

LEMMA DecisionLoseKeeps ==
  ASSUME Inv, DecisionInv, NEW c \in HttpCalls, H!Lose(c)
  PROVE  DecisionInv' /\ \A k : Deciders(k)' = Deciders(k)
<1>1. Moves(c, "failed") /\ UNCHANGED <<task, inbox>>
  BY DEF H!Lose, H!UnderWay, H!Goto, Moves, Told
<1>2. /\ call'[c] = [call[c] EXCEPT !.pc = "failed"]
      /\ \A k : Deciders(k)' = Deciders(k)
  BY <1>1, MovesFacts
<1>3. /\ call'[c].pc = "failed" /\ call'[c].task = call[c].task
      /\ call'[c].verdict = call[c].verdict /\ call'[c].wasPending = call[c].wasPending
  BY <1>2 DEF Inv, TypeOK, H!TypeOK, H!Handler
<1>4. DeciderInv(c)'
  <2>1. DeciderInv(c) /\ call[c].pc # "idle" /\ (Alone(c)' <=> Alone(c))
    BY <1>1, <1>2, <1>3 DEF DecisionInv, Alone, Moves
  <2> QED
    BY <1>1, <1>3, <2>1 DEF DeciderInv
<1> QED
  BY <1>1, <1>4, MovesKeeps

\* A handler that begins is a decider only if it finds its row pending; it may spoil that
\* another is alone.
LEMMA DecisionBeginKeeps ==
  ASSUME Inv, DecisionInv, NEW c \in HttpCalls, NEW t \in HumanTasks, NEW v \in H!Verdicts,
         H!Begin(c, t, v)
  PROVE  /\ DecisionInv'
         /\ \A k : Deciders(k) \subseteq Deciders(k)'
<1> DEFINE new == [pc |-> "load", task |-> t, verdict |-> v,
                   wasPending |-> task[t].status = "pending"]
<1>1. /\ call[c] = H!IdleCall /\ call' = [call EXCEPT ![c] = new] /\ UNCHANGED <<task, inbox>>
      /\ task[t].status # "absent" /\ task \in [HumanTasks -> H!Row]
      /\ call \in [HttpCalls -> H!Handler]
  BY DEF H!Begin, DecisionInv, DeciderInv, Inv, TypeOK, H!TypeOK
<1>2. call'[c] = new /\ \A d \in HttpCalls \ {c} : call'[d] = call[d]
  BY <1>1
<1>3. ~call[c].wasPending /\ call[c].task = None
  BY <1>1 DEF H!IdleCall
<1>4. \A k : Deciders(k) \subseteq Deciders(k)'
  BY <1>1, <1>2, <1>3 DEF Deciders
<1>5. ASSUME NEW d \in HttpCalls \ {c} PROVE DeciderInv(d)'
  <2>1. DeciderInv(d) /\ call'[d] = call[d]
    BY <1>2 DEF DecisionInv
  <2>2. Alone(d)' => Alone(d)
    <3> SUFFICES ASSUME Alone(d)' PROVE Alone(d)
      OBVIOUS
    <3>1. call[d].wasPending /\ call[d].pc # "idle"
      BY <2>1 DEF Alone, DeciderInv, H!IdleCall
    <3>2. d \in Deciders(task[call[d].task].toolCall)
      BY <3>1, BegunDecides
    <3>3. Deciders(task[call[d].task].toolCall) \subseteq {d}
      BY <1>1, <1>4, <2>1 DEF Alone
    <3> QED
      BY <3>1, <3>2, <3>3 DEF Alone
  <2> QED
    BY <1>1, <2>1, <2>2 DEF DeciderInv
<1>6. DeciderInv(c)'
  <2>1. /\ call'[c].pc = "load" /\ call'[c].task = t /\ call'[c].verdict = v
        /\ call'[c].wasPending = (task[t].status = "pending")
    BY <1>2
  <2>2. task[t].status \in {"pending"} \cup H!Verdicts
    BY <1>1 DEF DecisionInv, H!Row, H!Decided, H!Verdicts
  <2>3. ASSUME Alone(c)' PROVE inbox[t].decision = None
    <3> SUFFICES ASSUME inbox[t].decision # None PROVE FALSE
      OBVIOUS
    <3>1. PICK d \in HttpCalls : ToldBy(t, d)
      BY DEF DecisionInv
    <3>2. d # c /\ call[d].pc # "idle" /\ call[d].wasPending /\ call[d].task = t
      BY <1>3, <3>1 DEF ToldBy, Told
    <3>3. d \in Deciders(task[t].toolCall)'
      BY <1>1, <1>4, <3>2, BegunDecides
    <3> QED
      BY <1>1, <2>1, <2>3, <3>2, <3>3 DEF Alone
  <2> QED
    BY <1>1, <2>1, <2>2, <2>3 DEF DeciderInv, Alone
<1>7. ASSUME NEW u \in HumanTasks, inbox'[u].decision # None
      PROVE  \E d \in HttpCalls : ToldBy(u, d)'
  <2>1. PICK d \in HttpCalls : ToldBy(u, d)
    BY <1>1, <1>7 DEF DecisionInv
  <2>2. d # c
    BY <1>3, <2>1 DEF ToldBy
  <2> QED
    BY <1>1, <1>2, <2>1, <2>2 DEF ToldBy
<1> QED
  BY <1>1, <1>4, <1>5, <1>6, <1>7 DEF DecisionInv

\* Steps that leave the handlers and the inbox alone, and every row there is.
LEMMA OthersKeepDecision ==
  ASSUME Inv, DecisionInv, UNCHANGED <<call, inbox>>,
         \A t \in HumanTasks : \/ task'[t] = task[t]
                               \/ ~Handled(t) /\ task'[t].status = "pending"
  PROVE  DecisionInv' /\ \A k : Deciders(k)' = Deciders(k)
<1>1. \A c \in HttpCalls : call[c].pc # "idle" =>
        call[c].task \in HumanTasks /\ task'[call[c].task] = task[call[c].task]
  BY DEF Inv, CallInv
<1>2. \A c \in HttpCalls : call[c].pc = "idle" => call[c].task = None /\ ~call[c].wasPending
  BY DEF DecisionInv, DeciderInv, H!IdleCall
<1>3. \A k : Deciders(k)' = Deciders(k)
  BY <1>1, <1>2 DEF Deciders
<1>4. ASSUME NEW c \in HttpCalls PROVE DeciderInv(c)'
  <2>1. DeciderInv(c) /\ (Alone(c)' => Alone(c) /\ call[c].pc # "idle")
    BY <1>1, <1>2, <1>3 DEF DecisionInv, Alone
  <2> QED
    BY <1>1, <2>1 DEF DeciderInv
<1> QED
  BY <1>3, <1>4 DEF DecisionInv, ToldBy

-----------------------------------------------------------------------------
\* What the gateway does to the tool_call_log, and to whom it reports a commit. Ran is a
\* commit whose adapter returned, Settled one that has updated the log after it.
Succeeds    == {"committed", "succeeded", "replayed"}
Ran(r)      == GP!Op(r) = "commit" /\ (\/ GP!Pc(r) \in {"update", "save"}
                                       \/ handler[r].answer \in Succeeds)
Settled(r)  == GP!Op(r) = "commit" /\ (GP!Pc(r) = "save" \/ handler[r].answer \in Succeeds)
Creating(r) == GP!Op(r) = "preview" /\ GP!Pc(r) = "create"

\* Only commits of mock tools get through; a preview creates the row of a tool call of its
\* own; and a recorded result is the one of a request that was answered.
ReplyInv ==
  /\ \A r \in Requests : Ran(r) => GP!Tool(r) \in Mock
  /\ \A r \in Requests : Creating(r) =>
       /\ log[GP!Call(r)] = "none"
       /\ \A q \in Requests \ {r} : Creating(q) => GP!Call(q) # GP!Call(r)
  /\ \A s \in GP!StoreKeys : GP!Recorded(s) =>
       handler[idem[s].result].answer \in {"committed", "succeeded"}

\* The record of this very commit is there.
Replays(q) == /\ GP!StoreKey(q) \in GP!StoreKeys /\ GP!Recorded(GP!StoreKey(q))
              /\ idem[GP!StoreKey(q)].fingerprint = GP!FingerprintOf(GP!Content(q))

\* The writes of the gateway to the row of a tool call.
Writes(q, v) ==
  \/ GP!Op(q) = "commit" /\ GP!Pc(q) = "update" /\ v = "committed"
  \/ GP!Op(q) = "commit" /\ GP!Call(q) \notin Approvals
  \/ GP!Op(q) = "commit" /\ GP!Tool(q) \notin Mock
  \/ Creating(q)

\* What a step of request q may do.
Serving(q) ==
  /\ \A p \in Requests \ {q} : handler'[p] = handler[p]
  /\ GP!Pc(q) # "idle"
  /\ GP!Content(q)' = GP!Content(q) /\ handler[q].answer = "none"
  /\ log' = log \/ \E v : log' = [log EXCEPT ![GP!Call(q)] = v] /\ Writes(q, v)
  /\ Ran(q)' => Ran(q) \/ GP!Tool(q) \in Mock \/ Replays(q)
  /\ Settled(q)' => \/ GP!Pc(q) = "save" /\ log' = log
                    \/ log' = [log EXCEPT ![GP!Call(q)] = "committed"]
                    \/ Replays(q) /\ log' = log
  /\ Creating(q)' => /\ log' = log /\ log[GP!Call(q)'] = "none"
                     /\ \A p \in Requests : GP!Call(p) # GP!Call(q)'
  /\ \A s \in GP!StoreKeys :
       \/ idem'[s] = idem[s]
       \/ idem'[s].result = q /\ handler'[q].answer \in {"committed", "succeeded"}

LEMMA ServingFacts ==
  ASSUME Inv, NEW q \in Requests, GP!Pc(q) \notin {"idle", "answered"}
  PROVE  /\ GP!TypeOK /\ GP!Knows(q) /\ handler[q].answer = "none"
         /\ GP!Content(q) \in Contents /\ GP!StoreKey(q) \in GP!StoreKeys
         /\ GP!Op(q) \in {"preview", "commit"} /\ GP!Case(q) = None
<1>1. /\ GP!TypeOK /\ GP!Knows(q)
      /\ GP!Content(q) \in Contents /\ GP!StoreKey(q) \in GP!StoreKeys
  BY GatewayInstance, GP!StoreKeyInDomain DEF Inv, GP!Inv, GP!RequestInv
<1> QED
  BY <1>1 DEF GP!Knows, GP!Op, GP!Case, Contents, PreviewOf, CommitOf

\* Most steps only move the request on.
LEMMA MovedServing ==
  ASSUME Inv, NEW q \in Requests, GP!Pc(q) \notin {"idle", "answered"},
         NEW pc, NEW a, NEW res, GP!Moved(q, pc, a, res),
         GP!Op(q) = "preview" => pc # "create",
         log' = log \/ \E v : log' = [log EXCEPT ![GP!Call(q)] = v] /\ Writes(q, v),
         GP!Op(q) = "commit" /\ pc = "update" => GP!Tool(q) \in Mock,
         GP!Op(q) = "commit" /\ (pc = "save" \/ a \in Succeeds) =>
           \/ GP!Pc(q) = "save" /\ log' = log
           \/ GP!Pc(q) = "update" /\ log' = [log EXCEPT ![GP!Call(q)] = "committed"]
           \/ Replays(q) /\ log' = log,
         \A s \in GP!StoreKeys :
           \/ idem'[s] = idem[s]
           \/ idem'[s].result = q /\ a \in {"committed", "succeeded"}
  PROVE  Serving(q)
<1>1. /\ GP!Pc(q)' = pc /\ handler'[q].answer = a /\ GP!Op(q)' = GP!Op(q)
      /\ GP!Content(q)' = GP!Content(q) /\ handler[q].answer = "none"
      /\ \A p \in Requests \ {q} : handler'[p] = handler[p]
  BY ServingFacts DEF GP!Moved, GP!Op
<1>2. Creating(q)' => FALSE
  BY <1>1 DEF Creating
<1>3. Ran(q)' => Ran(q) \/ GP!Tool(q) \in Mock \/ Replays(q)
  BY <1>1 DEF Ran
<1>4. Settled(q)' => \/ GP!Pc(q) = "save" /\ log' = log
                     \/ log' = [log EXCEPT ![GP!Call(q)] = "committed"]
                     \/ Replays(q) /\ log' = log
  BY <1>1 DEF Settled
<1> QED
  BY <1>1, <1>2, <1>3, <1>4 DEF Serving

LEMMA ReadsServe ==
  ASSUME Inv, NEW q \in Requests,
         \/ GP!ReadIdempotency(q) \/ GP!CheckPolicy(q) \/ GP!LookupToolCall(q)
         \/ GP!CheckApproval(q) \/ GP!Lose(q)
  PROVE  Serving(q)
<1>0. GP!Pc(q) \notin {"idle", "answered"}
  BY DEF GP!ReadIdempotency, GP!CheckPolicy, GP!LookupToolCall, GP!CheckApproval, GP!Lose,
    GP!At, GP!Pc
<1>1. GP!TypeOK /\ GP!Knows(q) /\ GP!StoreKey(q) \in GP!StoreKeys
  BY <1>0, ServingFacts
<1>2. ASSUME NEW pc \in {"policy", "lookup", "approval", "reserve"}, GP!Goto(q, pc),
             UNCHANGED <<log, idem>>
      PROVE  Serving(q)
  <2>1. GP!Moved(q, pc, handler[q].answer, handler[q].result) /\ handler[q].answer = "none"
    BY <1>0, <1>1, <1>2, GatewayInstance, GP!GotoMoves, ServingFacts DEF GP!Pcs
  <2> QED
    BY <1>0, <1>2, <2>1, MovedServing DEF Succeeds
<1>3. ASSUME NEW a \in {"conflict", "denied", "error", "needs_confirmation"}, GP!Answer(q, a),
             UNCHANGED idem,
             log' = log \/ \E v : log' = [log EXCEPT ![GP!Call(q)] = v] /\ Writes(q, v)
      PROVE  Serving(q)
  <2>1. GP!Moved(q, "answered", a, handler[q].result)
    BY <1>1, <1>3, GatewayInstance, GP!AnswerMoves DEF GP!Answers
  <2> QED
    BY <1>0, <1>3, <2>1, MovedServing DEF Succeeds
<1>4. ASSUME GP!Reply(q, "replayed", idem[GP!StoreKey(q)].result), Replays(q),
             UNCHANGED <<log, idem>>
      PROVE  Serving(q)
  <2>1. idem[GP!StoreKey(q)].result \in Requests \cup {None}
    BY <1>1 DEF GP!TypeOK, GP!Record
  <2>2. GP!Moved(q, "answered", "replayed", idem[GP!StoreKey(q)].result)
    BY <1>1, <1>4, <2>1, GatewayInstance, GP!ReplyMoves DEF GP!Answers
  <2> QED
    BY <1>0, <1>4, <2>2, MovedServing
<1>5. CASE GP!ReadIdempotency(q)
  BY <1>1, <1>2, <1>3, <1>4, <1>5 DEF GP!ReadIdempotency, Replays
<1>6. CASE GP!CheckPolicy(q)
  BY <1>2, <1>3, <1>6 DEF GP!CheckPolicy
<1>7. CASE GP!LookupToolCall(q)
  BY <1>2, <1>3, <1>7 DEF GP!LookupToolCall
<1>8. CASE GP!CheckApproval(q)
  <2>1. GP!Op(q) = "commit"
    BY <1>1, <1>8 DEF GP!CheckApproval, GP!At, GP!Pc, GP!Knows
  <2> QED
    BY <1>2, <1>3, <1>8, <2>1 DEF GP!CheckApproval, Writes
<1>9. CASE GP!Lose(q)
  BY <1>3, <1>9 DEF GP!Lose
<1> QED
  BY <1>5, <1>6, <1>7, <1>8, <1>9

LEMMA AdapterServes ==
  ASSUME Inv, NEW q \in Requests,
         GP!RefuseCommit(q) \/ GP!RunAdapter(q) \/ GP!UpdateLog(q)
  PROVE  Serving(q)
<1>0. GP!Pc(q) \in {"adapter", "update"}
  BY DEF GP!RefuseCommit, GP!RunAdapter, GP!UpdateLog, GP!At, GP!Pc
<1>1. /\ GP!TypeOK /\ GP!Op(q) = "commit" /\ handler[q].answer = "none"
  BY <1>0, ServingFacts DEF GP!Knows
<1>2. CASE GP!RefuseCommit(q)
  <2>1. GP!Moved(q, "answered", "unsupported", handler[q].result)
    BY <1>1, <1>2, GatewayInstance, GP!AnswerMoves DEF GP!RefuseCommit, GP!Answers
  <2>2. /\ log' = [log EXCEPT ![GP!Call(q)] = "denied"] /\ Writes(q, "denied") /\ idem' = idem
    BY <1>1, <1>2 DEF GP!RefuseCommit, Writes
  <2> QED
    BY <1>0, <1>1, <2>1, <2>2, MovedServing DEF Succeeds
<1>3. CASE GP!RunAdapter(q)
  <2>1. GP!Tool(q) \in Mock /\ UNCHANGED <<log, idem>>
        /\ (GP!Goto(q, "update") \/ GP!Answer(q, "error"))
    BY <1>1, <1>3 DEF GP!RunAdapter
  <2>2. CASE GP!Goto(q, "update")
    <3>1. GP!Moved(q, "update", "none", handler[q].result)
      BY <1>1, <2>2, GatewayInstance, GP!GotoMoves DEF GP!Pcs
    <3> QED
      BY <1>0, <1>1, <2>1, <3>1, MovedServing DEF Succeeds
  <2>3. CASE GP!Answer(q, "error")
    <3>1. GP!Moved(q, "answered", "error", handler[q].result)
      BY <1>1, <2>3, GatewayInstance, GP!AnswerMoves DEF GP!Answers
    <3> QED
      BY <1>0, <1>1, <2>1, <3>1, MovedServing DEF Succeeds
  <2> QED
    BY <2>1, <2>2, <2>3
<1>4. CASE GP!UpdateLog(q)
  <2>1. GP!Moved(q, "save", "none", handler[q].result)
    BY <1>1, <1>4, GatewayInstance, GP!GotoMoves DEF GP!UpdateLog, GP!Pcs
  <2>2. /\ GP!Pc(q) = "update" /\ idem' = idem
        /\ log' = [log EXCEPT ![GP!Call(q)] = "committed"] /\ Writes(q, "committed")
    BY <1>1, <1>4 DEF GP!UpdateLog, GP!At, GP!Pc, Writes
  <2> QED
    BY <1>0, <1>1, <2>1, <2>2, MovedServing
<1> QED
  BY <1>2, <1>3, <1>4

LEMMA RecordServes ==
  ASSUME Inv, NEW q \in Requests,
         GP!CreateLog(q) \/ GP!CreateFailedLog(q) \/ GP!SaveRecord(q)
  PROVE  Serving(q)
<1>0. GP!Pc(q) \in {"create", "createFailed", "save"}
  BY DEF GP!CreateLog, GP!CreateFailedLog, GP!SaveRecord, GP!At, GP!Pc
<1>1. /\ GP!TypeOK /\ GP!Knows(q) /\ handler[q].answer = "none"
      /\ GP!Op(q) \in {"preview", "commit"} /\ GP!StoreKey(q) \in GP!StoreKeys
  BY <1>0, ServingFacts
<1>2. CASE GP!CreateLog(q)
  <2>1. GP!Op(q) = "preview" /\ Creating(q)
    BY <1>1, <1>2 DEF GP!CreateLog, GP!At, GP!Pc, GP!Knows, Creating
  <2>2. PICK a \in {"denied", "pending_confirmation", "previewed"} :
          /\ GP!Answer(q, a) /\ log' = [log EXCEPT ![GP!Call(q)] = a] /\ idem' = idem
    BY <1>2, <2>1 DEF GP!CreateLog, GP!PreviewStatus
  <2>3. GP!Moved(q, "answered", a, handler[q].result)
    BY <1>1, <2>2, GatewayInstance, GP!AnswerMoves DEF GP!Answers
  <2>4. Writes(q, a)
    BY <2>1 DEF Writes
  <2> QED
    BY <1>0, <2>1, <2>2, <2>3, <2>4, MovedServing DEF Succeeds
<1>3. CASE GP!CreateFailedLog(q)
  BY <1>1, <1>3 DEF GP!CreateFailedLog, GP!At, GP!Pc, GP!Knows
<1>4. CASE GP!SaveRecord(q)
  <2>0. GP!Pc(q) = "save" /\ GP!Op(q) = "commit" /\ log' = log
    BY <1>1, <1>4 DEF GP!SaveRecord, GP!At, GP!Pc, GP!Knows
  <2>1. CASE GP!Answer(q, "error") /\ idem' = idem
    <3>1. GP!Moved(q, "answered", "error", handler[q].result)
      BY <1>1, <2>1, GatewayInstance, GP!AnswerMoves DEF GP!Answers
    <3> QED
      BY <1>0, <2>0, <2>1, <3>1, MovedServing
  <2>2. CASE /\ GP!Reply(q, "committed", q)
             /\ idem' = [idem EXCEPT ![GP!StoreKey(q)] =
                  [fingerprint |-> GP!FingerprintOf(GP!Content(q)), result |-> q]]
    <3>1. GP!Moved(q, "answered", "committed", q)
      BY <1>1, <2>2, GatewayInstance, GP!ReplyMoves DEF GP!Answers
    <3>2. \A s \in GP!StoreKeys : idem'[s] = idem[s] \/ idem'[s].result = q
      BY <1>1, <2>2 DEF GP!TypeOK
    <3> QED
      BY <1>0, <2>0, <3>1, <3>2, MovedServing
  <2> QED
    BY <1>4, <2>0, <2>1, <2>2 DEF GP!SaveRecord
<1> QED
  BY <1>2, <1>3, <1>4

\* A preview draws a tool call that nobody has; a commit goes on with its own.
LEMMA ReserveServes ==
  ASSUME Inv, NEW q \in Requests, GP!Reserve(q)
  PROVE  Serving(q)
<1>0. GP!Pc(q) = "reserve" /\ UNCHANGED <<log, idem>>
  BY DEF GP!Reserve, GP!At, GP!Pc
<1>1. /\ GP!TypeOK /\ GP!Knows(q) /\ handler[q].answer = "none" /\ GP!Case(q) = None
      /\ GP!Op(q) \in {"preview", "commit"}
  BY <1>0, ServingFacts
<1>2. PICK k \in GP!NamedCalls(q), pc \in {"create", "adapter"} :
        /\ handler' = [handler EXCEPT ![q].pc = pc, ![q].call = k]
        /\ pc = "create" => GP!Op(q) = "preview"
  BY <1>1 DEF GP!Reserve
<1>3. /\ GP!Pc(q)' = pc /\ GP!Call(q)' = k /\ GP!Content(q)' = GP!Content(q)
      /\ handler'[q].answer = "none" /\ \A p \in Requests \ {q} : handler'[p] = handler[p]
  BY <1>1, <1>2 DEF GP!TypeOK, GP!Handler, GP!Pc, GP!Call, GP!Content
<1>4. Creating(q)' => /\ log[GP!Call(q)'] = "none"
                      /\ \A p \in Requests : GP!Call(p) # GP!Call(q)'
  BY <1>2, <1>3 DEF Creating, GP!NamedCalls, GP!Fresh
<1>5. ~Ran(q)' /\ ~Settled(q)'
  BY <1>3 DEF Ran, Settled, Succeeds
<1> QED
  BY <1>0, <1>1, <1>3, <1>4, <1>5 DEF Serving

LEMMA StepServes ==
  ASSUME Inv, NEW q \in Requests, GP!Step(q) \/ GP!Lose(q)
  PROVE  Serving(q)
BY ReadsServe, AdapterServes, RecordServes, ReserveServes DEF GP!Step

-----------------------------------------------------------------------------
SoleDecider == \E c \in HttpCalls : Deciders(wf.toolCall) = {c}

\* A commit that has updated the log is seen there, unless decisions rival; a completed
\* step has had such a commit.
SettledInv ==
  /\ \A r \in Requests : Settled(r) /\ SoleDecider => log[wf.toolCall] = "committed"
  /\ wf.outcome = "completed" =>
       \E r \in Requests : GP!Op(r) = "commit" /\ handler[r].answer \in Succeeds

SoleInv == DecisionInv /\ ReplyInv /\ SettledInv

\* A commit is under way only when the sole decider has told the workflow, with its
\* approval in the row: the gateway finds it, and the log is left to the gateway.
LEMMA SoleIsTold ==
  ASSUME Inv, DecisionInv, Consent, AwaitsOwn, NEW c \in HttpCalls,
         Deciders(wf.toolCall) = {c}
  PROVE  call[c].pc \in Told /\ wf.toolCall \in Approvals
<1>1. wf.awaited \in HumanTasks /\ inbox[wf.awaited].decision = "approved" /\ "approved" # None
      /\ task[wf.awaited].toolCall = wf.toolCall
  BY StepAssumption DEF Consent, AwaitsOwn
<1>2. PICK d \in HttpCalls : ToldBy(wf.awaited, d)
  BY <1>1 DEF DecisionInv
<1>3. d = c
  <2>1. call[d].task = wf.awaited /\ call[d].wasPending /\ call[d].pc # "idle"
    BY <1>2 DEF ToldBy, Told
  <2> QED
    BY <1>1, <2>1, BegunDecides
<1>4. task[wf.awaited].status = "approved"
  BY <1>1, <1>2, <1>3 DEF ToldBy, DecisionInv, DeciderInv, Alone
<1>5. wf.toolCall \in ToolCalls
  BY <1>1 DEF AwaitsOwn, Inv, RowInv, GP!Logged
<1> QED
  BY <1>1, <1>2, <1>3, <1>4, <1>5 DEF ToldBy, Approvals

LEMMA CommitFacts ==
  ASSUME Inv, NEW r \in Requests, GP!Pc(r) # "idle", GP!Op(r) = "commit"
  PROVE  /\ wf.pc \in {"commit", "committing", "done"} /\ Consent /\ AwaitsOwn
         /\ GP!Call(r) = wf.toolCall /\ GP!Tool(r) = wf.tool
         /\ wf.toolCall \in ToolCalls /\ log[wf.toolCall] # "none"
         /\ GP!FingerprintOf(GP!Content(r)) = GP!FingerprintOf(CommitOf(wf.tool, wf.toolCall))
<1>1. /\ wf.pc \in {"commit", "committing", "done"} /\ Consent /\ AwaitsOwn
      /\ GP!Content(r) = CommitOf(wf.tool, wf.toolCall)
  BY DEF Inv, RequestsInv
<1>2. GP!Call(r) = GP!Content(r).call
  BY DEF Inv, GP!ClientInv, GP!Serves
<1>3. GP!Logged(wf.toolCall)
  BY <1>1 DEF AwaitsOwn, Inv, RowInv
<1> QED
  BY <1>1, <1>2, <1>3 DEF GP!Logged, GP!Tool, CommitOf

\* Who has an answer has arrived.
LEMMA RanHasArrived ==
  ASSUME Inv, NEW r \in Requests, Ran(r) \/ Settled(r) \/ Creating(r)
  PROVE  GP!Pc(r) # "idle" /\ (Settled(r) => Ran(r))
<1>1. GP!Pc(r) = "idle" => handler[r].answer = "none"
  BY DEF Inv, GP!Inv, GP!RequestInv, GP!Knows, GP!Idle
<1> QED
  BY <1>1 DEF Ran, Settled, Creating, Succeeds

\* The record of a commit is the result of a settled one.
LEMMA ReplaysSettled ==
  ASSUME Inv, ReplyInv, NEW q \in Requests, GP!Op(q) = "commit", Replays(q)
  PROVE  \E p \in Requests : Settled(p) /\ GP!Tool(p) = GP!Tool(q)
<1> DEFINE p == idem[GP!StoreKey(q)].result
<1>1. /\ p \in effects /\ GP!FingerprintOf(GP!Content(p)) = GP!FingerprintOf(GP!Content(q))
      /\ handler[p].answer \in {"committed", "succeeded"}
  BY DEF Replays, ReplyInv, Inv, GP!ClientInv, GP!Genuine
<1>2. p \in Requests
  BY <1>1 DEF Inv, GP!Inv, GP!TypeOK
<1>3. GP!Op(p) = "commit" /\ GP!Tool(p) = GP!Tool(q)
  BY <1>1 DEF GP!FingerprintOf, GP!Op, GP!Tool
<1> QED
  BY <1>1, <1>2, <1>3 DEF Settled, Succeeds

-----------------------------------------------------------------------------
LEMMA ServingKeepsReply ==
  ASSUME Inv, ReplyInv, NEW q \in Requests, Serving(q)
  PROVE  ReplyInv'
<1>1. \A p \in Requests \ {q} :
        /\ handler'[p] = handler[p] /\ GP!Op(p)' = GP!Op(p) /\ GP!Tool(p)' = GP!Tool(p)
        /\ GP!Call(p)' = GP!Call(p) /\ GP!Pc(p)' = GP!Pc(p)
  BY DEF Serving, GP!Op, GP!Tool, GP!Call, GP!Pc, GP!Content
<1>2. GP!Op(q)' = GP!Op(q) /\ GP!Tool(q)' = GP!Tool(q) /\ handler[q].answer = "none"
  BY DEF Serving, GP!Op, GP!Tool
<1>3. ASSUME NEW r \in Requests, Ran(r)' PROVE GP!Tool(r)' \in Mock
  <2>1. CASE r # q
    BY <1>1, <1>3, <2>1 DEF Ran, ReplyInv
  <2>2. CASE r = q
    <3>1. Ran(q) \/ GP!Tool(q) \in Mock \/ (Replays(q) /\ GP!Op(q) = "commit")
      BY <1>2, <1>3, <2>2 DEF Serving, Ran
    <3>2. CASE Replays(q) /\ GP!Op(q) = "commit"
      BY <1>2, <2>2, <3>2, ReplaysSettled, RanHasArrived DEF ReplyInv
    <3> QED
      BY <1>2, <2>2, <3>1, <3>2 DEF ReplyInv
  <2> QED
    BY <2>1, <2>2
<1>4. ASSUME NEW r \in Requests, Creating(r)'
      PROVE  /\ log'[GP!Call(r)'] = "none"
             /\ \A p \in Requests \ {r} : Creating(p)' => GP!Call(p)' # GP!Call(r)'
  <2>1. CASE r = q
    <3>1. /\ log' = log /\ log[GP!Call(q)'] = "none"
          /\ \A p \in Requests : GP!Call(p) # GP!Call(q)'
      BY <1>4, <2>1 DEF Serving
    <3> QED
      BY <1>1, <2>1, <3>1
  <2>2. CASE r # q
    <3>1. Creating(r) /\ GP!Call(r)' = GP!Call(r)
      BY <1>1, <1>4, <2>2 DEF Creating
    <3>2. log[GP!Call(r)] = "none" /\ (Creating(q) => GP!Call(q) # GP!Call(r))
      BY <2>2, <3>1 DEF ReplyInv
    <3>3. log'[GP!Call(r)] = "none"
      <4>1. CASE log' = log
        BY <3>2, <4>1
      <4>2. ASSUME NEW v, log' = [log EXCEPT ![GP!Call(q)] = v], Writes(q, v)
            PROVE  log'[GP!Call(r)] = "none"
        <5>1. GP!Call(q) # GP!Call(r)
          <6>1. CASE Creating(q)
            BY <3>2, <6>1
          <6>2. CASE GP!Op(q) = "commit"
            <7>1. GP!Pc(q) # "idle"
              BY DEF Serving
            <7> QED
              BY <3>2, <6>2, <7>1, CommitFacts
          <6> QED
            BY <4>2, <6>1, <6>2 DEF Writes
        <5>2. log \in [ToolCalls -> GP!LogStatus]
          BY DEF Inv, GP!Inv, GP!TypeOK
        <5> QED
          BY <3>2, <4>2, <5>1, <5>2
      <4> QED
        BY <4>1, <4>2 DEF Serving
    <3>4. \A p \in Requests \ {r} : Creating(p)' => GP!Call(p)' # GP!Call(r)
      <4>1. Creating(q)' => GP!Call(q)' # GP!Call(r)
        BY DEF Serving
      <4>2. \A p \in Requests \ {q, r} : Creating(p)' => Creating(p) /\ GP!Call(p)' = GP!Call(p)
        BY <1>1 DEF Creating
      <4> QED
        BY <3>1, <4>1, <4>2 DEF ReplyInv
    <3> QED
      BY <3>1, <3>3, <3>4
  <2> QED
    BY <2>1, <2>2
<1>5. ASSUME NEW s \in GP!StoreKeys, GP!Recorded(s)'
      PROVE  handler'[idem'[s].result].answer \in {"committed", "succeeded"}
  <2>1. CASE idem'[s] = idem[s]
    <3>1. GP!Recorded(s) /\ idem[s].result \in Requests
      BY <1>5, <2>1 DEF GP!Recorded, Inv, GP!ClientInv, GP!Genuine, GP!Inv, GP!TypeOK
    <3> QED
      BY <1>1, <1>2, <2>1, <3>1 DEF ReplyInv
  <2>2. CASE idem'[s].result = q /\ handler'[q].answer \in {"committed", "succeeded"}
    BY <2>2
  <2> QED
    BY <2>1, <2>2 DEF Serving
<1> QED
  BY <1>3, <1>4, <1>5 DEF ReplyInv

\* The row of a settled commit that has one decider is not written to again.
LEMMA WritesKeepCommitted ==
  ASSUME Inv, SoleInv, NEW q \in Requests, Serving(q), NEW p \in Requests, Settled(p),
         SoleDecider
  PROVE  log[wf.toolCall] = "committed" /\ log'[wf.toolCall] = "committed"
<1>1. log[wf.toolCall] = "committed"
  BY DEF SoleInv, SettledInv
<1>2. /\ GP!Pc(p) # "idle" /\ GP!Op(p) = "commit" /\ Ran(p)
  BY RanHasArrived DEF Settled
<1>3. GP!Tool(p) = wf.tool /\ wf.tool \in Mock /\ wf.toolCall \in ToolCalls
  BY <1>2, CommitFacts DEF SoleInv, ReplyInv
<1>4. wf.toolCall \in Approvals
  BY <1>2, CommitFacts, SoleIsTold DEF SoleInv, SoleDecider
<1>5. log \in [ToolCalls -> GP!LogStatus]
  BY DEF Inv, GP!Inv, GP!TypeOK
<1>6. ASSUME NEW v, log' = [log EXCEPT ![GP!Call(q)] = v], Writes(q, v),
             GP!Call(q) = wf.toolCall
      PROVE  v = "committed"
  <2>1. ~Creating(q)
    BY <1>1, <1>6 DEF SoleInv, ReplyInv
  <2>2. GP!Op(q) = "commit" => GP!Tool(q) = wf.tool
    BY CommitFacts DEF Serving
  <2> QED
    BY <1>3, <1>4, <1>6, <2>1, <2>2 DEF Writes
<1> QED
  BY <1>1, <1>3, <1>5, <1>6 DEF Serving

LEMMA ServingKeepsSettled ==
  ASSUME Inv, SoleInv, NEW q \in Requests, Serving(q),
         UNCHANGED humanVars, UNCHANGED workflowVars
  PROVE  SettledInv'
<1>1. \A p \in Requests \ {q} :
        handler'[p] = handler[p] /\ (Settled(p)' => Settled(p)) /\ GP!Op(p)' = GP!Op(p)
  BY DEF Serving, Settled, GP!Op, GP!Pc, GP!Content
<1>2. wf' = wf /\ (SoleDecider' => SoleDecider)
  BY DEF humanVars, workflowVars, SoleDecider, Deciders
<1>3. log \in [ToolCalls -> GP!LogStatus]
  BY DEF Inv, GP!Inv, GP!TypeOK
<1>4. ASSUME NEW r \in Requests, Settled(r)', SoleDecider
      PROVE  log'[wf.toolCall] = "committed"
  <2>1. CASE r # q
    BY <1>1, <1>4, <2>1, WritesKeepCommitted
  <2>2. CASE r = q
    <3>0. GP!Op(q) = "commit" /\ GP!Pc(q) # "idle"
      BY <1>4, <2>2 DEF Serving, Settled, GP!Op
    <3>1. CASE GP!Pc(q) = "save"
      <4>1. Settled(q)
        BY <3>0, <3>1 DEF Settled
      <4> QED
        BY <1>4, <4>1, WritesKeepCommitted
    <3>2. CASE log' = [log EXCEPT ![GP!Call(q)] = "committed"]
      BY <1>3, <3>0, <3>2, CommitFacts
    <3>3. CASE Replays(q)
      <4>1. \E p \in Requests : Settled(p)
        BY <3>0, <3>3, ReplaysSettled DEF SoleInv
      <4> QED
        BY <1>4, <4>1, WritesKeepCommitted
    <3> QED
      BY <1>4, <2>2, <3>1, <3>2, <3>3 DEF Serving
  <2> QED
    BY <2>1, <2>2
<1>5. wf.outcome = "completed" =>
        \E r \in Requests : GP!Op(r)' = "commit" /\ handler'[r].answer \in Succeeds
  <2> SUFFICES ASSUME NEW r \in Requests, GP!Op(r) = "commit", handler[r].answer \in Succeeds
               PROVE  GP!Op(r)' = "commit" /\ handler'[r].answer \in Succeeds
    BY DEF SoleInv, SettledInv
  <2>1. r # q
    BY DEF Serving, Succeeds
  <2> QED
    BY <1>1, <2>1
<1> QED
  BY <1>2, <1>4, <1>5 DEF SettledInv

-----------------------------------------------------------------------------
\* Steps that are not the gateway's.
LEMMA ReplyOutlasts ==
  ASSUME ReplyInv,
         \A r \in Requests :
           /\ Ran(r)' => Ran(r) /\ GP!Tool(r)' = GP!Tool(r)
           /\ Creating(r)' => /\ Creating(r) /\ GP!Call(r)' = GP!Call(r)
                              /\ log'[GP!Call(r)] = log[GP!Call(r)]
           /\ handler[r].answer \in {"committed", "succeeded"} =>
                handler'[r].answer = handler[r].answer,
         idem' = idem, Inv
  PROVE  ReplyInv'
<1>1. \A s \in GP!StoreKeys : GP!Recorded(s)' => GP!Recorded(s) /\ idem[s].result \in Requests
  BY DEF GP!Recorded, Inv, GP!ClientInv, GP!Genuine, GP!Inv, GP!TypeOK
<1> QED
  BY <1>1 DEF ReplyInv

\* While a commit is settled the step keeps its tool call.
CommitGoesOn ==
  (wf.pc \in {"commit", "committing", "done"} /\ Consent /\ AwaitsOwn) =>
    /\ wf'.toolCall = wf.toolCall
    /\ SoleDecider' => SoleDecider
    /\ SoleDecider => log'[wf.toolCall] = log[wf.toolCall]

LEMMA SettledOutlasts ==
  ASSUME Inv, SoleInv, CommitGoesOn,
         \A r \in Requests : Settled(r)' => Settled(r),
         wf'.outcome = "completed" =>
           \E r \in Requests : GP!Op(r)' = "commit" /\ handler'[r].answer \in Succeeds
  PROVE  SettledInv'
<1> SUFFICES ASSUME NEW r \in Requests, Settled(r), SoleDecider'
             PROVE  log'[wf'.toolCall] = "committed"
  BY DEF SettledInv
<1>1. GP!Op(r) = "commit" /\ GP!Pc(r) # "idle"
  BY RanHasArrived DEF Settled
<1>2. wf.pc \in {"commit", "committing", "done"} /\ Consent /\ AwaitsOwn
  BY <1>1, CommitFacts
<1> QED
  BY <1>2 DEF CommitGoesOn, SoleInv, SettledInv

\* A handler writes to the log before it tells the workflow, and only if it found its row
\* pending.
LEMMA HumanLogs ==
  ASSUME Inv, NEW e \in HttpCalls, H!Step(e)
  PROVE  \/ log' = log
         \/ /\ call[e].pc = "log" /\ call[e].wasPending
            /\ log' = [log EXCEPT ![task[call[e].task].toolCall] = call[e].verdict]
BY DEF H!Step, H!LoadDecide, H!LoadRespond, H!WriteDecide, H!WriteRespond,
  H!UpdateToolCallLog, H!Signal, H!AppendAudit

LEMMA HumanKeepsLog ==
  ASSUME Inv, DecisionInv, Consent, AwaitsOwn, SoleDecider, NEW e \in HttpCalls, H!Step(e)
  PROVE  log'[wf.toolCall] = log[wf.toolCall]
<1>1. log \in [ToolCalls -> GP!LogStatus]
  BY DEF Inv, GP!Inv, GP!TypeOK
<1>2. wf.toolCall \in ToolCalls
  BY DEF AwaitsOwn, Inv, RowInv, GP!Logged
<1>3. PICK c \in HttpCalls : Deciders(wf.toolCall) = {c}
  BY DEF SoleDecider
<1>4. call[c].pc \in Told
  BY <1>3, SoleIsTold
<1>5. ASSUME call[e].pc = "log", call[e].wasPending
      PROVE  task[call[e].task].toolCall # wf.toolCall
  BY <1>3, <1>4, <1>5, BegunDecides DEF Told
<1> QED
  BY <1>1, <1>2, <1>5, HumanLogs

\* A begun handler can make deciders rivals, and never the other way round: whoever told
\* the workflow stays a decider.
LEMMA SoleStays ==
  ASSUME Inv, DecisionInv, Consent, AwaitsOwn, wf'.toolCall = wf.toolCall,
         \A k : Deciders(k) \subseteq Deciders(k)'
  PROVE  SoleDecider' => SoleDecider
<1>1. wf.awaited \in HumanTasks /\ inbox[wf.awaited].decision # None
      /\ task[wf.awaited].toolCall = wf.toolCall
  BY StepAssumption DEF Consent, AwaitsOwn
<1>2. PICK d \in HttpCalls : ToldBy(wf.awaited, d)
  BY <1>1 DEF DecisionInv
<1>3. d \in Deciders(wf.toolCall)
  <2>1. call[d].task = wf.awaited /\ call[d].wasPending /\ call[d].pc # "idle"
    BY <1>2 DEF ToldBy, Told
  <2> QED
    BY <1>1, <2>1, BegunDecides
<1> SUFFICES ASSUME NEW c \in HttpCalls, Deciders(wf.toolCall)' = {c}
             PROVE  Deciders(wf.toolCall) = {c}
  BY DEF SoleDecider
<1>4. Deciders(wf.toolCall) \subseteq {c}
  BY DEF Deciders
<1> QED
  BY <1>3, <1>4

LEMMA HumanKeepsSole ==
  ASSUME Inv, SoleInv, NEW e \in HttpCalls,
         \/ H!Step(e)
         \/ H!Lose(e)
         \/ \E t \in HumanTasks, v \in H!Verdicts : H!Begin(e, t, v),
         UNCHANGED gatewayVars, UNCHANGED workflowVars
  PROVE  SoleInv'
<1>0. handler' = handler /\ idem' = idem /\ wf' = wf
  BY DEF gatewayVars, workflowVars
<1>1. DecisionInv' /\ \A k : Deciders(k) \subseteq Deciders(k)'
  BY DecisionStepKeeps, DecisionLoseKeeps, DecisionBeginKeeps DEF SoleInv
<1>2. \A r \in Requests : /\ Ran(r)' <=> Ran(r)
                          /\ Settled(r)' <=> Settled(r)
                          /\ Creating(r)' <=> Creating(r)
                          /\ GP!Tool(r)' = GP!Tool(r) /\ GP!Call(r)' = GP!Call(r)
                          /\ GP!Op(r)' = GP!Op(r)
  BY <1>0 DEF Ran, Settled, Creating, Succeeds, GP!Tool, GP!Call, GP!Op, GP!Pc, GP!Content
<1>3. ASSUME NEW r \in Requests, Creating(r)
      PROVE  log'[GP!Call(r)] = log[GP!Call(r)]
  <2>1. CASE log' = log
    BY <2>1
  <2>2. CASE H!Step(e)
    <3>1. log[GP!Call(r)] = "none"
      BY <1>3 DEF SoleInv, ReplyInv
    <3>2. PICK k \in ToolCalls, v \in {"approved", "rejected"} :
            GP!Logged(k) /\ (log' = log \/ log' = [log EXCEPT ![k] = v])
      BY <2>2, HumanStepMoves DEF HumanMove
    <3>3. GP!Call(r) # k /\ log \in [ToolCalls -> GP!LogStatus] /\ GP!Call(r) \in ToolCalls
      BY <1>3, <3>1, <3>2
      DEF Creating, GP!Logged, Inv, GP!Inv, GP!TypeOK, GP!RequestInv, GP!Knows
    <3> QED
      BY <3>2, <3>3
  <2> QED
    BY <2>1, <2>2 DEF H!Lose, H!Begin
<1>4. ReplyInv'
  BY <1>0, <1>2, <1>3, ReplyOutlasts DEF SoleInv
<1>5. CommitGoesOn
  BY <1>0, <1>1, SoleStays, HumanKeepsLog DEF CommitGoesOn, SoleInv, H!Lose, H!Begin
<1>6. SettledInv'
  BY <1>0, <1>2, <1>5, SettledOutlasts DEF SoleInv, SettledInv
<1> QED
  BY <1>1, <1>4, <1>6 DEF SoleInv

LEMMA ServingKeepsSole ==
  ASSUME Inv, SoleInv, NEW q \in Requests, GP!Step(q) \/ GP!Lose(q),
         UNCHANGED humanVars, UNCHANGED workflowVars
  PROVE  SoleInv'
<1>1. DecisionInv'
  BY OthersKeepDecision DEF SoleInv, humanVars
<1> QED
  BY <1>1, StepServes, ServingKeepsReply, ServingKeepsSettled DEF SoleInv

\* The steps of the workflow: rows may be inserted, one request may arrive.
LEMMA WorkflowKeepsSole ==
  ASSUME Inv, SoleInv, UNCHANGED <<call, inbox, log, idem>>,
         \A t \in HumanTasks : \/ task'[t] = task[t]
                               \/ ~Handled(t) /\ task'[t].status = "pending",
         \A r \in Requests : \/ handler'[r] = handler[r]
                             \/ /\ handler[r].answer = "none" /\ handler'[r].answer = "none"
                                /\ handler'[r].pc \in {"policy", "replay"},
         wf.pc \in {"commit", "committing", "done"} => wf'.toolCall = wf.toolCall,
         wf'.outcome = "completed" =>
           \E r \in Requests : GP!Op(r) = "commit" /\ handler[r].answer \in Succeeds
  PROVE  SoleInv'
<1>1. DecisionInv' /\ \A k : Deciders(k)' = Deciders(k)
  BY OthersKeepDecision DEF SoleInv
<1>2. \A r \in Requests : /\ Ran(r)' => Ran(r) /\ GP!Tool(r)' = GP!Tool(r)
                          /\ Settled(r)' => Settled(r)
                          /\ Creating(r)' => Creating(r) /\ GP!Call(r)' = GP!Call(r)
                          /\ handler[r].answer # "none" => /\ handler'[r] = handler[r]
                                                           /\ GP!Op(r)' = GP!Op(r)
  BY DEF Ran, Settled, Creating, Succeeds, GP!Tool, GP!Call, GP!Op, GP!Pc, GP!Content
<1>3. ReplyInv'
  BY <1>2, ReplyOutlasts DEF SoleInv
<1>4. CommitGoesOn
  BY <1>1, SoleStays DEF CommitGoesOn, SoleInv
<1>5. SettledInv'
  BY <1>2, <1>4, SettledOutlasts DEF Succeeds
<1> QED
  BY <1>1, <1>3, <1>5 DEF SoleInv

LEMMA SentArrives ==
  ASSUME Inv, SendPreview \/ SendCommit
  PROVE  /\ UNCHANGED humanVars
         /\ \E r \in Requests, c \in Contents, pc \in {"previewing", "committing"} :
              GP!Arrive(r, c) /\ wf' = [wf EXCEPT !.pc = pc, !.request = r]
<1>1. /\ PreviewOf(wf.tool) \in Contents
      /\ wf.pc = "commit" => CommitOf(wf.tool, wf.toolCall) \in Contents
  BY DEF Step, Locals, Contents, Inv, TypeOK, StepInv, GP!Logged
<1>2. PICK c \in Contents, pc \in {"previewing", "committing"} : Send(c, pc)
  BY <1>1, Zenon DEF SendPreview, SendCommit
<1>3. PICK r \in Requests : G!Arrive(r, c) /\ wf' = [wf EXCEPT !.pc = pc, !.request = r]
  BY <1>2, Zenon DEF Send
<1>4. GP!TypeOK
  BY DEF Inv, GP!Inv
<1>5. GP!Arrive(r, c)
  BY <1>3, <1>4, SameSteps
<1>6. UNCHANGED humanVars
  BY <1>2, Zenon DEF Send
<1> QED
  BY <1>3, <1>5, <1>6, Zenon

\* A step is completed by the answer to its commit.
LEMMA WorkflowOutcomes ==
  ASSUME Inv, SoleInv, Workflow \/ Timeout
  PROVE  /\ wf.pc \in {"commit", "committing", "done"} => wf'.toolCall = wf.toolCall
         /\ wf'.outcome = "completed" =>
              \E r \in Requests : GP!Op(r) = "commit" /\ handler[r].answer \in Succeeds
<1>0. wf \in Step /\ (wf.pc # "done" => wf.outcome = "none")
  BY DEF Inv, TypeOK, StepInv
<1>1. wf.outcome = "completed" =>
        \E r \in Requests : GP!Op(r) = "commit" /\ handler[r].answer \in Succeeds
  BY DEF SoleInv, SettledInv
<1>2. ASSUME NEW pc, Thrown(pc)
      PROVE  wf'.toolCall = wf.toolCall /\ wf'.outcome \in {wf.outcome, "failed"}
  BY <1>0, <1>2 DEF Thrown, RetryFrom, Finish, Step, Locals
<1>3. ASSUME Finish("failed")
      PROVE  wf'.toolCall = wf.toolCall /\ wf'.outcome = "failed"
  BY <1>0, <1>3 DEF Finish, Step, Locals
<1>4. CASE PreviewReturns
  <2>1. wf.pc = "previewing"
    BY <1>4 DEF PreviewReturns
  <2>2. wf'.outcome \in {wf.outcome, "failed"}
    <3>1. CASE wf' = [wf EXCEPT !.pc = "create", !.attempt = 1, !.request = None,
                                !.toolCall = G!Call(wf.request)]
      BY <1>0, <3>1 DEF Step, Locals
    <3> QED
      BY <1>2, <1>3, <1>4, <3>1 DEF PreviewReturns
  <2> QED
    BY <1>1, <2>1, <2>2
<1>5. CASE SendPreview \/ SendCommit
  <2>1. PICK r \in Requests, pc \in {"previewing", "committing"} :
          wf' = [wf EXCEPT !.pc = pc, !.request = r]
    BY <1>5, SentArrives, Zenon
  <2>2. wf'.toolCall = wf.toolCall /\ wf'.outcome = wf.outcome
    BY <1>0, <2>1 DEF Step, Locals
  <2> QED
    BY <1>1, <2>2
<1>6. CASE CreateReturns \/ \E t \in HumanTasks : InsertTask(t)
  <2>1. wf'.toolCall = wf.toolCall /\ wf'.outcome = wf.outcome
    <3>1. CASE CreateReturns
      BY <1>0, <3>1 DEF CreateReturns, Step, Locals
    <3>2. ASSUME NEW t \in HumanTasks, InsertTask(t)
          PROVE  wf'.toolCall = wf.toolCall /\ wf'.outcome = wf.outcome
      BY <1>0, <3>2 DEF InsertTask, Step, Locals
    <3> QED
      BY <1>6, <3>1, <3>2
  <2> QED
    BY <1>1, <2>1
<1>7. CASE DecisionArrives
  <2>1. Finish("failed") \/ wf' = [wf EXCEPT !.pc = "commit"]
    BY <1>7 DEF DecisionArrives
  <2> QED
    BY <1>0, <1>1, <1>3, <2>1 DEF Step, Locals
<1>8. CASE CommitReturns
  <2>1. /\ wf.pc = "committing" /\ wf.request \in Requests
        /\ GP!Content(wf.request) = CommitOf(wf.tool, wf.toolCall)
    BY <1>8 DEF CommitReturns, Inv, RequestsInv
  <2>2. GP!Op(wf.request) = "commit"
    BY <2>1 DEF GP!Op, CommitOf
  <2>3. CASE Reply \in {"committed", "replayed"} /\ Finish("completed")
    <3>1. wf'.toolCall = wf.toolCall
      BY <1>0, <2>3 DEF Finish, Step, Locals
    <3> QED
      BY <2>1, <2>2, <2>3, <3>1 DEF Reply, Succeeds
  <2>4. CASE Thrown("commit")
    BY <1>1, <1>2, <2>4
  <2> QED
    BY <1>8, <2>3, <2>4 DEF CommitReturns, Thrown
<1>9. CASE Timeout
  <2>1. \E pc : Thrown(pc)
    BY <1>9 DEF Timeout, TimeoutOfRequest, TimeoutOfCreate, Thrown
  <2> QED
    BY <1>1, <1>2, <2>1
<1> QED
  BY <1>4, <1>5, <1>6, <1>7, <1>8, <1>9 DEF Workflow

LEMMA SendKeepsSole ==
  ASSUME Inv, SoleInv, SendPreview \/ SendCommit
  PROVE  SoleInv'
<1>1. UNCHANGED humanVars
  BY SentArrives, Zenon
<1>2. PICK r \in Requests, c \in Contents : GP!Arrive(r, c)
  BY SentArrives, Zenon
<1>3. /\ UNCHANGED <<log, idem>> /\ \A q \in Requests \ {r} : handler'[q] = handler[q]
      /\ handler'[r].answer = "none" /\ handler'[r].pc \in {"policy", "replay"}
  BY <1>2 DEF GP!Arrive, GP!TypeOK, Inv, GP!Inv
<1>4. handler[r].answer = "none"
  <2>1. GP!Pc(r) = "idle" /\ GP!RequestInv(r)
    BY <1>2 DEF GP!Arrive, GP!At, GP!Pc, Inv, GP!Inv
  <2> QED
    BY <2>1 DEF GP!RequestInv, GP!Knows, GP!Idle
<1> QED
  BY <1>1, <1>3, <1>4, WorkflowOutcomes, WorkflowKeepsSole DEF Workflow, humanVars

LEMMA InsertKeepsSole ==
  ASSUME Inv, SoleInv, NEW t \in HumanTasks, InsertTask(t) \/ StrayInsert(t)
  PROVE  SoleInv'
<1>1. /\ H!CreateTask(t, "approval", wf.toolCall)
      /\ UNCHANGED <<inbox, call, log, handler, idem>>
  BY DEF InsertTask, StrayInsert, gatewayVars
<1>2. \A u \in HumanTasks : task'[u] = task[u] \/ (~Handled(u) /\ task'[u].status = "pending")
  BY <1>1 DEF H!CreateTask, Handled, Inv, TypeOK, H!TypeOK
<1>3. /\ wf.pc \in {"commit", "committing", "done"} => wf'.toolCall = wf.toolCall
      /\ wf'.outcome = "completed" =>
           \E r \in Requests : GP!Op(r) = "commit" /\ handler[r].answer \in Succeeds
  <2>1. CASE InsertTask(t)
    BY <2>1, WorkflowOutcomes DEF Workflow
  <2>2. CASE StrayInsert(t)
    BY <2>2 DEF StrayInsert, SoleInv, SettledInv
  <2> QED
    BY <2>1, <2>2
<1> QED
  BY <1>1, <1>2, <1>3, WorkflowKeepsSole

LEMMA SoleInit == Init => Inv /\ SoleInv
<1> SUFFICES ASSUME Init PROVE SoleInv
  BY InitInv
<1> USE StepAssumption
<1>1. DecisionInv
  BY DEF Init, DecisionInv, DeciderInv, Alone, H!IdleCall, H!AbsentRow
<1>2. \A r \in Requests : ~Ran(r) /\ ~Settled(r) /\ ~Creating(r)
  BY DEF Init, G!Init, G!Idle, Ran, Settled, Creating, Succeeds, GP!Pc
<1>3. ReplyInv
  <2>1. \A s \in GP!StoreKeys : ~GP!Recorded(s)
    BY SameNames DEF Init, GP!Init, GP!Recorded, GP!NoRecord
  <2> QED
    BY <1>2, <2>1 DEF ReplyInv
<1>4. SettledInv
  BY <1>2 DEF Init, Start, SettledInv
<1> QED
  BY <1>1, <1>3, <1>4 DEF SoleInv

LEMMA SoleNext == Inv /\ SoleInv /\ [Next]_vars => SoleInv'
<1> SUFFICES ASSUME Inv, SoleInv, [Next]_vars PROVE SoleInv'
  OBVIOUS
<1>1. CASE PreviewReturns \/ CreateReturns \/ DecisionArrives \/ CommitReturns \/ Timeout
  <2>1. UNCHANGED <<task, call, inbox, log, handler, idem>>
    BY <1>1 DEF PreviewReturns, CreateReturns, DecisionArrives, CommitReturns, Timeout,
      Elsewhere, humanVars, gatewayVars
  <2> QED
    BY <1>1, <2>1, WorkflowOutcomes, WorkflowKeepsSole DEF Workflow
<1>2. ASSUME NEW c \in HttpCalls,
             \/ HumanStep(c) \/ LoseCall(c)
             \/ \E t \in HumanTasks, v \in H!Verdicts : Click(c, t, v)
      PROVE  SoleInv'
  <2>1. /\ \/ H!Step(c) \/ H!Lose(c)
           \/ \E t \in HumanTasks, v \in H!Verdicts : H!Begin(c, t, v)
        /\ UNCHANGED gatewayVars /\ UNCHANGED workflowVars
    BY <1>2 DEF HumanStep, LoseCall, Click
  <2> QED
    BY <2>1, HumanKeepsSole
<1>3. ASSUME NEW r \in Requests, GatewayStep(r) \/ LoseRequest(r) PROVE SoleInv'
  <2>1. /\ GP!TypeOK /\ (GP!Step(r) \/ GP!Lose(r))
        /\ UNCHANGED humanVars /\ UNCHANGED workflowVars
    BY <1>3, SameSteps DEF GatewayStep, LoseRequest, Inv, GP!Inv
  <2> QED
    BY <2>1, ServingKeepsSole
<1>4. CASE UNCHANGED vars
  <2>1. UNCHANGED <<task, call, inbox, log, handler, idem, wf>>
    BY <1>4 DEF vars, humanVars, gatewayVars, workflowVars
  <2> QED
    BY <2>1, WorkflowKeepsSole DEF SoleInv, SettledInv
<1> QED
  BY <1>1, <1>2, <1>3, <1>4, SendKeepsSole, InsertKeepsSole DEF Next, Workflow

\* A step that completed after a single handler found its tool call undecided has the
\* tool_call_log at committed, for ever: neither runtime-api nor a late request writes over
\* what its commit left there.
THEOREM SoleApprovalCommitted == Spec => []SoleApprovalStaysCommitted
<1>1. SoleInv => SoleApprovalStaysCommitted
  BY DEF SoleInv, SettledInv, Settled, SoleApprovalStaysCommitted, SoleDecider
<1> QED
  BY <1>1, InvHolds, SoleInit, SoleNext, PTL DEF Spec

-----------------------------------------------------------------------------
(***************************************************************************)
(* Liveness. A decision travels from the row to the workflow with a        *)
(* handler of runtime-api (OnTheWay), and from there to the end with the   *)
(* commits of the workflow: each goes through the stages of the gateway in *)
(* one direction (After), and its reply ends the step or sends another.    *)
(* The attempts of an agent are counted out one after the other (Due,      *)
(* Sent), which is why their maximum is bounded; those of a flow have no   *)
(* end. StepGoesOn is about ENABLED and left to TLC: a step that is stuck  *)
(* violates DecisionEndsStep.                                              *)
(***************************************************************************)
Known(t) == inbox[t].decision # None \/ H!LostOn(t)

AtLog(c, t)    == call[c].task = t /\ call[c].pc = "log" /\ call[c].wasPending
AtSignal(c, t) == call[c].task = t /\ call[c].pc = "signal"

OnTheWay ==
  \A t \in HumanTasks : task[t].status \in H!Verdicts
    => Known(t) \/ \E c \in HttpCalls : AtLog(c, t) \/ AtSignal(c, t)

\* What the steps of the composition do to the tables of runtime-api.
LEMMA HumanSide ==
  ASSUME Inv, [Next]_vars
  PROVE  \/ UNCHANGED <<task, inbox, call>>
         \/ /\ UNCHANGED <<inbox, call>>
            /\ \E t \in HumanTasks : H!CreateTask(t, "approval", wf.toolCall)
         \/ \E c \in HttpCalls : H!Step(c) \/ H!Lose(c)
         \/ \E c \in HttpCalls, t \in HumanTasks, v \in H!Verdicts : H!Begin(c, t, v)
<1>1. CASE SendPreview \/ SendCommit
  BY <1>1 DEF SendPreview, SendCommit, Send, humanVars
<1>2. CASE PreviewReturns \/ CreateReturns \/ DecisionArrives \/ CommitReturns \/ Timeout
  BY <1>2 DEF PreviewReturns, CreateReturns, DecisionArrives, CommitReturns, Timeout,
     Elsewhere, humanVars
<1>3. CASE \E t \in HumanTasks : InsertTask(t) \/ StrayInsert(t)
  BY <1>3 DEF InsertTask, StrayInsert
<1>4. CASE \E r \in Requests : GatewayStep(r) \/ LoseRequest(r)
  BY <1>4 DEF GatewayStep, LoseRequest, humanVars
<1>5. CASE \E c \in HttpCalls : HumanStep(c) \/ LoseCall(c)
  BY <1>5 DEF HumanStep, LoseCall
<1>6. CASE \E c \in HttpCalls, t \in HumanTasks, v \in H!Verdicts : Click(c, t, v)
  BY <1>6 DEF Click
<1>7. CASE UNCHANGED vars
  BY <1>7 DEF vars, humanVars
<1> QED
  BY <1>1, <1>2, <1>3, <1>4, <1>5, <1>6, <1>7 DEF Next, Workflow

LEMMA CallTypes ==
  ASSUME Inv
  PROVE  /\ call \in [HttpCalls -> H!Handler] /\ task \in [HumanTasks -> H!Row]
         /\ inbox \in [HumanTasks -> [decision : H!Verdicts \cup {None}, response : {} \cup {None}]]
         /\ \A c \in HttpCalls : ~H!IsResponse(c)
         /\ None \notin H!Verdicts /\ None \notin HumanTasks
BY StepAssumption DEF Inv, TypeOK, H!TypeOK, H!IsResponse, H!Verdicts

\* A handler at its last awaits leaves them by its own step, or it is lost.
LEMMA CallMoves ==
  ASSUME Inv, [Next]_vars, NEW c \in HttpCalls, call[c].pc \in {"log", "signal", "failed"}
  PROVE  /\ call'[c].task = call[c].task /\ call'[c].verdict = call[c].verdict
         /\ call'[c].wasPending = call[c].wasPending
         /\ \/ call'[c] = call[c]
            \/ call'[c].pc = "failed"
            \/ /\ call[c].pc = "log" /\ call'[c].pc # "log"
               /\ call[c].wasPending => call'[c].pc = "signal"
            \/ call[c].pc = "signal" /\ H!Signal(c) /\ call'[c].pc # "signal"
<1>0. call \in [HttpCalls -> H!Handler] /\ ~H!IsResponse(c)
  BY CallTypes
<1>1. ASSUME NEW d \in HttpCalls, NEW pc, H!Goto(d, pc)
      PROVE  /\ d # c => call'[c] = call[c]
             /\ call'[d] = [call[d] EXCEPT !.pc = pc]
  BY <1>0, <1>1 DEF H!Goto
<1>2. ASSUME NEW d \in HttpCalls, H!Step(d) \/ H!Lose(d)
      PROVE  \E pc : H!Goto(d, pc)
  BY <1>2 DEF H!Step, H!Lose, H!LoadDecide, H!LoadRespond, H!WriteDecide, H!WriteRespond,
     H!UpdateToolCallLog, H!Signal, H!AppendAudit
<1>3. ASSUME H!Lose(c) PROVE H!Goto(c, "failed")
  BY <1>3 DEF H!Lose
<1>4. ASSUME H!Step(c)
      PROVE  \/ /\ call[c].pc = "log"
                /\ H!Goto(c, IF call[c].wasPending THEN "signal" ELSE "done")
             \/ call[c].pc = "signal" /\ H!Signal(c) /\ H!Goto(c, "audit")
  BY <1>0, <1>4 DEF H!Step, H!LoadDecide, H!LoadRespond, H!WriteDecide, H!WriteRespond,
     H!UpdateToolCallLog, H!Signal, H!AppendAudit
<1>5. ASSUME NEW d \in HttpCalls, NEW t \in HumanTasks, NEW v \in H!Verdicts, H!Begin(d, t, v)
      PROVE  call'[c] = call[c]
  BY <1>0, <1>5 DEF H!Begin
<1>6. call[c] \in H!Handler
  BY <1>0
<1>7. ASSUME NEW d \in HttpCalls, d # c, H!Step(d) \/ H!Lose(d)
      PROVE  call'[c] = call[c]
  BY <1>1, <1>2, <1>7
<1>8. ASSUME H!Lose(c)
      PROVE  call'[c] = [call[c] EXCEPT !.pc = "failed"]
  BY <1>1, <1>3, <1>8
<1>9. ASSUME H!Step(c)
      PROVE  \/ /\ call[c].pc = "log"
                /\ call'[c] = [call[c] EXCEPT
                                 !.pc = IF call[c].wasPending THEN "signal" ELSE "done"]
             \/ call[c].pc = "signal" /\ H!Signal(c) /\ call'[c] = [call[c] EXCEPT !.pc = "audit"]
  BY <1>1, <1>4, <1>9
<1>10. CASE H!Step(c)
  BY <1>6, <1>9, <1>10 DEF H!Handler
<1>11. CASE H!Lose(c)
  BY <1>6, <1>8, <1>11 DEF H!Handler
<1> QED
  BY <1>5, <1>7, <1>10, <1>11, HumanSide

\* Nothing takes back what the workflow was told, or that a handler was lost.
LEMMA KnownStays ==
  ASSUME Inv, [Next]_vars, NEW t \in HumanTasks
  PROVE  /\ inbox[t].decision # None => inbox'[t].decision # None
         /\ H!LostOn(t) => H!LostOn(t)'
<1>1. H!LostOn(t) => H!LostOn(t)'
  BY CallMoves DEF H!LostOn
<1>2. ASSUME NEW c \in HttpCalls, H!Signal(c), inbox[t].decision # None
      PROVE  inbox'[t].decision # None
  BY <1>2, CallTypes DEF H!Signal, H!KeepFirst
<1>3. ASSUME NEW c \in HttpCalls, H!Step(c) \/ H!Lose(c), ~H!Signal(c)
      PROVE  UNCHANGED inbox
  BY <1>3 DEF H!Step, H!Lose, H!LoadDecide, H!LoadRespond, H!WriteDecide, H!WriteRespond,
     H!UpdateToolCallLog, H!AppendAudit
<1>4. ASSUME NEW c \in HttpCalls, NEW u \in HumanTasks, NEW v \in H!Verdicts, H!Begin(c, u, v)
      PROVE  UNCHANGED inbox
  BY <1>4 DEF H!Begin
<1> QED
  BY <1>1, <1>2, <1>3, <1>4, HumanSide

\* A handler at its last awaits stays there until it has told the workflow.
LEMMA HandlerTells ==
  ASSUME Inv, [Next]_vars, NEW c \in HttpCalls, NEW t \in HumanTasks
  PROVE  /\ AtLog(c, t) => \/ AtLog(c, t)' /\ ~HumanStep(c)
                           \/ AtSignal(c, t)' \/ Known(t)'
         /\ AtSignal(c, t) => \/ AtSignal(c, t)' /\ ~HumanStep(c)
                              \/ Known(t)'
<1>1. call'[c].task = t /\ call'[c].pc = "failed" => Known(t)'
  BY DEF H!LostOn, Known
<1>2. ASSUME call[c].task = t, H!Signal(c) PROVE Known(t)'
  <2>1. call[c].verdict \in H!Verdicts /\ ~H!IsResponse(c)
    BY <1>2, CallTypes DEF H!Signal, Inv, CallInv
  <2> QED
    BY <1>2, <2>1, CallTypes DEF H!Signal, H!KeepFirst, Known
<1>3. ASSUME call[c].pc \in {"log", "signal"}, HumanStep(c), call'[c] = call[c]
      PROVE  FALSE
  <2>1. call[c] \in H!Handler /\ call \in [HttpCalls -> H!Handler]
    BY CallTypes
  <2>2. \E pc : pc # call[c].pc /\ H!Goto(c, pc)
    BY <1>3 DEF HumanStep, H!Step, H!LoadDecide, H!LoadRespond, H!WriteDecide, H!WriteRespond,
       H!UpdateToolCallLog, H!Signal, H!AppendAudit
  <2> QED
    BY <1>3, <2>1, <2>2 DEF H!Goto, H!Handler
<1> QED
  BY <1>1, <1>2, <1>3, CallMoves DEF AtLog, AtSignal

LEMMA OnTheWayStep == Inv /\ DecisionInv /\ OnTheWay /\ [Next]_vars => OnTheWay'
<1> SUFFICES ASSUME Inv, DecisionInv, OnTheWay, [Next]_vars, NEW t \in HumanTasks,
                    task'[t].status \in H!Verdicts
             PROVE  Known(t)' \/ \E c \in HttpCalls : AtLog(c, t)' \/ AtSignal(c, t)'
  BY DEF OnTheWay, H!Verdicts
<1>1. CASE task'[t].status = task[t].status
  BY <1>1, KnownStays, HandlerTells DEF OnTheWay, Known
<1>2. ASSUME NEW c \in HttpCalls, H!WriteDecide(c), call[c].task = t
      PROVE  AtLog(c, t)'
  <2>1. call[c] \in H!Handler /\ call \in [HttpCalls -> H!Handler]
    BY CallTypes
  <2>2. call[c].wasPending
    BY <1>2 DEF H!WriteDecide, DecisionInv, DeciderInv
  <2> QED
    BY <1>2, <2>1, <2>2 DEF H!WriteDecide, H!Goto, H!Handler, AtLog
<1>3. ASSUME NEW c \in HttpCalls, H!WriteDecide(c), call[c].task # t
      PROVE  task'[t].status = task[t].status
  BY <1>3, CallTypes DEF H!WriteDecide
<1>4. ASSUME NEW c \in HttpCalls, H!Step(c) \/ H!Lose(c), ~H!WriteDecide(c)
      PROVE  UNCHANGED task
  BY <1>4, CallTypes DEF H!Step, H!Lose, H!LoadDecide, H!LoadRespond, H!WriteRespond,
     H!UpdateToolCallLog, H!Signal, H!AppendAudit
<1>5. ASSUME NEW u \in HumanTasks, H!CreateTask(u, "approval", wf.toolCall)
      PROVE  task'[t].status = task[t].status
  BY <1>5, CallTypes DEF H!CreateTask, H!Verdicts
<1>6. ASSUME NEW c \in HttpCalls, NEW u \in HumanTasks, NEW v \in H!Verdicts, H!Begin(c, u, v)
      PROVE  UNCHANGED task
  BY <1>6 DEF H!Begin
<1> QED
  BY <1>1, <1>2, <1>3, <1>4, <1>5, <1>6, HumanSide

-----------------------------------------------------------------------------
\* Where the step can be once it waits.
Onward == {"wait", "commit", "committing", "done"}

\* From the wait on, what is left to the workflow.
LEMMA StepGoes ==
  ASSUME Inv, [Next]_vars, wf.pc \in Onward
  PROVE  /\ wf'.awaited = wf.awaited
         /\ \/ wf' = wf /\ (wf.pc # "done" => ~Workflow)
            \/ wf.pc = "wait" /\ wf'.pc \in {"commit", "done"}
            \/ /\ wf.pc = "commit" /\ wf'.pc = "committing"
               /\ wf'.caller = wf.caller /\ wf'.attempt = wf.attempt
            \/ /\ wf.pc = "committing" /\ wf'.pc \in {"commit", "done"}
               /\ wf'.pc = "commit" =>
                    wf'.caller = wf.caller /\ wf'.attempt = wf.attempt + 1
<1>0. wf \in Step
  BY DEF Inv, TypeOK
<1>1. ASSUME NEW pc, wf' = [wf EXCEPT !.pc = pc]
      PROVE  wf'.pc = pc /\ wf'.awaited = wf.awaited
  BY <1>0, <1>1 DEF Step, Locals
<1>2. ASSUME Finish("failed") \/ Finish("completed")
      PROVE  wf'.pc = "done" /\ wf'.awaited = wf.awaited
  BY <1>0, <1>2 DEF Step, Locals, Finish
<1>3. ASSUME RetryFrom("commit")
      PROVE  /\ wf'.pc \in {"commit", "done"} /\ wf'.awaited = wf.awaited
             /\ wf'.pc = "commit" => wf'.caller = wf.caller /\ wf'.attempt = wf.attempt + 1
  BY <1>0, <1>2, <1>3 DEF Step, Locals, RetryFrom
<1>4. ASSUME SendCommit
      PROVE  /\ wf'.pc = "committing" /\ wf'.awaited = wf.awaited
             /\ wf'.caller = wf.caller /\ wf'.attempt = wf.attempt
  BY <1>0, <1>4 DEF Step, Locals, SendCommit, Send
<1>5. ASSUME Workflow
      PROVE  \/ wf.pc = "wait" /\ DecisionArrives
             \/ wf.pc = "commit" /\ SendCommit
             \/ wf.pc = "committing" /\ CommitReturns
  BY <1>5 DEF Workflow, Onward, SendPreview, PreviewReturns, InsertTask, CreateReturns,
     DecisionArrives, SendCommit, CommitReturns
<1>6. ASSUME DecisionArrives
      PROVE  wf'.pc \in {"commit", "done"} /\ wf'.awaited = wf.awaited
  BY <1>1, <1>2, <1>6 DEF DecisionArrives
<1>7. ASSUME CommitReturns
      PROVE  /\ wf'.pc \in {"commit", "done"} /\ wf'.awaited = wf.awaited
             /\ wf'.pc = "commit" => wf'.caller = wf.caller /\ wf'.attempt = wf.attempt + 1
  BY <1>2, <1>3, <1>7 DEF CommitReturns, Thrown
<1>8. ASSUME Timeout
      PROVE  /\ wf.pc = "committing"
             /\ wf'.pc \in {"commit", "done"} /\ wf'.awaited = wf.awaited
             /\ wf'.pc = "commit" => wf'.caller = wf.caller /\ wf'.attempt = wf.attempt + 1
  BY <1>3, <1>8 DEF Timeout, TimeoutOfRequest, TimeoutOfCreate, Onward
<1>9. CASE Workflow
  BY <1>4, <1>5, <1>6, <1>7, <1>9
<1>10. CASE Timeout
  BY <1>8, <1>10
<1>11. CASE UNCHANGED wf /\ ~Workflow
  BY <1>11
<1>12. CASE UNCHANGED wf
  <2>1. Workflow => wf'.pc # wf.pc
    BY <1>4, <1>5, <1>6, <1>7
  <2> QED
    BY <1>12, <2>1
<1>13. \/ Workflow \/ Timeout
       \/ UNCHANGED wf
  <2>1. ASSUME NEW t \in HumanTasks, StrayInsert(t) PROVE UNCHANGED wf
    BY <2>1 DEF StrayInsert
  <2>2. ASSUME NEW c \in HttpCalls, HumanStep(c) \/ LoseCall(c) PROVE UNCHANGED wf
    BY <2>2 DEF HumanStep, LoseCall, workflowVars
  <2>3. ASSUME NEW c \in HttpCalls, NEW t \in HumanTasks, NEW v \in H!Verdicts, Click(c, t, v)
        PROVE  UNCHANGED wf
    BY <2>3 DEF Click, workflowVars
  <2>4. ASSUME NEW r \in Requests, GatewayStep(r) \/ LoseRequest(r) PROVE UNCHANGED wf
    BY <2>4 DEF GatewayStep, LoseRequest, workflowVars
  <2> QED
    BY <2>1, <2>2, <2>3, <2>4 DEF Next, vars, workflowVars
<1> QED
  BY <1>9, <1>10, <1>12, <1>13

-----------------------------------------------------------------------------
\* The stages of a commit in the gateway, and where each leads.
After(pc) ==
  CASE pc = "replay"   -> {"policy", "answered"}
    [] pc = "policy"   -> {"lookup", "answered"}
    [] pc = "lookup"   -> {"approval", "answered"}
    [] pc = "approval" -> {"reserve", "answered"}
    [] pc = "reserve"  -> {"adapter", "answered"}
    [] pc = "adapter"  -> {"update", "answered"}
    [] pc = "update"   -> {"save"}
    [] OTHER -> {"answered"}

\* The gateway has the commit of the step as request r, at one of the stages S.
Committing(r, S) == wf.pc = "committing" /\ wf.request = r /\ handler[r].pc \in S

LEMMA CommitStep ==
  ASSUME GP!TypeOK, NEW r \in Requests, GP!Knows(r), G!Step(r), G!Op(r) = "commit"
  PROVE  handler'[r].pc \in After(handler[r].pc)
<1>0. handler \in [Requests -> GP!Handler] /\ G!RiskOf(r) = "L3"
  <2>1. handler \in [Requests -> GP!Handler] /\ handler[r].pc # "idle"
    BY DEF GP!TypeOK, G!Step, G!ReadIdempotency, G!CheckPolicy, G!LookupToolCall,
       G!CheckApproval, G!Reserve, G!RefuseCommit, G!RunAdapter, G!UpdateLog, G!CreateLog,
       G!CreateFailedLog, G!SaveRecord, G!At
  <2>2. handler[r].content \in Contents
    BY <2>1 DEF GP!TypeOK
  <2> QED
    BY <2>1, <2>2 DEF G!RiskOf, G!Tool, G!Content, Contents, PreviewOf, CommitOf
<1>1. ASSUME NEW pc, G!Goto(r, pc) PROVE handler'[r].pc = pc
  BY <1>0, <1>1 DEF G!Goto, GP!Handler
<1>2. ASSUME NEW a, G!Answer(r, a) PROVE handler'[r].pc = "answered"
  BY <1>0, <1>2 DEF G!Answer, GP!Handler
<1>3. ASSUME NEW a, NEW q, G!Reply(r, a, q) PROVE handler'[r].pc = "answered"
  BY <1>0, <1>3 DEF G!Reply, GP!Handler
<1> USE DEF G!At, After
<1>4. CASE G!ReadIdempotency(r)
  BY <1>1, <1>2, <1>3, <1>4 DEF G!ReadIdempotency
<1>5. CASE G!CheckPolicy(r)
  BY <1>1, <1>2, <1>5 DEF G!CheckPolicy
<1>6. CASE G!LookupToolCall(r)
  BY <1>0, <1>1, <1>2, <1>6 DEF G!LookupToolCall
<1>7. CASE G!CheckApproval(r)
  BY <1>1, <1>2, <1>7 DEF G!CheckApproval
<1>8. CASE G!Reserve(r)
  <2>1. \/ G!Answer(r, "denied")
        \/ \E k : handler' = [handler EXCEPT ![r].pc = "adapter", ![r].call = k]
    BY <1>8 DEF G!Reserve
  <2>2. handler[r].pc = "reserve"
    BY <1>8 DEF G!Reserve
  <2> QED
    BY <1>0, <1>2, <2>1, <2>2 DEF GP!Handler
<1>9. CASE G!RefuseCommit(r)
  BY <1>2, <1>9 DEF G!RefuseCommit
<1>10. CASE G!RunAdapter(r)
  BY <1>1, <1>2, <1>10 DEF G!RunAdapter
<1>11. CASE G!UpdateLog(r)
  BY <1>1, <1>11 DEF G!UpdateLog
<1>12. ~G!CreateLog(r) /\ ~G!CreateFailedLog(r)
  BY SameNames DEF GP!Knows, GP!Pc, G!CreateLog, G!CreateFailedLog
<1>13. CASE G!SaveRecord(r)
  BY <1>2, <1>3, <1>13 DEF G!SaveRecord
<1> QED
  BY <1>4, <1>5, <1>6, <1>7, <1>8, <1>9, <1>10, <1>11, <1>12, <1>13 DEF G!Step

\* A commit that is under way in the gateway goes through its stages, however long the
\* workflow waits for it.
LEMMA RequestGoes ==
  ASSUME Inv, [Next]_vars, NEW r \in Requests, NEW pc \in GP!Pcs \ {"idle"},
         Committing(r, {pc})
  PROVE  \/ wf'.pc # "committing"
         \/ Committing(r, {pc})' /\ ~GatewayStep(r)
         \/ Committing(r, After(pc) \cup {"answered"})'
<1>0. GP!TypeOK /\ wf.pc = "committing" /\ wf.request = r /\ handler[r].pc = pc
      /\ handler \in [Requests -> GP!Handler] /\ pc # "idle"
  BY DEF Inv, GP!Inv, GP!TypeOK, Committing
<1>1. G!Op(r) = "commit"
  BY <1>0, SameNames DEF Inv, RequestsInv, GP!Op, CommitOf
<1>2. wf' = wf \/ wf'.pc # "committing"
  BY <1>0, StepGoes DEF Onward
<1>3. G!Step(r) => handler'[r].pc \in After(pc)
  BY <1>0, <1>1, CommitStep DEF Inv, GP!Inv, GP!RequestInv
<1>5. CASE GatewayStep(r) /\ wf' = wf
  BY <1>0, <1>3, <1>5 DEF GatewayStep, Committing
<1>6. CASE ~GatewayStep(r) /\ wf' = wf
  <2>1. ASSUME NEW q \in Requests, q # r, G!Step(q) \/ G!Lose(q) PROVE handler'[r] = handler[r]
    BY <1>0, <2>1
    DEF G!Step, G!Lose, G!ReadIdempotency, G!CheckPolicy, G!LookupToolCall, G!CheckApproval,
        G!Reserve, G!RefuseCommit, G!RunAdapter, G!UpdateLog, G!CreateLog, G!CreateFailedLog,
        G!SaveRecord, G!Goto, G!Answer, G!Reply
  <2>2. ASSUME G!Lose(r) PROVE handler'[r].pc = "answered"
    BY <1>0, <2>2 DEF G!Lose, G!Answer, GP!Handler
  <2>3. ASSUME NEW q \in Requests, NEW c, G!Arrive(q, c) PROVE handler'[r] = handler[r]
    BY <1>0, <2>3 DEF G!Arrive, G!At
  <2>4. handler'[r] = handler[r] \/ handler'[r].pc = "answered"
    <3>1. CASE SendPreview \/ SendCommit
      BY <2>3, <3>1 DEF SendPreview, SendCommit, Send
    <3>2. CASE PreviewReturns \/ CreateReturns \/ DecisionArrives \/ CommitReturns \/ Timeout
      BY <3>2 DEF PreviewReturns, CreateReturns, DecisionArrives, CommitReturns, Timeout,
         Elsewhere, gatewayVars
    <3>3. CASE \E t \in HumanTasks : InsertTask(t) \/ StrayInsert(t)
      BY <3>3 DEF InsertTask, StrayInsert, gatewayVars
    <3>4. CASE \E q \in Requests : GatewayStep(q) \/ LoseRequest(q)
      BY <1>6, <2>1, <2>2, <3>4 DEF GatewayStep, LoseRequest
    <3>5. CASE \E c \in HttpCalls : HumanStep(c) \/ LoseCall(c)
      BY <3>5 DEF HumanStep, LoseCall, gatewayVars
    <3>6. CASE \E c \in HttpCalls, t \in HumanTasks, v \in H!Verdicts : Click(c, t, v)
      BY <3>6 DEF Click, gatewayVars
    <3>7. CASE UNCHANGED vars
      BY <3>7 DEF vars, gatewayVars
    <3> QED
      BY <3>1, <3>2, <3>3, <3>4, <3>5, <3>6, <3>7 DEF Next, Workflow
  <2> QED
    BY <1>0, <1>6, <2>4 DEF Committing
<1> QED
  BY <1>2, <1>5, <1>6

-----------------------------------------------------------------------------
\* Whoever has the next step on the way from the decision to the end can take it.
StepGoesOn ==
  /\ \A c \in HttpCalls : H!UnderWay(c) => ENABLED <<HumanStep(c)>>_vars
  /\ \A r \in Requests :
       wf.pc = "committing" /\ wf.request = r /\ ~Answered => ENABLED <<GatewayStep(r)>>_vars
  /\ \/ wf.pc = "wait" /\ inbox[wf.awaited].decision # None
     \/ wf.pc = "commit" /\ ~Retrying
     \/ wf.pc = "committing" /\ Answered
     => ENABLED <<Workflow>>_vars

\* The end of the step, or a retry that nothing bounds.
Over == wf.pc = "done" \/ Retrying

\* The k-th attempt of the commit is due, or on its way; or it is behind.
Due(k)  == wf.pc = "commit" /\ wf.attempt = k /\ ~Retrying
Sent(k) == wf.pc = "committing" /\ wf.attempt = k /\ ~Retrying
Left(k) == Over \/ Due(k + 1)

Ready(k)        == Sent(k) /\ Answered
SentAs(k, r, S) == Sent(k) /\ Committing(r, S)

Committed    == wf.pc \in {"commit", "committing"}
IsTold(t)    == inbox[t].decision # None
Awaits(t)    == wf.awaited = t /\ wf.pc \in Onward
Resumable(t) == wf.pc = "wait" /\ wf.awaited = t /\ IsTold(t)
IsDecided(t) == wf.pc = "wait" /\ wf.awaited = t /\ task[t].status \in H!Verdicts

Going           == []Inv /\ [][Next]_vars /\ []StepGoesOn /\ FairWorkflow
WillLeave(k)    == <>Left(k)
Served(k, r, S) == SentAs(k, r, S) ~> Left(k)
AlwaysFair      == []Fairness
Tried(k)        == Due(k) \/ Sent(k) ~> Left(k)

\* An attempt is sent once, and left for the next one or for the end.
LEMMA AttemptGoes ==
  ASSUME Inv, [Next]_vars, NEW k \in Nat
  PROVE  /\ Due(k)  => (Due(k)' /\ ~Workflow) \/ Sent(k)'
         /\ Sent(k) => (Sent(k)' /\ wf' = wf /\ ~Workflow) \/ Left(k)'
BY StepGoes DEF Due, Sent, Left, Over, Retrying, Onward

LEMMA DueIsSent ==
  ASSUME NEW k \in Nat
  PROVE  Going => (Due(k) ~> Sent(k))
<1>1. Inv /\ [Next]_vars /\ Due(k) => (Due(k)' /\ ~Workflow) \/ Sent(k)'
  BY AttemptGoes
<1>2. StepGoesOn /\ Due(k) => ENABLED <<Workflow>>_vars
  BY DEF StepGoesOn, Due
<1> QED
  BY <1>1, <1>2, PTL DEF Going, FairWorkflow

\* The reply of the gateway ends the attempt.
LEMMA ReplyEnds ==
  ASSUME NEW k \in Nat
  PROVE  Going => (Ready(k) ~> Left(k))
<1>1. Inv /\ [Next]_vars /\ Ready(k) => (Ready(k)' /\ ~Workflow) \/ Left(k)'
  <2> SUFFICES ASSUME Inv, [Next]_vars, Ready(k)
               PROVE  (Ready(k)' /\ ~Workflow) \/ Left(k)'
    OBVIOUS
  <2>1. PICK r \in Requests : Committing(r, {"answered"})
    BY DEF Ready, Sent, Answered, Committing, Inv, RequestsInv
  <2>2. wf'.pc # "committing" \/ Committing(r, {"answered"})'
    BY <2>1, RequestGoes DEF After, GP!Pcs
  <2>3. (Sent(k)' /\ wf' = wf /\ ~Workflow) \/ Left(k)'
    BY AttemptGoes DEF Ready
  <2> QED
    BY <2>2, <2>3 DEF Ready, Sent, Answered, Committing
<1>2. StepGoesOn /\ Ready(k) => ENABLED <<Workflow>>_vars
  BY DEF StepGoesOn, Ready, Sent
<1> QED
  BY <1>1, <1>2, PTL DEF Going, FairWorkflow

\* A stage of the gateway is left for one that comes after it.
LEMMA StageServed ==
  ASSUME NEW k \in Nat, NEW r \in Requests, NEW pc \in GP!Pcs \ {"idle", "answered"},
         NEW S, After(pc) \subseteq S, "answered" \in S
  PROVE  Going /\ FairRequest(r) /\ Served(k, r, S) => Served(k, r, S \cup {pc})
<1>1. SentAs(k, r, S \cup {pc}) => SentAs(k, r, S) \/ SentAs(k, r, {pc})
  BY DEF SentAs, Committing
<1>2. Inv /\ [Next]_vars /\ SentAs(k, r, {pc})
        => \/ SentAs(k, r, S)' \/ Left(k)'
           \/ SentAs(k, r, {pc})' /\ ~GatewayStep(r)
  <2> SUFFICES ASSUME Inv, [Next]_vars, SentAs(k, r, {pc})
               PROVE  \/ SentAs(k, r, S)' \/ Left(k)'
                      \/ SentAs(k, r, {pc})' /\ ~GatewayStep(r)
    OBVIOUS
  <2>1. \/ wf'.pc # "committing"
        \/ Committing(r, {pc})' /\ ~GatewayStep(r)
        \/ Committing(r, After(pc) \cup {"answered"})'
    BY RequestGoes DEF SentAs
  <2>2. Sent(k)' \/ Left(k)'
    BY AttemptGoes DEF SentAs
  <2> QED
    BY <2>1, <2>2 DEF SentAs, Sent, Committing
<1>3. StepGoesOn /\ SentAs(k, r, {pc}) => ENABLED <<GatewayStep(r)>>_vars
  BY DEF StepGoesOn, SentAs, Committing, Answered
<1> QED
  BY <1>1, <1>2, <1>3, PTL DEF Going, FairRequest, Served

\* From the answer backwards: each stage and those that come after it.
Replied   == {"answered"}
Saves     == Replied \cup {"save"}
Updates   == Saves \cup {"update"}
Runs      == Updates \cup {"adapter"}
Reserves  == Runs \cup {"reserve"}
Consults  == Reserves \cup {"approval"}
Looks     == Consults \cup {"lookup"}
Judges    == Looks \cup {"policy"}
Begins    == Judges \cup {"replay"}

LEMMA CommitServed ==
  ASSUME NEW k \in Nat, NEW r \in Requests
  PROVE  Going /\ FairRequest(r) => Served(k, r, Begins)
<1>1. SentAs(k, r, Replied) => Ready(k)
  BY DEF SentAs, Committing, Replied, Ready, Answered
<1>2. Going /\ FairRequest(r) => Served(k, r, Replied)
  BY <1>1, ReplyEnds, PTL DEF Served
<1> DEFINE Stage == GP!Pcs \ {"idle", "answered"}
<1>3. Going /\ FairRequest(r) => Served(k, r, Saves)
  <2>1. "save" \in Stage /\ After("save") \subseteq Replied /\ "answered" \in Replied
    BY DEF GP!Pcs, After, Replied
  <2> QED
    BY <1>2, <2>1, StageServed DEF Saves
<1>4. Going /\ FairRequest(r) => Served(k, r, Updates)
  <2>1. "update" \in Stage /\ After("update") \subseteq Saves /\ "answered" \in Saves
    BY DEF GP!Pcs, After, Saves, Replied
  <2> QED
    BY <1>3, <2>1, StageServed DEF Updates
<1>5. Going /\ FairRequest(r) => Served(k, r, Runs)
  <2>1. "adapter" \in Stage /\ After("adapter") \subseteq Updates /\ "answered" \in Updates
    BY DEF GP!Pcs, After, Updates, Saves, Replied
  <2> QED
    BY <1>4, <2>1, StageServed DEF Runs
<1>6. Going /\ FairRequest(r) => Served(k, r, Reserves)
  <2>1. "reserve" \in Stage /\ After("reserve") \subseteq Runs /\ "answered" \in Runs
    BY DEF GP!Pcs, After, Runs, Updates, Saves, Replied
  <2> QED
    BY <1>5, <2>1, StageServed DEF Reserves
<1>7. Going /\ FairRequest(r) => Served(k, r, Consults)
  <2>1. /\ "approval" \in Stage /\ After("approval") \subseteq Reserves
        /\ "answered" \in Reserves
    BY DEF GP!Pcs, After, Reserves, Runs, Updates, Saves, Replied
  <2> QED
    BY <1>6, <2>1, StageServed DEF Consults
<1>8. Going /\ FairRequest(r) => Served(k, r, Looks)
  <2>1. "lookup" \in Stage /\ After("lookup") \subseteq Consults /\ "answered" \in Consults
    BY DEF GP!Pcs, After, Consults, Reserves, Runs, Updates, Saves, Replied
  <2> QED
    BY <1>7, <2>1, StageServed DEF Looks
<1>9. Going /\ FairRequest(r) => Served(k, r, Judges)
  <2>1. "policy" \in Stage /\ After("policy") \subseteq Looks /\ "answered" \in Looks
    BY DEF GP!Pcs, After, Looks, Consults, Reserves, Runs, Updates, Saves, Replied
  <2> QED
    BY <1>8, <2>1, StageServed DEF Judges
<1> QED
  <2>1. "replay" \in Stage /\ After("replay") \subseteq Judges /\ "answered" \in Judges
    BY DEF GP!Pcs, After, Judges, Looks, Consults, Reserves, Runs, Updates, Saves, Replied
  <2> QED
    BY <1>9, <2>1, StageServed DEF Begins

\* An attempt that is due or under way is left, whichever request carries it.
LEMMA AttemptEnds ==
  ASSUME NEW k \in Nat
  PROVE  Going /\ AlwaysFair => Tried(k)
<1>1. ASSUME NEW r \in Requests
      PROVE  Going /\ FairRequest(r) /\ SentAs(k, r, Begins) => WillLeave(k)
  BY CommitServed, PTL DEF Served, WillLeave
<1>2. Inv /\ Sent(k) => \E r \in Requests : SentAs(k, r, Begins)
  <2> SUFFICES ASSUME Inv, Sent(k)
               PROVE  wf.request \in Requests /\ handler[wf.request].pc \in Begins
    BY DEF SentAs, Committing, Sent
  <2>0. wf.request \in Requests
    BY DEF Inv, RequestsInv, Sent
  <2>1. /\ handler[wf.request] \in GP!Handler /\ handler[wf.request].pc # "idle"
        /\ GP!Knows(wf.request) /\ GP!Op(wf.request) = "commit"
    BY <2>0 DEF Inv, RequestsInv, Sent, GP!Inv, GP!TypeOK, GP!RequestInv, GP!Pc, GP!Op,
       CommitOf
  <2> QED
    BY <2>0, <2>1
    DEF GP!Handler, GP!Pcs, GP!Knows, GP!Pc, Begins, Judges, Looks, Consults, Reserves,
        Runs, Updates, Saves, Replied
<1>3. Going => Inv
  BY PTL DEF Going
<1>4. Fairness => \A r \in Requests : FairRequest(r)
  BY DEF Fairness
<1>5. Going /\ Fairness /\ Sent(k) => WillLeave(k)
  BY <1>1, <1>2, <1>3, <1>4
<1> QED
  BY <1>5, DueIsSent, PTL DEF Going, FairWorkflow, WillLeave, AlwaysFair, Tried

\* An agent has at most four attempts (PI_ACTIVITY_OPTIONS) and a flow is exempt from
\* its second one on, so a commit is over after four.
LEMMA CommitEnds ==
  ASSUME MaxAttempts <= 4
  PROVE  Going /\ []Fairness => (Committed ~> Over)
<1>0. 1 \in Nat /\ 2 \in Nat /\ 3 \in Nat /\ 4 \in Nat
  OBVIOUS
<1>1. Inv /\ Committed
        => \/ Over \/ Due(1) \/ Sent(1) \/ Due(2) \/ Sent(2)
           \/ Due(3) \/ Sent(3) \/ Due(4) \/ Sent(4)
  <2> SUFFICES ASSUME Inv, Committed, ~Over
               PROVE  \/ Due(1) \/ Sent(1) \/ Due(2) \/ Sent(2)
                      \/ Due(3) \/ Sent(3) \/ Due(4) \/ Sent(4)
    OBVIOUS
  <2>1. wf.attempt \in Nat \ {0} /\ wf.attempt <= 4
    BY StepAssumption DEF Inv, TypeOK, Step, Locals, Callers, Over, Retrying, Committed
  <2>2. wf.attempt = 1 \/ wf.attempt = 2 \/ wf.attempt = 3 \/ wf.attempt = 4
    BY <2>1
  <2> QED
    BY <2>2 DEF Committed, Over, Due, Sent
<1>2. Inv => ~Due(5)
  BY StepAssumption DEF Inv, TypeOK, Step, Locals, Callers, Retrying, Due
<1>3. /\ Left(1) => Over \/ Due(2)
      /\ Left(2) => Over \/ Due(3)
      /\ Left(3) => Over \/ Due(4)
      /\ Left(4) => Over \/ Due(5)
  BY DEF Left
<1>4. Going /\ []Fairness => (Due(4) \/ Sent(4) ~> Over)
  <2>1. Going /\ AlwaysFair => Tried(4)
    BY <1>0, AttemptEnds
  <2> QED
    BY <1>2, <1>3, <2>1, PTL DEF Going, AlwaysFair, Tried
<1>5. Going /\ []Fairness => (Due(3) \/ Sent(3) ~> Over)
  <2>1. Going /\ AlwaysFair => Tried(3)
    BY <1>0, AttemptEnds
  <2> QED
    BY <1>3, <1>4, <2>1, PTL DEF Going, AlwaysFair, Tried
<1>6. Going /\ []Fairness => (Due(2) \/ Sent(2) ~> Over)
  <2>1. Going /\ AlwaysFair => Tried(2)
    BY <1>0, AttemptEnds
  <2> QED
    BY <1>3, <1>5, <2>1, PTL DEF Going, AlwaysFair, Tried
<1>7. Going /\ []Fairness => (Due(1) \/ Sent(1) ~> Over)
  <2>1. Going /\ AlwaysFair => Tried(1)
    BY <1>0, AttemptEnds
  <2> QED
    BY <1>3, <1>6, <2>1, PTL DEF Going, AlwaysFair, Tried
<1> QED
  BY <1>1, <1>4, <1>5, <1>6, <1>7, PTL DEF Going

\* A step that was told the decision ends.
LEMMA HeardEnds ==
  ASSUME MaxAttempts <= 4, NEW t \in HumanTasks
  PROVE  Going /\ []Fairness => (Awaits(t) /\ IsTold(t) ~> Over)
<1>1. Awaits(t) /\ IsTold(t) => Resumable(t) \/ Committed \/ Over
  BY DEF Awaits, IsTold, Resumable, Committed, Over, Onward
<1>2. Inv /\ [Next]_vars /\ Resumable(t)
        => (Resumable(t)' /\ ~Workflow) \/ Committed' \/ Over'
  BY StepGoes, KnownStays DEF Resumable, IsTold, Committed, Over, Onward
<1>3. StepGoesOn /\ Resumable(t) => ENABLED <<Workflow>>_vars
  BY DEF StepGoesOn, Resumable, IsTold
<1> QED
  BY <1>1, <1>2, <1>3, CommitEnds, PTL DEF Going, FairWorkflow

\* What one handler achieves at its last awaits.
Running       == [](Inv /\ DecisionInv /\ OnTheWay) /\ [][Next]_vars /\ []StepGoesOn
WillBeKnown(t) == <>Known(t)

LEMMA DeciderTells ==
  ASSUME NEW c \in HttpCalls, NEW t \in HumanTasks
  PROVE  Running /\ FairCall(c) /\ (AtLog(c, t) \/ AtSignal(c, t)) => WillBeKnown(t)
<1>1. Inv /\ [Next]_vars /\ AtLog(c, t)
        => (AtLog(c, t)' /\ ~HumanStep(c)) \/ AtSignal(c, t)' \/ Known(t)'
  BY HandlerTells
<1>2. Inv /\ [Next]_vars /\ AtSignal(c, t) => (AtSignal(c, t)' /\ ~HumanStep(c)) \/ Known(t)'
  BY HandlerTells
<1>3. StepGoesOn /\ (AtLog(c, t) \/ AtSignal(c, t)) => ENABLED <<HumanStep(c)>>_vars
  BY DEF StepGoesOn, AtLog, AtSignal, H!UnderWay
<1> QED
  BY <1>1, <1>2, <1>3, PTL DEF Running, FairCall, WillBeKnown

LEMMA RunningHolds == Spec => [](Inv /\ DecisionInv /\ OnTheWay)
<1>1. Init => OnTheWay
  BY DEF Init, OnTheWay, H!AbsentRow, H!Verdicts
<1>2. SoleInv => DecisionInv
  BY DEF SoleInv
<1> QED
  BY <1>1, <1>2, InitInv, NextInv, SoleInit, SoleNext, OnTheWayStep, PTL DEF Spec

\* A decision of the task that the workflow waits for ends the step, through signal,
\* commit and an agent's retries, unless the handler that decided was lost or a flow's
\* commit has to be retried. An agent makes at most the four attempts of PI_ACTIVITY_OPTIONS.
THEOREM DecisionsEndSteps ==
  ASSUME MaxAttempts <= 4
  PROVE  Spec /\ []Fairness /\ []StepGoesOn => DecisionEndsStep
<1>1. ASSUME NEW t \in HumanTasks
      PROVE  Running /\ Fairness /\ (\E c \in HttpCalls : AtLog(c, t) \/ AtSignal(c, t))
               => WillBeKnown(t)
  BY DeciderTells DEF Fairness
<1>2. ASSUME NEW t \in HumanTasks
      PROVE  Spec /\ []Fairness /\ []StepGoesOn
               => (wf.pc = "wait" /\ wf.awaited = t /\ task[t].status \in H!Verdicts)
                    ~> (wf.pc = "done" \/ Retrying \/ H!LostOn(t))
  <2>1. OnTheWay /\ IsDecided(t)
          => Known(t) \/ \E c \in HttpCalls : AtLog(c, t) \/ AtSignal(c, t)
    BY DEF OnTheWay, IsDecided
  <2>2. IsDecided(t) => Awaits(t)
    BY DEF IsDecided, Awaits, Onward
  <2>3. Inv /\ [Next]_vars /\ Awaits(t) => Awaits(t)'
    BY StepGoes DEF Awaits, Onward
  <2>4. Inv /\ [Next]_vars /\ IsTold(t) => IsTold(t)'
    BY KnownStays DEF IsTold
  <2>5. Known(t) => IsTold(t) \/ H!LostOn(t)
    BY DEF Known, IsTold
  <2>6. Fairness => FairWorkflow
    BY DEF Fairness
  <2>7. Spec /\ []Fairness /\ []StepGoesOn => (IsDecided(t) ~> Known(t))
    BY <1>1, <2>1, RunningHolds, PTL DEF Spec, Running, WillBeKnown
  <2>8. Spec /\ []Fairness /\ []StepGoesOn
          => (Awaits(t) /\ IsTold(t) ~> Over)
    BY <2>3, <2>4, <2>6, HeardEnds, InvHolds, PTL DEF Spec, Going
  <2>9. Spec /\ []Fairness /\ []StepGoesOn
          => (IsDecided(t) ~> (Over \/ H!LostOn(t)))
    BY <2>2, <2>3, <2>5, <2>7, <2>8, InvHolds, PTL DEF Spec
  <2> QED
    BY <2>9, PTL DEF IsDecided, Over
<1> QED
  BY <1>2 DEF DecisionEndsStep
=============================================================================
