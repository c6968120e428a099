----------------------------- MODULE HumanTask -----------------------------
(***************************************************************************)
(* The human_task row and the two runtime-api handlers that resolve it:    *)
(* HumanTaskService.decide (approve / reject) and HumanTaskService.respond *)
(* (the answer to an agent's request for user input).                      *)
(*                                                                         *)
(* Every handler is a sequence of awaits: a first read of the row by the   *)
(* service, a second read and an unguarded write by the repository, an     *)
(* update of the tool_call_log, a Temporal signal and an audit event. Each *)
(* await is one action, so handlers of several HTTP calls interleave, and  *)
(* a handler may be lost between any two of them.                          *)
(***************************************************************************)
EXTENDS Naturals

CONSTANTS
  Tasks,       \* human_task_id values
  ToolCalls,   \* tool_call_id values an approval may be attached to
  Calls,       \* HTTP calls of approve, reject or respond
  Responses,   \* (response, response_idempotency_key) pairs a user may send
  None,        \* absence of a value (SQL NULL, undefined)
  MaxFaults,   \* bound: handlers lost half way (crash, DB or Temporal error)
  CrossKind    \* whether clients may approve or reject a user_input task

ASSUME ResponsesAssumption ==
  /\ None \notin Tasks \cup ToolCalls \cup Calls \cup Responses
                  \cup {"approved", "rejected"}
  /\ {"approved", "rejected", "resolved"} \cap Responses = {}
  /\ MaxFaults \in Nat
  /\ CrossKind \in BOOLEAN

VARIABLES
  task,       \* human_task rows
  log,        \* tool_call_log.status of each tool call
  inbox,      \* the workflow's decision maps: first signal kept per task
  call,       \* the handler of each HTTP call
  audit,      \* audit events appended by the handlers
  faults

vars == <<task, log, inbox, call, audit, faults>>

Verdicts == {"approved", "rejected"}
Decided  == {"approved", "rejected", "resolved"}
LogStatus ==
  {"none", "previewed", "pending_confirmation", "approved", "rejected",
   "committed", "denied", "failed"}

Row == [status   : {"absent", "pending"} \cup Decided,
        kind     : {"approval", "user_input"},
        toolCall : ToolCalls \cup {None},
        response : Responses \cup {None}]

Handler == [pc         : {"idle", "load", "write", "log", "signal", "audit",
                          "done", "conflict", "failed"},
            task       : Tasks \cup {None},
            verdict    : Verdicts \cup Responses \cup {None},
            wasPending : BOOLEAN]

AbsentRow == [status |-> "absent", kind |-> "approval",
              toolCall |-> None, response |-> None]
IdleCall  == [pc |-> "idle", task |-> None, verdict |-> None,
              wasPending |-> FALSE]

Init ==
  /\ task   = [t \in Tasks |-> AbsentRow]
  /\ log    = [k \in ToolCalls |-> "pending_confirmation"]
  /\ inbox  = [t \in Tasks |-> [decision |-> None, response |-> None]]
  /\ call   = [c \in Calls |-> IdleCall]
  /\ audit  = {}
  /\ faults = 0

-----------------------------------------------------------------------------
\* HumanTaskRepository.create: a fresh id, always pending.
CreateTask(t, kind, k) ==
  /\ task[t].status = "absent"
  /\ task' = [task EXCEPT ![t] = [status |-> "pending", kind |-> kind,
                                  toolCall |-> k, response |-> None]]

Create ==
  /\ \E t \in Tasks :
       \/ \E k \in ToolCalls \cup {None} : CreateTask(t, "approval", k)
       \/ CreateTask(t, "user_input", None)
  /\ UNCHANGED <<log, inbox, call, audit, faults>>

\* What a client may ask of a task. decide checks no kind; respond does, after
\* its own read, so a respond to an approval is a legal request as well.
Offered(t) ==
  Responses \cup (IF CrossKind \/ task[t].kind = "approval" THEN Verdicts ELSE {})

IsResponse(c) == call[c].verdict \in Responses
Goto(c, pc)   == call' = [call EXCEPT ![c].pc = pc]

\* The service's own read: before = store.get(...), wasPending.
Begin(c, t, v) ==
  /\ call[c].pc = "idle"
  /\ task[t].status # "absent"
  /\ v \in Offered(t)
  /\ call' = [call EXCEPT ![c] =
       [pc |-> "load", task |-> t, verdict |-> v,
        wasPending |-> task[t].status = "pending"]]
  /\ UNCHANGED <<task, log, inbox, audit, faults>>

\* Variant, for testing the properties: a decided row is overwritten.
LoadDecideOverwriting(c) ==
  /\ call[c].pc = "load" /\ ~IsResponse(c)
  /\ Goto(c, "write")
  /\ UNCHANGED <<task, log, inbox, audit, faults>>

\* The repository's read and early returns. decide returns an already decided
\* row as it is and the service goes on with the verdict of its own request.
LoadDecide(c) ==
  /\ call[c].pc = "load" /\ ~IsResponse(c)
  /\ Goto(c, IF task[call[c].task].status = "pending" THEN "write" ELSE "log")
  /\ UNCHANGED <<task, log, inbox, audit, faults>>

\* Variant: an answer replaces an earlier one.
LoadRespondReplacing(c) ==
  /\ call[c].pc = "load" /\ IsResponse(c)
  /\ LET row == task[call[c].task] IN
       Goto(c, IF row.kind # "user_input" THEN "failed"
               ELSE IF row.response = call[c].verdict THEN "done" ELSE "write")
  /\ UNCHANGED <<task, log, inbox, audit, faults>>

LoadRespond(c) ==
  /\ call[c].pc = "load" /\ IsResponse(c)
  /\ LET row == task[call[c].task] IN
       \/ row.kind # "user_input"                     /\ Goto(c, "failed")
       \/ /\ row.kind = "user_input"
          /\ \/ row.response = call[c].verdict        /\ Goto(c, "done")
             \/ /\ row.response = None
                /\ row.status = "pending"             /\ Goto(c, "write")
             \/ /\ row.response # call[c].verdict
                /\ row.response # None \/ row.status # "pending"
                /\ Goto(c, "conflict")
  /\ UNCHANGED <<task, log, inbox, audit, faults>>

\* Variant: the workflow is signalled along with the write, before the log update.
WriteDecideSignalling(c) ==
  /\ call[c].pc = "write" /\ ~IsResponse(c)
  /\ task' = [task EXCEPT ![call[c].task].status = call[c].verdict]
  /\ inbox' = [inbox EXCEPT ![call[c].task].decision =
                 IF @ = None THEN call[c].verdict ELSE @]
  /\ Goto(c, "log")
  /\ UNCHANGED <<log, audit, faults>>

\* UPDATE human_task ... WHERE human_task_id = $1: no condition on the status.
WriteDecide(c) ==
  /\ call[c].pc = "write" /\ ~IsResponse(c)
  /\ task' = [task EXCEPT ![call[c].task].status = call[c].verdict]
  /\ Goto(c, "log")
  /\ UNCHANGED <<log, inbox, audit, faults>>

\* Variant: the response is stored but the row stays pending.
WriteRespondLeavingPending(c) ==
  /\ call[c].pc = "write" /\ IsResponse(c)
  /\ task' = [task EXCEPT ![call[c].task].response = call[c].verdict]
  /\ Goto(c, IF call[c].wasPending THEN "signal" ELSE "done")
  /\ UNCHANGED <<log, inbox, audit, faults>>

WriteRespond(c) ==
  /\ call[c].pc = "write" /\ IsResponse(c)
  /\ task' = [task EXCEPT ![call[c].task].status = "resolved",
                          ![call[c].task].response = call[c].verdict]
  /\ Goto(c, IF call[c].wasPending THEN "signal" ELSE "done")
  /\ UNCHANGED <<log, inbox, audit, faults>>

\* Variants: any decision marks the call approved; the workflow is told only of
\* decisions about tool calls.
UpdateToolCallLogApproving(c) ==
  /\ call[c].pc = "log"
  /\ LET k == task[call[c].task].toolCall IN
       log' = IF call[c].wasPending /\ k # None
                THEN [log EXCEPT ![k] = "approved"] ELSE log
  /\ Goto(c, IF call[c].wasPending THEN "signal" ELSE "done")
  /\ UNCHANGED <<task, inbox, audit, faults>>

UpdateToolCallLogSilently(c) ==
  /\ call[c].pc = "log"
  /\ LET k == task[call[c].task].toolCall IN
       /\ log' = IF call[c].wasPending /\ k # None
                   THEN [log EXCEPT ![k] = call[c].verdict] ELSE log
       /\ Goto(c, IF call[c].wasPending /\ k # None THEN "signal" ELSE "done")
  /\ UNCHANGED <<task, inbox, audit, faults>>

\* toolCallLogStore.update(toolCallId, { status }), only if it was pending.
UpdateToolCallLog(c) ==
  /\ call[c].pc = "log"
  /\ LET k == task[call[c].task].toolCall IN
       log' = IF call[c].wasPending /\ k # None
                THEN [log EXCEPT ![k] = call[c].verdict]
                ELSE log
  /\ Goto(c, IF call[c].wasPending THEN "signal" ELSE "done")
  /\ UNCHANGED <<task, inbox, audit, faults>>

\* The signal carries the requested verdict; the workflow's handler keeps the
\* first one per human task.
KeepFirst(old, new) == IF old = None THEN new ELSE old

Signal(c) ==
  /\ call[c].pc = "signal"
  /\ LET t == call[c].task
         v == call[c].verdict
     IN inbox' = IF IsResponse(c)
                   THEN [inbox EXCEPT ![t].response = KeepFirst(@, v)]
                   ELSE [inbox EXCEPT ![t].decision = KeepFirst(@, v)]
  /\ Goto(c, "audit")
  /\ UNCHANGED <<task, log, audit, faults>>

AppendAudit(c) ==
  /\ call[c].pc = "audit"
  /\ audit' = audit \cup {[task |-> call[c].task, verdict |-> call[c].verdict]}
  /\ Goto(c, "done")
  /\ UNCHANGED <<task, log, inbox, faults>>

Step(c) ==
  \/ LoadDecide(c)
  \/ LoadRespond(c)
  \/ WriteDecide(c)
  \/ WriteRespond(c)
  \/ UpdateToolCallLog(c)
  \/ Signal(c)
  \/ AppendAudit(c)

\* The handler is lost between two awaits: the process dies, or a database or
\* Temporal call throws. What it wrote stays; the client gets no success.
UnderWay(c) == call[c].pc \in {"load", "write", "log", "signal", "audit"}

Lose(c) ==
  /\ UnderWay(c)
  /\ faults < MaxFaults
  /\ faults' = faults + 1
  /\ Goto(c, "failed")
  /\ UNCHANGED <<task, log, inbox, audit>>

Next ==
  \/ Create
  \/ \E c \in Calls, t \in Tasks, v \in Verdicts \cup Responses : Begin(c, t, v)
  \/ \E c \in Calls : Step(c)
  \/ \E c \in Calls : Lose(c)

Spec == Init /\ [][Next]_vars

\* A handler that is not lost runs to its end: the event loop resumes it after
\* every await. Nothing obliges a client to call, or a handler to be lost.
Resumed(c) == WF_vars(Step(c))
Fairness   == \A c \in Calls : Resumed(c)
FairSpec   == Spec /\ Fairness

-----------------------------------------------------------------------------
\* Every variable has its type; audit holds verdicts handlers were asked for.
TypeOK ==
  /\ task   \in [Tasks -> Row]
  /\ log    \in [ToolCalls -> LogStatus]
  /\ inbox  \in [Tasks -> [decision : Verdicts \cup {None},
                          response : Responses \cup {None}]]
  /\ call   \in [Calls -> Handler]
  /\ audit  \subseteq [task : Tasks, verdict : Verdicts \cup Responses]
  /\ faults \in 0 .. MaxFaults

\* The workflow hears of a decision only after the database holds one: a worker
\* that reads the row when it is woken finds it decided, whatever handlers
\* overlapped or were lost (decide and respond write before they signal).
SignalFollowsDecision ==
  \A t \in Tasks :
    /\ inbox[t].decision # None => task[t].status \in Decided
    /\ inbox[t].response # None => /\ task[t].status \in Decided
                                   /\ task[t].response # None

\* Handlers that can move the same records: they decide the same task, or two
\* tasks of one tool call (what a retried createHumanTask leaves behind).
SameSubject(c, d) ==
  \/ call[c].task = call[d].task
  \/ /\ call[c].task # None /\ call[d].task # None
     /\ task[call[c].task].toolCall # None
     /\ task[call[c].task].toolCall = task[call[d].task].toolCall

Sole(c) ==
  \A d \in Calls \ {c} : ~(call[d].wasPending /\ SameSubject(c, d))

AllAgree(t, v) ==
  /\ [task |-> t, verdict |-> v] \in audit
  /\ IF v \in Responses
       THEN task[t].response = v /\ inbox[t].response = v
       ELSE /\ task[t].status = v /\ inbox[t].decision = v
            /\ task[t].toolCall # None => log[task[t].toolCall] = v

\* First decision wins, in all four places at once: when a successful handler is
\* the only one that found its subject pending, the row, the tool_call_log, the
\* workflow and the audit trail hold its verdict for ever, whatever opposite
\* verdicts arrive later, in whatever order.
SoleDeciderStands ==
  \A c \in Calls :
    call[c].pc = "done" /\ call[c].wasPending /\ Sole(c)
      => AllAgree(call[c].task, call[c].verdict)

\* Handlers that overlap but ask for the same thing (a client that retries, two
\* reviewers who agree) cannot produce anything else: once the workflow has a
\* verdict nobody opposed, the row and the tool_call_log hold the same one.
UnopposedVerdictStands ==
  \A t \in Tasks :
    LET v  == inbox[t].decision
        On == {c \in Calls : /\ call[c].task # None
                             /\ \/ call[c].task = t
                                \/ /\ task[t].toolCall # None
                                   /\ task[call[c].task].toolCall
                                        = task[t].toolCall}
    IN  v # None /\ (\A c \in On : call[c].verdict = v)
          => /\ task[t].status = v
             /\ task[t].toolCall # None => log[task[t].toolCall] = v

\* Two different answers are accepted only from handlers that overlapped: both
\* read the task while it was pending. Once an answer is in, every later one is
\* a replay or a conflict, whoever wrote it and whatever handlers were lost.
RivalAnswersOverlapped ==
  \A c, d \in Calls :
    /\ call[c].pc = "done" /\ call[d].pc = "done"
    /\ IsResponse(c) /\ IsResponse(d)
    /\ call[c].task = call[d].task /\ call[c].verdict # call[d].verdict
    => \E e, f \in Calls :
         /\ e # f /\ call[e].wasPending /\ call[f].wasPending
         /\ call[e].task = call[c].task /\ call[f].task = call[c].task

\* A handler of the task was lost, whichever: one that had written its decision is not
\* told from one that had not.
LostOn(t) == \E c \in Calls : call[c].task = t /\ call[c].pc = "failed"

\* A decision or an answer the workflow does not know of yet is never nobody's: a
\* handler that found the task pending is on its way to the signal, or one was lost;
\* and no handler is stuck between two awaits, whatever the others made of its row
\* meanwhile.
DecisionTold(t) == inbox[t].decision # None \/ LostOn(t)
AnswerTold(t)   == inbox[t].response # None \/ LostOn(t)

HandlersGoOn == \A c \in Calls : UnderWay(c) => ENABLED <<Step(c)>>_vars

UntoldDecisionIsAttended ==
  /\ \A t \in Tasks :
       LET On == {c \in Calls : call[c].task = t /\ call[c].wasPending /\ UnderWay(c)} IN
       /\ task[t].status \in Verdicts => DecisionTold(t) \/ \E c \in On : ~IsResponse(c)
       /\ task[t].response # None     => AnswerTold(t) \/ \E c \in On : IsResponse(c)
  /\ HandlersGoOn

\* What was decided reaches the workflow that waits for it, unless a handler of the
\* task was lost, which may be the one that decided, before its signal.
DecisionReachesWorkflow ==
  \A t \in Tasks :
    /\ (task[t].status \in Verdicts)
         ~> (inbox[t].decision # None \/ LostOn(t))
    /\ (task[t].response # None)
         ~> (inbox[t].response # None \/ LostOn(t))

=============================================================================
