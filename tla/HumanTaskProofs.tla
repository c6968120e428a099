-------------------------- MODULE HumanTaskProofs --------------------------
(***************************************************************************)
(* Proofs about HumanTask, for any number of tasks, tool calls, handlers,  *)
(* answers and lost handlers.                                              *)
(*                                                                         *)
(* Inv strengthens the three properties with what every handler knows at   *)
(* each of its awaits: a handler past its write stands on a decided row,   *)
(* and a decided row, or a signal, is owed to a handler that found the row *)
(* pending. A handler that is the only one of those can therefore find     *)
(* neither the row nor the workflow's decision taken by somebody else.     *)
(* Origin, proved on top of Inv, says where verdicts come from: every one  *)
(* in a row, in the log or in an accepted answer was asked for by a        *)
(* handler, and an answer by one that found the row pending.               *)
(* Told says who is about to signal a decision the workflow has not heard  *)
(* of; from it follows that every decision arrives (DecisionsArrive).      *)
(***************************************************************************)
EXTENDS HumanTask, TLAPS

Started(c) == call[c].pc # "idle"
OnRow(c)   == task[call[c].task]

\* What a handler knows at each await.
HandlerInv(c) ==
  /\ ~Started(c) => call[c].task = None /\ ~call[c].wasPending
  /\ Started(c)  => /\ call[c].task \in Tasks
                    /\ call[c].verdict \in Verdicts \cup Responses
                    /\ OnRow(c).status # "absent"
                    /\ ~call[c].wasPending => OnRow(c).status \in Decided
  /\ call[c].pc \in {"write", "signal", "audit"} => call[c].wasPending
  /\ call[c].pc = "log" => ~IsResponse(c)
  /\ call[c].pc \in {"log", "signal", "audit"} => OnRow(c).status \in Decided
  /\ call[c].pc \in {"signal", "audit"} /\ IsResponse(c) => OnRow(c).response # None

RowInv(t) ==
  /\ task[t].response # None => task[t].status \in Decided
  \* A decided row was written by a handler that found it pending.
  /\ task[t].status \in Decided =>
       \E d \in Calls : /\ call[d].task = t /\ call[d].wasPending
                        /\ call[d].pc \in {"log", "signal", "audit", "done", "failed"}
  \* So was a signal sent.
  /\ inbox[t].decision # None \/ inbox[t].response # None =>
       \E d \in Calls : /\ call[d].task = t /\ call[d].wasPending
                        /\ call[d].pc \in {"audit", "done", "failed"}

\* What the only handler that found its subject pending has achieved so far.
RowHolds(c) ==
  IF IsResponse(c) THEN OnRow(c).response = call[c].verdict
                   ELSE OnRow(c).status = call[c].verdict
LogHolds(c) ==
  ~IsResponse(c) /\ OnRow(c).toolCall # None
    => log[OnRow(c).toolCall] = call[c].verdict
InboxHolds(c) ==
  IF IsResponse(c) THEN inbox[call[c].task].response = call[c].verdict
                   ELSE inbox[call[c].task].decision = call[c].verdict
AuditHolds(c) == [task |-> call[c].task, verdict |-> call[c].verdict] \in audit

SoleInv(c) ==
  call[c].wasPending /\ Sole(c) =>
    /\ call[c].pc \in {"log", "signal", "audit", "done"} => RowHolds(c)
    /\ call[c].pc \in {"signal", "audit", "done"}        => LogHolds(c)
    /\ call[c].pc \in {"audit", "done"}                  => InboxHolds(c)
    /\ call[c].pc = "done"                               => AuditHolds(c)

Inv ==
  /\ TypeOK
  /\ SignalFollowsDecision
  /\ \A c \in Calls : HandlerInv(c)
  /\ \A t \in Tasks : RowInv(t)
  /\ \A c \in Calls : SoleInv(c)

-----------------------------------------------------------------------------
LEMMA InitInv == Init => Inv
<1> SUFFICES ASSUME Init PROVE Inv
  OBVIOUS
<1> USE ResponsesAssumption
<1>1. TypeOK
  BY DEF Init, TypeOK, AbsentRow, Row, IdleCall, Handler, LogStatus
<1>2. SignalFollowsDecision
  BY DEF Init, SignalFollowsDecision
<1>3. ASSUME NEW c \in Calls PROVE HandlerInv(c) /\ SoleInv(c)
  BY DEF Init, IdleCall, HandlerInv, SoleInv, Started
<1>4. ASSUME NEW t \in Tasks PROVE RowInv(t)
  BY DEF Init, AbsentRow, RowInv, Decided
<1> QED
  BY <1>1, <1>2, <1>3, <1>4 DEF Inv

\* A new row is pending and nobody works on it yet.
LEMMA CreateInv == Inv /\ Create => Inv'
<1> SUFFICES ASSUME Inv, Create PROVE Inv'
  OBVIOUS
<1> USE ResponsesAssumption
<1>0. TypeOK
  BY DEF Inv
<1>1. PICK t \in Tasks :
        /\ task[t].status = "absent"
        /\ \E kind \in {"approval", "user_input"}, k \in ToolCalls \cup {None} :
             task' = [task EXCEPT ![t] = [status |-> "pending", kind |-> kind,
                                          toolCall |-> k, response |-> None]]
        /\ UNCHANGED <<log, inbox, call, audit, faults>>
  BY DEF Create, CreateTask
<1>2. PICK kind \in {"approval", "user_input"}, k \in ToolCalls \cup {None} :
        task' = [task EXCEPT ![t] = [status |-> "pending", kind |-> kind,
                                     toolCall |-> k, response |-> None]]
  BY <1>1
<1>3. \A u \in Tasks \ {t} : task'[u] = task[u]
  BY <1>0, <1>2 DEF TypeOK
<1>4. /\ task'[t].status = "pending" /\ task'[t].response = None
      /\ inbox[t].decision = None /\ inbox[t].response = None
  BY <1>0, <1>1, <1>2 DEF TypeOK, Inv, SignalFollowsDecision, Decided
<1>5. \A c \in Calls : Started(c) => call[c].task \in Tasks \ {t}
  BY <1>1 DEF Inv, HandlerInv, OnRow
<1>6. TypeOK'
  BY <1>0, <1>1, <1>2 DEF TypeOK, Row
<1>7. SignalFollowsDecision'
  BY <1>1, <1>3, <1>4 DEF Inv, SignalFollowsDecision
<1>8. ASSUME NEW c \in Calls PROVE HandlerInv(c)'
  BY <1>1, <1>3, <1>5 DEF Inv, HandlerInv, Started, OnRow, IsResponse
<1>9. ASSUME NEW u \in Tasks PROVE RowInv(u)'
  BY <1>1, <1>3, <1>4 DEF Inv, RowInv, Decided
<1>10. ASSUME NEW c \in Calls PROVE SoleInv(c)'
  <2>1. SUFFICES ASSUME call[c].wasPending, Sole(c)' PROVE SoleInv(c)'
    BY <1>1 DEF SoleInv
  <2>2. \A d \in Calls : call[d].wasPending => call[d].task \in Tasks \ {t}
    BY <1>5 DEF Inv, HandlerInv
  <2>3. ASSUME NEW d \in Calls, call[d].wasPending
        PROVE SameSubject(c, d)' <=> SameSubject(c, d)
    BY <2>1, <2>2, <2>3, <1>1, <1>3 DEF SameSubject
  <2>4. Sole(c)
    BY <2>1, <2>3, <1>1 DEF Sole
  <2>5. SoleInv(c)
    BY DEF Inv
  <2> QED
    BY <2>1, <2>2, <2>4, <2>5, <1>1, <1>3
    DEF SoleInv, RowHolds, LogHolds, InboxHolds, AuditHolds, OnRow, IsResponse
<1> QED
  BY <1>6, <1>7, <1>8, <1>9, <1>10 DEF Inv

\* A new handler that found the row decided changes nobody's standing; one that
\* found it pending can only take the standing of sole decider away.
LEMMA BeginInv ==
  ASSUME NEW c \in Calls, NEW t \in Tasks, NEW v \in Verdicts \cup Responses,
         Inv, Begin(c, t, v)
  PROVE  Inv'
<1> USE ResponsesAssumption
<1>0. TypeOK
  BY DEF Inv
<1>1. /\ call[c].pc = "idle" /\ call[c].task = None /\ ~call[c].wasPending
      /\ task[t].status # "absent"
      /\ UNCHANGED <<task, log, inbox, audit, faults>>
  BY DEF Begin, Inv, HandlerInv, Started
<1>2. /\ call'[c] = [pc |-> "load", task |-> t, verdict |-> v,
                    wasPending |-> task[t].status = "pending"]
      /\ \A d \in Calls \ {c} : call'[d] = call[d]
  BY <1>0 DEF Begin, TypeOK
<1>3. (task[t].status = "pending") \in BOOLEAN
  OBVIOUS
<1>4. TypeOK'
  BY <1>0, <1>1, <1>2, <1>3 DEF TypeOK, Handler, Begin
<1>5. SignalFollowsDecision'
  BY <1>1 DEF Inv, SignalFollowsDecision
<1>6. ASSUME NEW d \in Calls PROVE HandlerInv(d)'
  <2>1. CASE d = c
    <3>1. task[t].status # "pending" => task[t].status \in Decided
      BY <1>0, <1>1 DEF TypeOK, Row
    <3>2. /\ call'[d].pc = "load" /\ call'[d].task = t /\ call'[d].verdict = v
          /\ call'[d].wasPending = (task[t].status = "pending")
      BY <2>1, <1>2
    <3>3. ~call'[d].wasPending => task[t].status # "pending"
      BY <3>2, Zenon
    <3> QED
      BY <1>1, <3>1, <3>2, <3>3 DEF HandlerInv, Started, OnRow, IsResponse
  <2>2. CASE d # c
    BY <2>2, <1>1, <1>2 DEF Inv, HandlerInv, Started, OnRow, IsResponse
  <2> QED
    BY <2>1, <2>2
<1>7. ASSUME NEW u \in Tasks PROVE RowInv(u)'
  BY <1>1, <1>2 DEF Inv, RowInv
<1>8. ASSUME NEW d \in Calls PROVE SoleInv(d)'
  <2>1. CASE d = c
    BY <2>1, <1>2 DEF SoleInv
  <2>2. CASE d # c
    <3>1. SUFFICES ASSUME call[d].wasPending, Sole(d)' PROVE SoleInv(d)'
      BY <2>2, <1>2 DEF SoleInv
    <3>2. \A e \in Calls \ {c} : SameSubject(d, e)' <=> SameSubject(d, e)
      BY <2>2, <1>1, <1>2 DEF SameSubject
    <3>3. Sole(d)
      BY <3>1, <3>2, <1>1, <1>2 DEF Sole
    <3>4. SoleInv(d)
      BY DEF Inv
    <3> QED
      BY <2>2, <3>1, <3>3, <3>4, <1>1, <1>2
      DEF SoleInv, RowHolds, LogHolds, InboxHolds, AuditHolds, OnRow, IsResponse
  <2> QED
    BY <2>1, <2>2
<1> QED
  BY <1>4, <1>5, <1>6, <1>7, <1>8 DEF Inv

-----------------------------------------------------------------------------
\* What every step of a running handler leaves alone: the other handlers, what
\* its own was asked, and which tool call a row is about.
StepFrame(c) ==
  /\ \A d \in Calls \ {c} : call'[d] = call[d]
  /\ \A d \in Calls : /\ call'[d].task = call[d].task
                      /\ call'[d].verdict = call[d].verdict
                      /\ call'[d].wasPending = call[d].wasPending
  /\ \A t \in Tasks : /\ task'[t].toolCall = task[t].toolCall
                      /\ task'[t].kind = task[t].kind

LEMMA StepFrameHolds ==
  ASSUME NEW c \in Calls, TypeOK, Step(c) \/ Lose(c)
  PROVE  StepFrame(c)
<1>1. ASSUME NEW pc, Goto(c, pc)
      PROVE  /\ \A d \in Calls \ {c} : call'[d] = call[d]
             /\ \A d \in Calls : /\ call'[d].task = call[d].task
                                 /\ call'[d].verdict = call[d].verdict
                                 /\ call'[d].wasPending = call[d].wasPending
  BY <1>1 DEF Goto, TypeOK, Handler
<1>2. \E pc : Goto(c, pc)
  BY DEF Step, LoadDecide, LoadRespond, WriteDecide, WriteRespond,
         UpdateToolCallLog, Signal, AppendAudit, Lose
<1>3. \A t \in Tasks : /\ task'[t].toolCall = task[t].toolCall
                       /\ task'[t].kind = task[t].kind
  <2>1. CASE WriteDecide(c)
    BY <2>1 DEF WriteDecide, TypeOK, Row
  <2>2. CASE WriteRespond(c)
    BY <2>2 DEF WriteRespond, TypeOK, Row
  <2>3. CASE UNCHANGED task
    BY <2>3
  <2> QED
    BY <2>1, <2>2, <2>3 DEF Step, LoadDecide, LoadRespond,
         UpdateToolCallLog, Signal, AppendAudit, Lose
<1> QED
  BY <1>1, <1>2, <1>3 DEF StepFrame

LEMMA SoleStable ==
  ASSUME NEW c \in Calls, StepFrame(c), \A d \in Calls : HandlerInv(d),
         NEW d \in Calls, call[d].wasPending, Sole(d)'
  PROVE  Sole(d)
<1>1. \A e \in Calls : call[e].wasPending => call[e].task \in Tasks
  BY DEF HandlerInv
<1>2. \A e \in Calls : call[e].wasPending
                        => (SameSubject(d, e)' <=> SameSubject(d, e))
  BY <1>1 DEF SameSubject, StepFrame
<1> QED
  BY <1>2 DEF Sole, StepFrame

\* The only handler that found its subject pending shares no row and no tool call
\* with a handler that writes.
LEMMA SoleIsAlone ==
  ASSUME NEW c \in Calls, NEW d \in Calls, c # d, Sole(d),
         call[c].wasPending, HandlerInv(c), HandlerInv(d), call[d].wasPending
  PROVE  /\ call[c].task # call[d].task
         /\ OnRow(d).toolCall # None => OnRow(c).toolCall # OnRow(d).toolCall
BY ResponsesAssumption DEF Sole, SameSubject, HandlerInv, OnRow

-----------------------------------------------------------------------------
\* A decided row is owed to another handler than one still at its first read, so
\* that handler is not the only one that found the subject pending.
LEMMA DecidedBySomebody ==
  ASSUME NEW c \in Calls, HandlerInv(c), Started(c), call[c].pc \in {"load", "write"},
         RowInv(call[c].task), OnRow(c).status \in Decided
  PROVE  ~Sole(c)
BY DEF HandlerInv, RowInv, OnRow, Sole, SameSubject

\* A step that only moves its handler's program counter.
LEMMA QuietStep ==
  ASSUME NEW c \in Calls, Inv, StepFrame(c), Started(c),
         UNCHANGED <<task, log, inbox, audit>>,
         call[c].pc \in {"load", "write"} \/ call'[c].pc = "failed",
         TypeOK', HandlerInv(c)', SoleInv(c)'
  PROVE  Inv'
<1>1. SignalFollowsDecision'
  BY DEF Inv, SignalFollowsDecision
<1>2. ASSUME NEW d \in Calls PROVE HandlerInv(d)'
  <2>1. CASE d # c
    BY <2>1 DEF Inv, HandlerInv, StepFrame, Started, OnRow, IsResponse
  <2> QED
    BY <2>1
<1>3. ASSUME NEW t \in Tasks PROVE RowInv(t)'
  BY DEF Inv, RowInv, StepFrame
<1>4. ASSUME NEW d \in Calls PROVE SoleInv(d)'
  <2>1. CASE d # c
    <3>1. SUFFICES ASSUME call[d].wasPending, Sole(d)' PROVE SoleInv(d)'
      BY DEF SoleInv, StepFrame
    <3>2. Sole(d) /\ SoleInv(d)
      BY <3>1, SoleStable DEF Inv
    <3> QED
      BY <2>1, <3>1, <3>2 DEF SoleInv, RowHolds, LogHolds, InboxHolds, AuditHolds,
           OnRow, IsResponse, StepFrame
  <2> QED
    BY <2>1
<1> QED
  BY <1>1, <1>2, <1>3, <1>4 DEF Inv

LEMMA LoadDecideInv ==
  ASSUME NEW c \in Calls, Inv, LoadDecide(c)
  PROVE  Inv'
<1>0. TypeOK /\ HandlerInv(c) /\ SoleInv(c) /\ Started(c) /\ StepFrame(c)
  BY StepFrameHolds DEF Inv, LoadDecide, Started, Step
<1>1. /\ call[c].pc = "load" /\ ~IsResponse(c) /\ call[c].task \in Tasks
      /\ UNCHANGED <<task, log, inbox, audit, faults>>
  BY <1>0 DEF LoadDecide, HandlerInv
<1>2. \/ OnRow(c).status = "pending" /\ call' = [call EXCEPT ![c].pc = "write"]
      \/ OnRow(c).status \in Decided /\ call' = [call EXCEPT ![c].pc = "log"]
  BY <1>0, <1>1 DEF LoadDecide, Goto, OnRow, TypeOK, Row, HandlerInv
<1>3. TypeOK'
  BY <1>0, <1>1, <1>2 DEF TypeOK, Handler
<1>4. \/ OnRow(c).status = "pending" /\ call'[c].pc = "write"
      \/ OnRow(c).status \in Decided /\ call'[c].pc = "log"
  BY <1>0, <1>2 DEF TypeOK, Handler
<1>5. HandlerInv(c)'
  BY <1>0, <1>1, <1>4 DEF HandlerInv, Started, OnRow, IsResponse, StepFrame, Decided
<1>6. SoleInv(c)'
  <2>1. SUFFICES ASSUME call[c].wasPending, Sole(c)' PROVE SoleInv(c)'
    BY <1>0 DEF SoleInv, StepFrame
  <2>2. Sole(c)
    BY <1>0, <2>1, SoleStable DEF Inv
  <2>3. OnRow(c).status \notin Decided
    BY <1>0, <1>1, <2>2, DecidedBySomebody DEF Inv
  <2> QED
    BY <1>4, <2>3 DEF SoleInv
<1> QED
  BY <1>0, <1>1, <1>3, <1>5, <1>6, QuietStep

LEMMA LoadRespondInv ==
  ASSUME NEW c \in Calls, Inv, LoadRespond(c)
  PROVE  Inv'
<1> USE ResponsesAssumption
<1>0. TypeOK /\ HandlerInv(c) /\ SoleInv(c) /\ Started(c) /\ StepFrame(c)
  BY StepFrameHolds DEF Inv, LoadRespond, Started, Step
<1>1. /\ call[c].pc = "load" /\ IsResponse(c) /\ call[c].task \in Tasks
      /\ UNCHANGED <<task, log, inbox, audit, faults>>
  BY <1>0 DEF LoadRespond, HandlerInv
<1>2. \/ call' = [call EXCEPT ![c].pc = "failed"]
      \/ call' = [call EXCEPT ![c].pc = "conflict"]
      \/ OnRow(c).response = call[c].verdict /\ call' = [call EXCEPT ![c].pc = "done"]
      \/ OnRow(c).status = "pending" /\ call' = [call EXCEPT ![c].pc = "write"]
  BY <1>1 DEF LoadRespond, Goto, OnRow
<1>3. TypeOK'
  BY <1>0, <1>1, <1>2 DEF TypeOK, Handler
<1>4. \/ call'[c].pc = "failed"
      \/ call'[c].pc = "conflict"
      \/ OnRow(c).response = call[c].verdict /\ call'[c].pc = "done"
      \/ OnRow(c).status = "pending" /\ call'[c].pc = "write"
  BY <1>0, <1>2 DEF TypeOK, Handler
<1>5. HandlerInv(c)'
  BY <1>0, <1>1, <1>4 DEF HandlerInv, Started, OnRow, IsResponse, StepFrame, Decided
<1>6. SoleInv(c)'
  <2>1. SUFFICES ASSUME call[c].wasPending, Sole(c)' PROVE SoleInv(c)'
    BY <1>0 DEF SoleInv, StepFrame
  <2>2. Sole(c)
    BY <1>0, <2>1, SoleStable DEF Inv
  <2>3. OnRow(c).status \notin Decided
    BY <1>0, <1>1, <2>2, DecidedBySomebody DEF Inv
  <2>4. OnRow(c).response = None
    BY <1>1, <2>3 DEF Inv, RowInv, OnRow
  <2>5. call[c].verdict # None
    BY <1>1 DEF IsResponse
  <2> QED
    BY <1>4, <2>4, <2>5 DEF SoleInv
<1> QED
  BY <1>0, <1>1, <1>3, <1>5, <1>6, QuietStep

\* A lost handler stops where it is.
LEMMA LoseInv ==
  ASSUME NEW c \in Calls, Inv, Lose(c)
  PROVE  Inv'
<1> USE ResponsesAssumption
<1>0. TypeOK /\ HandlerInv(c) /\ Started(c) /\ StepFrame(c)
  BY StepFrameHolds DEF Inv, Lose, UnderWay, Started
<1>1. call' = [call EXCEPT ![c].pc = "failed"] /\ call'[c].pc = "failed"
  BY <1>0 DEF Lose, Goto, TypeOK, Handler
<1>2. TypeOK'
  <2>1. faults' \in 0 .. MaxFaults
    BY <1>0 DEF Lose, TypeOK
  <2>2. call' \in [Calls -> Handler]
    BY <1>0, <1>1 DEF TypeOK, Handler
  <2> QED
    BY <1>0, <2>1, <2>2 DEF Lose, TypeOK
<1>3. HandlerInv(c)' /\ SoleInv(c)'
  BY <1>0, <1>1 DEF Lose, HandlerInv, SoleInv, Started, OnRow, StepFrame
<1> QED
  BY <1>0, <1>1, <1>2, <1>3, QuietStep DEF Lose

-----------------------------------------------------------------------------
\* A step of c that leaves the records of d alone leaves d's standing alone.
LEMMA OtherSole ==
  ASSUME NEW c \in Calls, NEW d \in Calls, c # d, Inv, StepFrame(c),
         call[d].wasPending, Sole(d),
         task'[call[d].task] = OnRow(d),
         inbox'[call[d].task] = inbox[call[d].task],
         OnRow(d).toolCall # None => log'[OnRow(d).toolCall] = log[OnRow(d).toolCall],
         audit \subseteq audit'
  PROVE  SoleInv(d)'
<1>1. SoleInv(d)
  BY DEF Inv
<1>2. call'[d] = call[d]
  BY DEF StepFrame
<1> QED
  BY <1>1, <1>2 DEF SoleInv, RowHolds, LogHolds, InboxHolds, AuditHolds, OnRow, IsResponse

\* The write of a decision: the only handler of its subject makes the row its own,
\* and a handler that stands alone elsewhere does not notice.
LEMMA WriteInv ==
  ASSUME NEW c \in Calls, Inv, WriteDecide(c) \/ WriteRespond(c)
  PROVE  Inv'
<1> USE ResponsesAssumption
<1> DEFINE t == call[c].task
<1>0. TypeOK /\ HandlerInv(c) /\ Started(c) /\ StepFrame(c)
  BY StepFrameHolds DEF Inv, WriteDecide, WriteRespond, Started, Step
<1>1. /\ call[c].pc = "write" /\ call[c].wasPending /\ t \in Tasks
      /\ UNCHANGED <<log, inbox, audit, faults>>
      /\ \A u \in Tasks \ {t} : task'[u] = task[u]
  BY <1>0 DEF WriteDecide, WriteRespond, HandlerInv, TypeOK, Row
<1>2. \/ /\ ~IsResponse(c) /\ call[c].verdict \in Verdicts
         /\ task' = [task EXCEPT ![t].status = call[c].verdict]
         /\ call' = [call EXCEPT ![c].pc = "log"]
      \/ /\ IsResponse(c)
         /\ task' = [task EXCEPT ![t].status = "resolved", ![t].response = call[c].verdict]
         /\ call' = [call EXCEPT ![c].pc = "signal"]
  BY <1>0, <1>1 DEF WriteDecide, WriteRespond, HandlerInv, Goto, IsResponse
<1>3. \/ /\ ~IsResponse(c) /\ call[c].verdict \in Verdicts
         /\ task'[t].status = call[c].verdict /\ task'[t].response = task[t].response
         /\ call'[c].pc = "log"
      \/ /\ IsResponse(c)
         /\ task'[t].status = "resolved" /\ task'[t].response = call[c].verdict
         /\ call'[c].pc = "signal"
  BY <1>0, <1>1, <1>2 DEF TypeOK, Row, Handler
<1>4. task'[t].status \in Decided
  BY <1>3 DEF Verdicts, Decided
<1>5. TypeOK'
  <2>1. \A pc \in {"log", "signal"} : [call EXCEPT ![c].pc = pc] \in [Calls -> Handler]
    BY <1>0 DEF TypeOK, Handler
  <2>2. call' \in [Calls -> Handler]
    BY <1>2, <2>1
  <2>3. \A v \in Verdicts : [task EXCEPT ![t].status = v] \in [Tasks -> Row]
    <3>1. \A v \in Verdicts, row \in Row : [row EXCEPT !.status = v] \in Row
      <4>1. Verdicts \subseteq {"absent", "pending"} \cup Decided
        BY DEF Verdicts, Decided
      <4> QED
        BY <4>1 DEF Row
    <3>2. ASSUME NEW v \in Verdicts
          PROVE  [task EXCEPT ![t].status = v]
                   = [task EXCEPT ![t] = [task[t] EXCEPT !.status = v]]
      BY <1>0, <1>1 DEF TypeOK
    <3> QED
      BY <1>0, <1>1, <3>1, <3>2 DEF TypeOK
  <2>4. \A r \in Responses :
          [task EXCEPT ![t].status = "resolved", ![t].response = r] \in [Tasks -> Row]
    <3>1. \A r \in Responses, row \in Row :
            [row EXCEPT !.status = "resolved", !.response = r] \in Row
      BY DEF Row, Decided
    <3>2. ASSUME NEW r \in Responses
          PROVE  [task EXCEPT ![t].status = "resolved", ![t].response = r]
                   = [task EXCEPT ![t] = [task[t] EXCEPT !.status = "resolved",
                                                         !.response = r]]
      BY <1>0, <1>1 DEF TypeOK
    <3> QED
      BY <1>0, <1>1, <3>1, <3>2 DEF TypeOK
  <2>5. task' \in [Tasks -> Row]
    BY <1>2, <2>3, <2>4 DEF IsResponse
  <2> QED
    BY <1>0, <1>1, <2>2, <2>5 DEF TypeOK
<1>6. SignalFollowsDecision'
  BY <1>1, <1>3, <1>4 DEF Inv, SignalFollowsDecision, IsResponse
<1>7. ASSUME NEW d \in Calls PROVE HandlerInv(d)'
  <2>1. CASE d = c
    BY <2>1, <1>0, <1>1, <1>3, <1>4
    DEF HandlerInv, Started, OnRow, IsResponse, StepFrame, Decided
  <2>2. CASE d # c
    <3>1. call'[d] = call[d] /\ HandlerInv(d)
      BY <2>2, <1>0 DEF Inv, StepFrame
    <3>2. CASE call[d].task = t
      BY <3>1, <3>2, <1>3, <1>4 DEF HandlerInv, Started, OnRow, IsResponse, Decided
    <3>3. CASE call[d].task # t
      BY <3>1, <3>3, <1>1 DEF HandlerInv, Started, OnRow, IsResponse
    <3> QED
      BY <3>2, <3>3
  <2> QED
    BY <2>1, <2>2
<1>8. ASSUME NEW u \in Tasks PROVE RowInv(u)'
  <2>1. \A d \in Calls \ {c} : call'[d] = call[d]
    BY <1>0 DEF StepFrame
  <2>2. CASE u = t
    BY <2>1, <2>2, <1>0, <1>1, <1>3, <1>4 DEF Inv, RowInv, StepFrame
  <2>3. CASE u # t
    BY <2>1, <2>3, <1>1 DEF Inv, RowInv
  <2> QED
    BY <2>2, <2>3
<1>9. ASSUME NEW d \in Calls PROVE SoleInv(d)'
  <2>1. SUFFICES ASSUME call[d].wasPending, Sole(d)' PROVE SoleInv(d)'
    BY <1>0 DEF SoleInv, StepFrame
  <2>2. Sole(d)
    BY <1>0, <2>1, SoleStable DEF Inv
  <2>3. CASE d = c
    BY <2>3, <1>0, <1>3 DEF SoleInv, RowHolds, LogHolds, OnRow, IsResponse, StepFrame
  <2>4. CASE d # c
    <3>1. call[d].task # t /\ call[d].task \in Tasks
      BY <2>1, <2>2, <2>4, <1>1, SoleIsAlone DEF Inv, HandlerInv
    <3> QED
      BY <2>1, <2>2, <2>4, <3>1, <1>0, <1>1, OtherSole DEF OnRow
  <2> QED
    BY <2>3, <2>4
<1> QED
  BY <1>5, <1>6, <1>7, <1>8, <1>9 DEF Inv

\* The update of the tool_call_log by a handler that stands alone is the last one;
\* a handler of another subject touches another tool call.
LEMMA UpdateToolCallLogInv ==
  ASSUME NEW c \in Calls, Inv, UpdateToolCallLog(c)
  PROVE  Inv'
<1> USE ResponsesAssumption
<1> DEFINE t == call[c].task
           k == task[t].toolCall
<1>0. TypeOK /\ HandlerInv(c) /\ SoleInv(c) /\ Started(c) /\ StepFrame(c)
  BY StepFrameHolds DEF Inv, UpdateToolCallLog, Started, Step
<1>1. /\ call[c].pc = "log" /\ ~IsResponse(c) /\ t \in Tasks
      /\ call[c].verdict \in Verdicts /\ OnRow(c).status \in Decided
      /\ UNCHANGED <<task, inbox, audit, faults>>
      /\ log' = IF call[c].wasPending /\ k # None
                  THEN [log EXCEPT ![k] = call[c].verdict] ELSE log
  BY <1>0 DEF UpdateToolCallLog, HandlerInv, IsResponse
<1>2. \/ call[c].wasPending /\ call' = [call EXCEPT ![c].pc = "signal"]
      \/ ~call[c].wasPending /\ call' = [call EXCEPT ![c].pc = "done"]
  BY DEF UpdateToolCallLog, Goto
<1>3. \/ call[c].wasPending /\ call'[c].pc = "signal"
      \/ ~call[c].wasPending /\ call'[c].pc = "done"
  BY <1>0, <1>2 DEF TypeOK, Handler
<1>4. k \in ToolCalls \cup {None}
  BY <1>0, <1>1 DEF TypeOK, Row
<1>5. TypeOK'
  <2>1. call' \in [Calls -> Handler]
    BY <1>0, <1>2 DEF TypeOK, Handler
  <2>2. log' \in [ToolCalls -> LogStatus]
    BY <1>0, <1>1, <1>4 DEF TypeOK, LogStatus, Verdicts
  <2> QED
    BY <1>0, <1>1, <2>1, <2>2 DEF TypeOK
<1>6. SignalFollowsDecision'
  BY <1>1 DEF Inv, SignalFollowsDecision
<1>7. ASSUME NEW d \in Calls PROVE HandlerInv(d)'
  <2>1. CASE d = c
    BY <2>1, <1>0, <1>1, <1>3 DEF HandlerInv, Started, OnRow, IsResponse, StepFrame
  <2>2. CASE d # c
    BY <2>2, <1>0, <1>1 DEF Inv, HandlerInv, Started, OnRow, IsResponse, StepFrame
  <2> QED
    BY <2>1, <2>2
<1>8. ASSUME NEW u \in Tasks PROVE RowInv(u)'
  BY <1>0, <1>1, <1>3 DEF Inv, RowInv, StepFrame
<1>9. ASSUME NEW d \in Calls PROVE SoleInv(d)'
  <2>1. SUFFICES ASSUME call[d].wasPending, Sole(d)' PROVE SoleInv(d)'
    BY <1>0 DEF SoleInv, StepFrame
  <2>2. Sole(d)
    BY <1>0, <2>1, SoleStable DEF Inv
  <2>3. CASE d = c
    <3>1. RowHolds(c)' /\ call'[c].pc = "signal"
      BY <2>1, <2>2, <2>3, <1>0, <1>1, <1>3
      DEF SoleInv, RowHolds, OnRow, IsResponse, StepFrame
    <3>2. LogHolds(c)'
      BY <2>1, <2>3, <1>0, <1>1, <1>4 DEF TypeOK, LogHolds, OnRow, IsResponse, StepFrame
    <3> QED
      BY <2>3, <3>1, <3>2 DEF SoleInv
  <2>4. CASE d # c
    <3>1. OnRow(d).toolCall # None => log'[OnRow(d).toolCall] = log[OnRow(d).toolCall]
      <4>1. CASE call[c].wasPending
        <5>1. OnRow(d).toolCall # None => k # OnRow(d).toolCall
          BY <2>1, <2>2, <2>4, <4>1, <1>0, SoleIsAlone DEF Inv, OnRow
        <5> QED
          BY <5>1, <1>0, <1>1, <1>4 DEF TypeOK
      <4>2. CASE ~call[c].wasPending
        BY <4>2, <1>1
      <4> QED
        BY <4>1, <4>2
    <3> QED
      BY <2>1, <2>2, <2>4, <3>1, <1>0, <1>1, OtherSole DEF OnRow
  <2> QED
    BY <2>3, <2>4
<1> QED
  BY <1>5, <1>6, <1>7, <1>8, <1>9 DEF Inv

\* The signal: nobody else can have signalled a handler's subject if it stands
\* alone, so the decision the workflow keeps is its own.
LEMMA SignalInv ==
  ASSUME NEW c \in Calls, Inv, Signal(c)
  PROVE  Inv'
<1> USE ResponsesAssumption
<1> DEFINE t == call[c].task
<1>0. TypeOK /\ HandlerInv(c) /\ SoleInv(c) /\ Started(c) /\ StepFrame(c)
  BY StepFrameHolds DEF Inv, Signal, Started, Step
<1>1. /\ call[c].pc = "signal" /\ t \in Tasks /\ call[c].wasPending
      /\ call[c].verdict \in Verdicts \cup Responses
      /\ OnRow(c).status \in Decided
      /\ IsResponse(c) => OnRow(c).response # None
      /\ UNCHANGED <<task, log, audit, faults>>
      /\ call' = [call EXCEPT ![c].pc = "audit"] /\ call'[c].pc = "audit"
  BY <1>0 DEF Signal, Goto, HandlerInv, TypeOK, Handler
<1>2. /\ \A u \in Tasks \ {t} : inbox'[u] = inbox[u]
      /\ IF IsResponse(c)
           THEN /\ inbox'[t].response = KeepFirst(inbox[t].response, call[c].verdict)
                /\ inbox'[t].decision = inbox[t].decision
           ELSE /\ inbox'[t].decision = KeepFirst(inbox[t].decision, call[c].verdict)
                /\ inbox'[t].response = inbox[t].response
  BY <1>0, <1>1 DEF Signal, TypeOK
<1>3. inbox' \in [Tasks -> [decision : Verdicts \cup {None},
                           response : Responses \cup {None}]]
  BY <1>0, <1>1 DEF Signal, TypeOK, KeepFirst, IsResponse
<1>4. TypeOK'
  <2>1. call' \in [Calls -> Handler]
    BY <1>0, <1>1 DEF TypeOK, Handler
  <2> QED
    BY <1>0, <1>1, <1>3, <2>1 DEF TypeOK
<1>5. SignalFollowsDecision'
  BY <1>1, <1>2 DEF Inv, SignalFollowsDecision, OnRow
<1>6. ASSUME NEW d \in Calls PROVE HandlerInv(d)'
  <2>1. CASE d = c
    BY <2>1, <1>0, <1>1 DEF HandlerInv, Started, OnRow, IsResponse, StepFrame
  <2>2. CASE d # c
    BY <2>2, <1>0, <1>1 DEF Inv, HandlerInv, Started, OnRow, IsResponse, StepFrame
  <2> QED
    BY <2>1, <2>2
<1>7. ASSUME NEW u \in Tasks PROVE RowInv(u)'
  BY <1>0, <1>1, <1>2 DEF Inv, RowInv, StepFrame
<1>8. ASSUME NEW d \in Calls PROVE SoleInv(d)'
  <2>1. SUFFICES ASSUME call[d].wasPending, Sole(d)' PROVE SoleInv(d)'
    BY <1>0 DEF SoleInv, StepFrame
  <2>2. Sole(d)
    BY <1>0, <2>1, SoleStable DEF Inv
  <2>3. CASE d = c
    <3>1. inbox[t].decision = None /\ inbox[t].response = None
      BY <2>2, <2>3, <1>1 DEF Inv, RowInv, Sole, SameSubject
    <3>2. InboxHolds(c)'
      BY <3>1, <1>0, <1>1, <1>2 DEF InboxHolds, KeepFirst, IsResponse, StepFrame
    <3>3. RowHolds(c)' /\ LogHolds(c)'
      BY <2>1, <2>2, <2>3, <1>0, <1>1
      DEF SoleInv, RowHolds, LogHolds, OnRow, IsResponse, StepFrame
    <3> QED
      BY <2>3, <3>2, <3>3, <1>1 DEF SoleInv
  <2>4. CASE d # c
    <3>1. call[d].task # t /\ call[d].task \in Tasks
      BY <2>1, <2>2, <2>4, <1>1, SoleIsAlone DEF Inv, HandlerInv
    <3> QED
      BY <2>1, <2>2, <2>4, <3>1, <1>0, <1>1, <1>2, OtherSole DEF OnRow
  <2> QED
    BY <2>3, <2>4
<1> QED
  BY <1>4, <1>5, <1>6, <1>7, <1>8 DEF Inv

LEMMA AppendAuditInv ==
  ASSUME NEW c \in Calls, Inv, AppendAudit(c)
  PROVE  Inv'
<1> USE ResponsesAssumption
<1>0. TypeOK /\ HandlerInv(c) /\ SoleInv(c) /\ Started(c) /\ StepFrame(c)
  BY StepFrameHolds DEF Inv, AppendAudit, Started, Step
<1>1. /\ call[c].pc = "audit" /\ call[c].task \in Tasks
      /\ call[c].verdict \in Verdicts \cup Responses
      /\ UNCHANGED <<task, log, inbox, faults>>
      /\ audit' = audit \cup {[task |-> call[c].task, verdict |-> call[c].verdict]}
      /\ call' = [call EXCEPT ![c].pc = "done"] /\ call'[c].pc = "done"
  BY <1>0 DEF AppendAudit, Goto, HandlerInv, TypeOK, Handler
<1>2. TypeOK'
  <2>1. call' \in [Calls -> Handler]
    BY <1>0, <1>1 DEF TypeOK, Handler
  <2>2. audit' \subseteq [task : Tasks, verdict : Verdicts \cup Responses]
    BY <1>0, <1>1 DEF TypeOK
  <2> QED
    BY <1>0, <1>1, <2>1, <2>2 DEF TypeOK
<1>3. SignalFollowsDecision'
  BY <1>1 DEF Inv, SignalFollowsDecision
<1>4. ASSUME NEW d \in Calls PROVE HandlerInv(d)'
  <2>1. CASE d = c
    BY <2>1, <1>0, <1>1 DEF HandlerInv, Started, OnRow, IsResponse, StepFrame
  <2>2. CASE d # c
    BY <2>2, <1>0, <1>1 DEF Inv, HandlerInv, Started, OnRow, IsResponse, StepFrame
  <2> QED
    BY <2>1, <2>2
<1>5. ASSUME NEW u \in Tasks PROVE RowInv(u)'
  BY <1>0, <1>1 DEF Inv, RowInv, StepFrame
<1>6. ASSUME NEW d \in Calls PROVE SoleInv(d)'
  <2>1. SUFFICES ASSUME call[d].wasPending, Sole(d)' PROVE SoleInv(d)'
    BY <1>0 DEF SoleInv, StepFrame
  <2>2. Sole(d)
    BY <1>0, <2>1, SoleStable DEF Inv
  <2>3. CASE d = c
    BY <2>1, <2>2, <2>3, <1>0, <1>1
    DEF SoleInv, RowHolds, LogHolds, InboxHolds, AuditHolds, OnRow, IsResponse, StepFrame
  <2>4. CASE d # c
    BY <2>1, <2>2, <2>4, <1>0, <1>1, OtherSole DEF OnRow
  <2> QED
    BY <2>3, <2>4
<1> QED
  BY <1>2, <1>3, <1>4, <1>5, <1>6 DEF Inv

-----------------------------------------------------------------------------
LEMMA NextInv == Inv /\ [Next]_vars => Inv'
<1> SUFFICES ASSUME Inv, [Next]_vars PROVE Inv'
  OBVIOUS
<1>1. CASE Create
  BY <1>1, CreateInv
<1>2. ASSUME NEW c \in Calls, NEW t \in Tasks, NEW v \in Verdicts \cup Responses,
             Begin(c, t, v)
      PROVE  Inv'
  BY <1>2, BeginInv
<1>3. ASSUME NEW c \in Calls, Step(c) PROVE Inv'
  BY <1>3, LoadDecideInv, LoadRespondInv, WriteInv, UpdateToolCallLogInv,
     SignalInv, AppendAuditInv DEF Step
<1>4. ASSUME NEW c \in Calls, Lose(c) PROVE Inv'
  BY <1>4, LoseInv
<1>5. CASE UNCHANGED vars
  BY <1>5 DEF vars, Inv, TypeOK, SignalFollowsDecision, HandlerInv, RowInv, SoleInv,
     Started, OnRow, IsResponse, Sole, SameSubject, RowHolds, LogHolds, InboxHolds,
     AuditHolds
<1> QED
  BY <1>1, <1>2, <1>3, <1>4, <1>5 DEF Next

THEOREM InvHolds == Spec => []Inv
BY InitInv, NextInv, PTL DEF Spec

\* Every reachable state has the declared types.
THEOREM TypeCorrect == Spec => []TypeOK
<1>1. Inv => TypeOK
  BY DEF Inv
<1> QED
  BY <1>1, InvHolds, PTL

\* A workflow is never told of a decision the database does not hold
\* (HumanTaskService writes through the store before it signals).
THEOREM SignalsAreBacked == Spec => []SignalFollowsDecision
<1>1. Inv => SignalFollowsDecision
  BY DEF Inv
<1> QED
  BY <1>1, InvHolds, PTL

\* The first decision stands in the row, the tool_call_log, the workflow and the
\* audit trail, if no other handler found the same subject pending.
THEOREM FirstDecisionStands == Spec => []SoleDeciderStands
<1>1. Inv => SoleDeciderStands
  <2> SUFFICES ASSUME Inv, NEW c \in Calls,
                      call[c].pc = "done", call[c].wasPending, Sole(c)
               PROVE  AllAgree(call[c].task, call[c].verdict)
    BY DEF SoleDeciderStands
  <2> QED
    BY DEF Inv, SoleInv, RowHolds, LogHolds, InboxHolds, AuditHolds, OnRow,
           IsResponse, AllAgree
<1> QED
  BY <1>1, InvHolds, PTL

-----------------------------------------------------------------------------
\* Where verdicts come from: every one found in a row, in the tool_call_log or in
\* an accepted answer was asked for by some handler, and the log is written
\* before the workflow is signalled.
AskedFor(t, v) == \E e \in Calls : call[e].task = t /\ call[e].verdict = v
Writer(e, t, v) == /\ call[e].task = t /\ call[e].verdict = v /\ call[e].wasPending

RowOrigin(t) ==
  /\ task[t].status \in Verdicts => AskedFor(t, task[t].status)
  /\ task[t].status = "resolved" => \E r \in Responses : AskedFor(t, r)
  /\ task[t].response # None => \E e \in Calls : Writer(e, t, task[t].response)
  /\ inbox[t].decision # None /\ task[t].toolCall # None
       => log[task[t].toolCall] # "pending_confirmation"

LogOrigin(k) ==
  log[k] # "pending_confirmation" =>
    \E e \in Calls : Started(e) /\ OnRow(e).toolCall = k /\ call[e].verdict = log[k]

HandlerOrigin(c) ==
  /\ call[c].pc = "signal" /\ ~IsResponse(c) /\ OnRow(c).toolCall # None
       => log[OnRow(c).toolCall] # "pending_confirmation"
  /\ call[c].pc \in {"signal", "audit", "done"} /\ IsResponse(c)
       => \E e \in Calls : Writer(e, call[c].task, call[c].verdict)

Origin ==
  /\ \A t \in Tasks : RowOrigin(t)
  /\ \A k \in ToolCalls : LogOrigin(k)
  /\ \A c \in Calls : HandlerOrigin(c)

LEMMA InitOrigin == Init => Origin
BY ResponsesAssumption DEF Init, Origin, RowOrigin, LogOrigin, HandlerOrigin, AbsentRow,
   IdleCall, Verdicts

\* What a handler was asked, and the tool call of its row, never change.
LEMMA AskedStays ==
  ASSUME Inv, [Next]_vars, NEW e \in Calls, Started(e)
  PROVE  /\ Started(e)' /\ call'[e].task = call[e].task
         /\ call'[e].verdict = call[e].verdict
         /\ call'[e].wasPending = call[e].wasPending
         /\ OnRow(e)'.toolCall = OnRow(e).toolCall
<1>0. TypeOK /\ HandlerInv(e)
  BY DEF Inv
<1>1. ASSUME NEW c \in Calls, NEW t \in Tasks, NEW v \in Verdicts \cup Responses,
             Begin(c, t, v)
      PROVE  call'[e] = call[e] /\ task' = task
  BY <1>0, <1>1 DEF Started, Begin, TypeOK
<1>2. CASE \E c \in Calls, t \in Tasks, v \in Verdicts \cup Responses : Begin(c, t, v)
  BY <1>1, <1>2 DEF Started, OnRow
<1>3. ASSUME NEW c \in Calls, Step(c) \/ Lose(c)
      PROVE  /\ Started(e)' /\ call'[e].task = call[e].task
             /\ call'[e].verdict = call[e].verdict
             /\ call'[e].wasPending = call[e].wasPending
             /\ OnRow(e)'.toolCall = OnRow(e).toolCall
  <2>1. StepFrame(c)
    BY <1>0, <1>3, StepFrameHolds
  <2>2. \E pc \in {"write", "log", "failed", "done", "conflict", "signal", "audit"} :
          Goto(c, pc)
    BY <1>3 DEF Step, LoadDecide, LoadRespond, WriteDecide, WriteRespond,
           UpdateToolCallLog, Signal, AppendAudit, Lose
  <2>3. Started(e)'
    BY <1>0, <2>1, <2>2 DEF Goto, Started, StepFrame, TypeOK, Handler
  <2> QED
    BY <1>0, <2>1, <2>3 DEF StepFrame, HandlerInv, OnRow
<1>4. CASE Create
  BY <1>0, <1>4 DEF Create, CreateTask, HandlerInv, Started, OnRow, TypeOK
<1>5. CASE UNCHANGED vars
  BY <1>5 DEF vars, Started, OnRow
<1> QED
  BY <1>2, <1>3, <1>4, <1>5 DEF Next

LEMMA AskingStays ==
  ASSUME Inv, [Next]_vars
  PROVE  /\ \A t \in Tasks : \A v : AskedFor(t, v) => AskedFor(t, v)'
         /\ \A e \in Calls, t \in Tasks : \A v : Writer(e, t, v) => Writer(e, t, v)'
<1>0. ASSUME NEW e \in Calls, call[e].task \in Tasks PROVE Started(e)
  BY <1>0, ResponsesAssumption DEF Inv, HandlerInv
<1> QED
  BY <1>0, AskedStays DEF AskedFor, Writer

LEMMA NextOrigin == Inv /\ Origin /\ [Next]_vars => Origin'
<1> SUFFICES ASSUME Inv, Origin, [Next]_vars PROVE Origin'
  OBVIOUS
<1> USE ResponsesAssumption
<1>0. /\ TypeOK /\ \A c \in Calls : HandlerInv(c)
      /\ \A t \in Tasks : \A v : AskedFor(t, v) => AskedFor(t, v)'
      /\ \A e \in Calls, t \in Tasks : \A v : Writer(e, t, v) => Writer(e, t, v)'
  BY AskingStays DEF Inv
\* What a row holds keeps its origin.
<1>10. ASSUME NEW t \in Tasks, NEW s, NEW r, task[t].status = s, task[t].response = r
       PROVE  /\ s \in Verdicts => AskedFor(t, s)'
              /\ s = "resolved" => \E q \in Responses : AskedFor(t, q)'
              /\ r # None => \E e \in Calls : Writer(e, t, r)'
  <2>1. /\ s \in Verdicts => AskedFor(t, s)
        /\ s = "resolved" => \E q \in Responses : AskedFor(t, q)
        /\ r # None => \E e \in Calls : Writer(e, t, r)
    BY <1>10 DEF Origin, RowOrigin
  <2>2. \A v : AskedFor(t, v) => AskedFor(t, v)'
    BY <1>0
  <2>3. \A e \in Calls : \A v : Writer(e, t, v) => Writer(e, t, v)'
    BY <1>0
  <2> QED
    BY <2>1, <2>2, <2>3
\* An entry of the log nobody touches keeps its origin, and so do the rows and the
\* handlers a step leaves alone.
<1>1. ASSUME NEW k \in ToolCalls, log'[k] = log[k] PROVE LogOrigin(k)'
  BY <1>1, AskedStays DEF Origin, LogOrigin
<1>2. ASSUME NEW t \in Tasks, task'[t] = task[t], inbox'[t] = inbox[t],
             \A k \in ToolCalls : log'[k] = "pending_confirmation"
                                    => log[k] = "pending_confirmation"
      PROVE  RowOrigin(t)'
  <2>1. RowOrigin(t) /\ task[t].toolCall \in ToolCalls \cup {None}
    BY <1>0 DEF Origin, TypeOK, Row
  <2>2. PICK s, r : task[t].status = s /\ task[t].response = r
    OBVIOUS
  <2>3. /\ s \in Verdicts => AskedFor(t, s)'
        /\ s = "resolved" => \E q \in Responses : AskedFor(t, q)'
        /\ r # None => \E e \in Calls : Writer(e, t, r)'
    BY <1>10, <2>2
  <2>4. task'[t].status = s /\ task'[t].response = r
    BY <1>2, <2>2
  <2> QED
    BY <1>2, <2>1, <2>3, <2>4 DEF RowOrigin, AskedFor, Writer
<1>3. ASSUME NEW c \in Calls, call'[c] = call[c], Started(c),
             \A k \in ToolCalls : log'[k] = "pending_confirmation"
                                    => log[k] = "pending_confirmation"
      PROVE  HandlerOrigin(c)'
  <2>1. /\ HandlerOrigin(c) /\ OnRow(c).toolCall \in ToolCalls \cup {None}
        /\ OnRow(c)'.toolCall = OnRow(c).toolCall /\ call[c].task \in Tasks
    BY <1>0, <1>3, AskedStays DEF Origin, TypeOK, Row, HandlerInv, OnRow
  <2> QED
    BY <1>0, <1>3, <2>1 DEF HandlerOrigin, IsResponse, Writer, OnRow
<1>4. ASSUME NEW c \in Calls, call'[c].pc \in {"idle", "load", "write", "log", "failed"}
      PROVE  HandlerOrigin(c)'
  BY <1>4 DEF HandlerOrigin
<1>5. ASSUME NEW c \in Calls, ~Started(c), call'[c] = call[c] PROVE HandlerOrigin(c)'
  BY <1>4, <1>5 DEF Started
<1>6. CASE Create
  <2>1. PICK t \in Tasks :
          /\ task[t].status = "absent"
          /\ \E kind \in {"approval", "user_input"}, k \in ToolCalls \cup {None} :
               task' = [task EXCEPT ![t] = [status |-> "pending", kind |-> kind,
                                            toolCall |-> k, response |-> None]]
          /\ UNCHANGED <<log, inbox, call, audit, faults>>
    BY <1>6 DEF Create, CreateTask
  <2>2. /\ \A u \in Tasks \ {t} : task'[u] = task[u]
        /\ task'[t].status = "pending" /\ task'[t].response = None
        /\ inbox[t].decision = None
    BY <1>0, <2>1 DEF TypeOK, Inv, SignalFollowsDecision, Decided
  <2>3. ASSUME NEW u \in Tasks PROVE RowOrigin(u)'
    BY <1>2, <2>1, <2>2 DEF RowOrigin, Verdicts
  <2> QED
    BY <1>1, <1>3, <1>5, <2>1, <2>3 DEF Origin
<1>7. ASSUME NEW c \in Calls, NEW t \in Tasks, NEW v \in Verdicts \cup Responses,
             Begin(c, t, v)
      PROVE  Origin'
  <2>1. /\ call'[c].pc = "load" /\ \A d \in Calls \ {c} : call'[d] = call[d]
        /\ UNCHANGED <<task, log, inbox>>
    BY <1>0, <1>7 DEF Begin, TypeOK
  <2> QED
    BY <1>1, <1>2, <1>3, <1>4, <1>5, <2>1 DEF Origin
<1>8. ASSUME NEW c \in Calls, Step(c) \/ Lose(c) PROVE Origin'
  <2>1. StepFrame(c) /\ HandlerInv(c) /\ HandlerOrigin(c) /\ Started(c)
        /\ call[c].task \in Tasks /\ OnRow(c) \in Row
        /\ IsResponse(c)' = IsResponse(c) /\ OnRow(c)'.toolCall = OnRow(c).toolCall
        /\ call'[c].task = call[c].task /\ call'[c].verdict = call[c].verdict
        /\ call'[c].wasPending = call[c].wasPending
    <3>1. StepFrame(c) /\ Started(c) /\ HandlerInv(c) /\ HandlerOrigin(c)
      BY <1>0, <1>8, StepFrameHolds
      DEF Origin, Step, LoadDecide, LoadRespond, WriteDecide, WriteRespond,
          UpdateToolCallLog, Signal, AppendAudit, Lose, UnderWay, Started
    <3> QED
      BY <1>0, <3>1 DEF HandlerInv, OnRow, StepFrame, IsResponse, TypeOK
  <2>0. PICK t \in Tasks : call[c].task = t
    BY <2>1
  <2>10. PICK v, s, r :
           /\ call[c].task = t /\ call[c].verdict = v
           /\ task[t].status = s /\ task[t].response = r
    BY <2>0
  <2>11. /\ s \in Verdicts => AskedFor(t, s)'
         /\ s = "resolved" => \E q \in Responses : AskedFor(t, q)'
         /\ r # None => \E e \in Calls : Writer(e, t, r)'
         /\ AskedFor(t, v)'
         /\ call[c].wasPending => Writer(c, t, v)'
    <3>1. AskedFor(t, v)' /\ (call[c].wasPending => Writer(c, t, v)')
      BY <2>1, <2>10 DEF AskedFor, Writer
    <3> QED
      BY <1>10, <2>10, <3>1
  <2>2. ASSUME HandlerOrigin(c)', log' = log,
               \A u \in Tasks : RowOrigin(u)'
        PROVE  Origin'
    BY <1>1, <1>3, <1>5, <2>1, <2>2 DEF Origin, StepFrame
  <2>12. ASSUME call[c].pc \in {"signal", "audit"}, call'[c].pc \in {"audit", "done"}
         PROVE  HandlerOrigin(c)'
    <3>1. IsResponse(c) => \E e \in Calls : Writer(e, t, v)
      BY <2>1, <2>10, <2>12 DEF HandlerOrigin
    <3>2. \A e \in Calls : Writer(e, t, v) => Writer(e, t, v)'
      BY <1>0
    <3> QED
      BY <2>1, <2>10, <2>12, <3>1, <3>2 DEF HandlerOrigin, Writer
  <2>3. CASE LoadDecide(c) \/ Lose(c)
    <3>1. /\ call'[c].pc \in {"write", "log", "failed"} /\ UNCHANGED <<task, log, inbox>>
      BY <1>0, <2>3 DEF LoadDecide, Lose, Goto, TypeOK, Handler
    <3> QED
      BY <1>2, <1>4, <2>2, <3>1
  <2>4. CASE LoadRespond(c)
    <3>1. /\ UNCHANGED <<task, log, inbox>> /\ call'[c].pc # "signal"
          /\ \/ call'[c].pc \in {"write", "failed", "conflict"}
             \/ call'[c].pc = "done" /\ OnRow(c).response = call[c].verdict
      BY <1>0, <2>4 DEF LoadRespond, Goto, TypeOK, Handler, OnRow
    <3>2. v # None
      BY <2>1, <2>4, <2>10 DEF LoadRespond, IsResponse
    <3>3. HandlerOrigin(c)'
      BY <2>1, <2>10, <2>11, <3>1, <3>2 DEF HandlerOrigin, Writer, OnRow
    <3> QED
      BY <1>2, <2>2, <3>1, <3>3
  <2>5. CASE WriteDecide(c)
    <3>1. /\ UNCHANGED <<log, inbox>> /\ call'[c].pc = "log"
          /\ \A u \in Tasks \ {t} : task'[u] = task[u]
          /\ task'[t].status = v /\ v \in Verdicts /\ task'[t].response = r
      BY <1>0, <2>1, <2>5, <2>10 DEF WriteDecide, Goto, TypeOK, Handler, Row,
           HandlerInv, IsResponse
    <3>2. inbox[t].decision # None /\ task[t].toolCall # None
            => log[task[t].toolCall] # "pending_confirmation"
      BY DEF Origin, RowOrigin
    <3>3. RowOrigin(t)'
      BY <2>1, <2>10, <2>11, <3>1, <3>2 DEF RowOrigin, AskedFor, Writer, Verdicts, OnRow
    <3> QED
      BY <1>2, <1>4, <2>2, <3>1, <3>3
  <2>6. CASE WriteRespond(c)
    <3>1. /\ UNCHANGED <<log, inbox>> /\ call'[c].pc = "signal"
          /\ v \in Responses /\ call[c].wasPending
          /\ \A u \in Tasks \ {t} : task'[u] = task[u]
          /\ task'[t].status = "resolved" /\ task'[t].response = v
      BY <1>0, <2>1, <2>6, <2>10 DEF WriteRespond, Goto, TypeOK, Handler, Row,
           HandlerInv, IsResponse
    <3>2. inbox[t].decision # None /\ task[t].toolCall # None
            => log[task[t].toolCall] # "pending_confirmation"
      BY DEF Origin, RowOrigin
    <3>3. RowOrigin(t)'
      BY <2>1, <2>10, <2>11, <3>1, <3>2 DEF RowOrigin, AskedFor, Writer, Verdicts, OnRow
    <3>4. HandlerOrigin(c)'
      BY <2>1, <2>10, <2>11, <3>1 DEF HandlerOrigin, Writer, IsResponse
    <3> QED
      BY <1>2, <2>2, <3>1, <3>3, <3>4
  <2>7. CASE UpdateToolCallLog(c)
    <3> DEFINE k == OnRow(c).toolCall
    <3>1. /\ UNCHANGED <<task, inbox>> /\ ~IsResponse(c) /\ call[c].verdict \in Verdicts
          /\ log' = IF call[c].wasPending /\ k # None
                      THEN [log EXCEPT ![k] = call[c].verdict] ELSE log
          /\ call'[c].pc = IF call[c].wasPending THEN "signal" ELSE "done"
      BY <1>0, <2>1, <2>7 DEF UpdateToolCallLog, Goto, TypeOK, Handler, HandlerInv,
           IsResponse, OnRow
    <3>2. \A j \in ToolCalls : log'[j] = log[j] \/ (j = k /\ log'[j] = call[c].verdict)
      BY <1>0, <3>1 DEF TypeOK
    <3>3. \A j \in ToolCalls : log'[j] = "pending_confirmation"
                               => log[j] = "pending_confirmation"
      BY <3>1, <3>2 DEF Verdicts
    <3>4. ASSUME NEW j \in ToolCalls PROVE LogOrigin(j)'
      <4>1. CASE log'[j] = log[j]
        BY <1>1, <4>1
      <4>2. CASE j = k /\ log'[j] = call[c].verdict
        BY <1>8, <2>1, <4>2, AskedStays DEF LogOrigin, StepFrame, Next
      <4> QED
        BY <3>2, <4>1, <4>2
    <3>5. HandlerOrigin(c)'
      <4>1. call[c].wasPending /\ k # None => log'[k] = call[c].verdict
        BY <1>0, <2>1, <3>1 DEF TypeOK, Row
      <4> QED
        BY <2>1, <3>1, <4>1 DEF HandlerOrigin, Verdicts
    <3> QED
      BY <1>2, <1>3, <1>5, <2>1, <3>1, <3>3, <3>4, <3>5 DEF Origin, StepFrame
  <2>8. CASE Signal(c)
    <3>1. /\ UNCHANGED <<task, log>> /\ call[c].pc = "signal" /\ call'[c].pc = "audit"
          /\ \A u \in Tasks \ {t} : inbox'[u] = inbox[u]
          /\ IsResponse(c) => inbox'[t].decision = inbox[t].decision
      BY <1>0, <2>1, <2>8, <2>10 DEF Signal, Goto, TypeOK, Handler
    <3>2. inbox'[t].decision # None /\ task[t].toolCall # None
            => log[task[t].toolCall] # "pending_confirmation"
      BY <2>1, <2>10, <3>1 DEF Origin, RowOrigin, HandlerOrigin, OnRow
    <3>3. RowOrigin(t)'
      BY <2>10, <2>11, <3>1, <3>2 DEF RowOrigin, AskedFor, Writer
    <3>4. HandlerOrigin(c)'
      BY <2>12, <3>1
    <3> QED
      BY <1>2, <2>2, <3>1, <3>3, <3>4
  <2>9. CASE AppendAudit(c)
    <3>1. /\ UNCHANGED <<task, log, inbox>> /\ call[c].pc = "audit" /\ call'[c].pc = "done"
      BY <1>0, <2>9 DEF AppendAudit, Goto, TypeOK, Handler
    <3>2. HandlerOrigin(c)'
      BY <2>12, <3>1
    <3> QED
      BY <1>2, <2>2, <3>1, <3>2
  <2> QED
    BY <1>8, <2>3, <2>4, <2>5, <2>6, <2>7, <2>8, <2>9 DEF Step
<1>9. CASE UNCHANGED vars
  BY <1>1, <1>2, <1>3, <1>5, <1>9 DEF vars, Origin
<1> QED
  BY <1>6, <1>7, <1>8, <1>9 DEF Next

LEMMA OriginHolds == Spec => [](Inv /\ Origin)
BY InitInv, NextInv, InitOrigin, NextOrigin, PTL DEF Spec

\* Handlers that ask for the same thing cannot leave anything else behind, in the
\* row or in the tool_call_log, however many of them overlap or are lost.
THEOREM AgreedVerdictStands == Spec => []UnopposedVerdictStands
<1>1. Inv /\ Origin => UnopposedVerdictStands
  <2> SUFFICES ASSUME Inv, Origin, NEW t \in Tasks, inbox[t].decision # None,
                      \A c \in Calls :
                        /\ call[c].task # None
                        /\ \/ call[c].task = t
                           \/ /\ task[t].toolCall # None
                              /\ task[call[c].task].toolCall = task[t].toolCall
                        => call[c].verdict = inbox[t].decision
               PROVE  /\ task[t].status = inbox[t].decision
                      /\ task[t].toolCall # None
                           => log[task[t].toolCall] = inbox[t].decision
    BY DEF UnopposedVerdictStands
  <2> USE ResponsesAssumption
  <2>1. /\ TypeOK /\ RowOrigin(t) /\ t # None
        /\ inbox[t].decision \in Verdicts /\ task[t].status \in Decided
        /\ task[t].toolCall \in ToolCalls \cup {None}
    BY DEF Inv, Origin, TypeOK, Row, SignalFollowsDecision
  <2>2. task[t].status # "resolved"
    BY <2>1 DEF RowOrigin, AskedFor, Verdicts
  <2>3. task[t].status = inbox[t].decision
    BY <2>1, <2>2 DEF RowOrigin, AskedFor, Verdicts, Decided
  <2>4. ASSUME task[t].toolCall # None
        PROVE  log[task[t].toolCall] = inbox[t].decision
    <3>1. PICK e \in Calls : /\ Started(e) /\ OnRow(e).toolCall = task[t].toolCall
                             /\ call[e].verdict = log[task[t].toolCall]
      BY <2>1, <2>4 DEF RowOrigin, Origin, LogOrigin
    <3>2. call[e].task # None
      BY <3>1 DEF Inv, HandlerInv
    <3> QED
      BY <2>4, <3>1, <3>2 DEF OnRow
  <2> QED
    BY <2>3, <2>4
<1> QED
  BY <1>1, OriginHolds, PTL

\* Two different answers are accepted only from handlers that overlapped.
THEOREM RivalsOverlapped == Spec => []RivalAnswersOverlapped
<1>1. Origin => RivalAnswersOverlapped
  <2> SUFFICES ASSUME Origin, NEW c \in Calls, NEW d \in Calls,
                      call[c].pc = "done", call[d].pc = "done",
                      IsResponse(c), IsResponse(d),
                      call[c].task = call[d].task, call[c].verdict # call[d].verdict
               PROVE  \E e, f \in Calls :
                        /\ e # f /\ call[e].wasPending /\ call[f].wasPending
                        /\ call[e].task = call[c].task /\ call[f].task = call[c].task
    BY DEF RivalAnswersOverlapped
  <2>1. PICK e \in Calls : Writer(e, call[c].task, call[c].verdict)
    BY DEF Origin, HandlerOrigin
  <2>2. PICK f \in Calls : Writer(f, call[d].task, call[d].verdict)
    BY DEF Origin, HandlerOrigin
  <2> QED
    BY <2>1, <2>2 DEF Writer
<1> QED
  BY <1>1, OriginHolds, PTL

-----------------------------------------------------------------------------
(***************************************************************************)
(* Liveness. Told is what DecisionReachesWorkflow has of a safety property:*)
(* a decision the workflow does not know of yet is in the hands of a       *)
(* handler that is going to signal it, or of one that was lost. With it,   *)
(* it is enough to follow that one handler through its last two awaits.    *)
(* Two facts are hypotheses: that fairness holds at every moment (FairSpec *)
(* says so of the first one, and it does not depend on the moment), and    *)
(* HandlersGoOn, the part of UntoldDecisionIsAttended that is about        *)
(* ENABLED and which TLC checks.                                           *)
(***************************************************************************)
AtLog(c, t) ==
  call[c].task = t /\ call[c].pc = "log" /\ call[c].wasPending /\ ~IsResponse(c)
AtSignal(c, t) == call[c].task = t /\ call[c].pc = "signal" /\ ~IsResponse(c)
Answering(c, t) == call[c].task = t /\ call[c].pc = "signal" /\ IsResponse(c)

Told ==
  \A t \in Tasks :
    /\ task[t].status \in Verdicts
         => DecisionTold(t) \/ \E c \in Calls : AtLog(c, t) \/ AtSignal(c, t)
    /\ task[t].response # None
         => AnswerTold(t) \/ \E c \in Calls : Answering(c, t)

\* What one handler does, for the others and for itself: it keeps its subject,
\* leaves the awaits only by a step of its own or by being lost, and one that
\* ended stays ended.
LEMMA HandlerMoves ==
  ASSUME Inv, [Next]_vars, NEW c \in Calls, call[c].pc \in {"log", "signal", "failed"}
  PROVE  /\ call'[c].task = call[c].task /\ call'[c].verdict = call[c].verdict
         /\ call'[c].wasPending = call[c].wasPending
         /\ \/ call'[c] = call[c]
            \/ call'[c].pc = "failed"
            \/ /\ call[c].pc = "log" /\ UpdateToolCallLog(c)
               /\ call[c].wasPending => call'[c].pc = "signal"
            \/ call[c].pc = "signal" /\ Signal(c)
<1>0. TypeOK /\ Started(c)
  BY DEF Inv, Started
<1>1. /\ call'[c].task = call[c].task /\ call'[c].verdict = call[c].verdict
      /\ call'[c].wasPending = call[c].wasPending
  BY <1>0, AskedStays
<1>2. ASSUME NEW d \in Calls, Step(d) \/ Lose(d), d # c PROVE call'[c] = call[c]
  BY <1>0, <1>2, StepFrameHolds DEF StepFrame
<1>3. ASSUME Lose(c) PROVE call'[c].pc = "failed"
  BY <1>0, <1>3 DEF Lose, Goto, TypeOK, Handler
<1>4. ASSUME Step(c)
      PROVE  \/ /\ call[c].pc = "log" /\ UpdateToolCallLog(c)
                /\ call[c].wasPending => call'[c].pc = "signal"
             \/ call[c].pc = "signal" /\ Signal(c)
  BY <1>0, <1>4 DEF Step, LoadDecide, LoadRespond, WriteDecide, WriteRespond,
     UpdateToolCallLog, Signal, AppendAudit, Goto, TypeOK, Handler
<1>5. ASSUME NEW d \in Calls, NEW t \in Tasks, NEW v \in Verdicts \cup Responses,
             Begin(d, t, v)
      PROVE  call'[c] = call[c]
  BY <1>0, <1>5 DEF Begin, TypeOK, Started
<1>6. CASE Create
  BY <1>6 DEF Create
<1>7. CASE UNCHANGED vars
  BY <1>7 DEF vars
<1> QED
  BY <1>1, <1>2, <1>3, <1>4, <1>5, <1>6, <1>7 DEF Next

\* Nothing takes back what the workflow was told, or that a handler was lost.
LEMMA ToldStays ==
  ASSUME Inv, [Next]_vars, NEW t \in Tasks
  PROVE  /\ DecisionTold(t) => DecisionTold(t)'
         /\ AnswerTold(t) => AnswerTold(t)'
<1>1. LostOn(t) => LostOn(t)'
  <2> SUFFICES ASSUME NEW c \in Calls, call[c].task = t, call[c].pc = "failed"
               PROVE  LostOn(t)'
    BY DEF LostOn
  <2> QED
    <3>1. call'[c].task = t /\ call'[c].pc = "failed"
      BY HandlerMoves
    <3> QED
      BY <3>1 DEF LostOn
<1>2. /\ inbox[t].decision # None => inbox'[t].decision # None
      /\ inbox[t].response # None => inbox'[t].response # None
  <2>1. ASSUME NEW c \in Calls, Signal(c)
        PROVE  /\ inbox[t].decision # None => inbox'[t].decision # None
               /\ inbox[t].response # None => inbox'[t].response # None
    BY <2>1 DEF Signal, KeepFirst, Inv, TypeOK
  <2>2. ASSUME NEW c \in Calls, Step(c) \/ Lose(c), ~Signal(c) PROVE UNCHANGED inbox
    BY <2>2 DEF Step, Lose, LoadDecide, LoadRespond, WriteDecide, WriteRespond,
       UpdateToolCallLog, AppendAudit
  <2>3. CASE Create \/ UNCHANGED vars
    BY <2>3 DEF Create, vars
  <2>4. ASSUME NEW c \in Calls, NEW u \in Tasks, NEW v \in Verdicts \cup Responses,
               Begin(c, u, v)
        PROVE  UNCHANGED inbox
    BY <2>4 DEF Begin
  <2> QED
    BY <2>1, <2>2, <2>3, <2>4 DEF Next
<1> QED
  BY <1>1, <1>2 DEF DecisionTold, AnswerTold

\* A handler at its last awaits stays there until it has told the workflow.
LEMMA HandlerTells ==
  ASSUME Inv, [Next]_vars, NEW c \in Calls, NEW t \in Tasks
  PROVE  /\ AtLog(c, t) => AtLog(c, t)' \/ AtSignal(c, t)' \/ DecisionTold(t)'
         /\ AtSignal(c, t) => AtSignal(c, t)' \/ DecisionTold(t)'
         /\ Answering(c, t) => Answering(c, t)' \/ AnswerTold(t)'
         /\ AtLog(c, t) /\ Step(c) => AtSignal(c, t)' \/ DecisionTold(t)'
         /\ AtSignal(c, t) /\ Step(c) => DecisionTold(t)'
         /\ Answering(c, t) /\ Step(c) => AnswerTold(t)'
<1>0. TypeOK /\ None \notin Verdicts \cup Responses /\ HandlerInv(c)
  BY ResponsesAssumption DEF Inv, Verdicts
<1>1. call'[c].task = t /\ call'[c].pc = "failed" => LostOn(t)'
  BY DEF LostOn
<1>2. ASSUME call[c].task = t, Signal(c)
      PROVE  /\ ~IsResponse(c) => DecisionTold(t)'
             /\ IsResponse(c) => AnswerTold(t)'
  <2>1. call[c].verdict \in Verdicts \cup Responses
    BY <1>0, <1>2 DEF Signal, HandlerInv, Started
  <2> QED
    BY <1>0, <1>2, <2>1
    DEF Signal, KeepFirst, IsResponse, TypeOK, DecisionTold, AnswerTold
<1>3. ASSUME call[c].pc \in {"log", "signal"}, Step(c), Inv
      PROVE  call'[c] # call[c]
  BY <1>0, <1>3 DEF Step, LoadDecide, LoadRespond, WriteDecide, WriteRespond,
     UpdateToolCallLog, Signal, AppendAudit, Goto, TypeOK, Handler
<1> QED
  BY <1>0, <1>1, <1>2, <1>3, HandlerMoves
  DEF AtLog, AtSignal, Answering, IsResponse, DecisionTold, AnswerTold

LEMMA InitTold == Init => Told
<1> SUFFICES ASSUME Init, NEW t \in Tasks
             PROVE  task[t].status \notin Verdicts /\ task[t].response = None
  BY DEF Told
<1> QED
  BY DEF Init, AbsentRow, Verdicts

LEMMA NextTold == Inv /\ Told /\ [Next]_vars => Told'
<1> SUFFICES ASSUME Inv, Told, [Next]_vars, NEW t \in Tasks
             PROVE  /\ task'[t].status \in Verdicts
                         => \/ DecisionTold(t)'
                            \/ \E c \in Calls : AtLog(c, t)' \/ AtSignal(c, t)'
                    /\ task'[t].response # None
                         => AnswerTold(t)' \/ \E c \in Calls : Answering(c, t)'
  BY DEF Told
<1>0. TypeOK /\ \A c \in Calls : HandlerInv(c)
  BY DEF Inv
<1>1. CASE /\ task'[t].status = task[t].status
           /\ task'[t].response = task[t].response
  BY <1>1, ToldStays, HandlerTells DEF Told
<1>2. ASSUME NEW c \in Calls, WriteDecide(c)
      PROVE  /\ call[c].task = t => AtLog(c, t)'
             /\ task'[t].response = task[t].response
             /\ call[c].task # t => task'[t] = task[t]
  BY <1>0, <1>2 DEF WriteDecide, Goto, TypeOK, Row, HandlerInv, AtLog, IsResponse,
     Handler
<1>3. ASSUME NEW c \in Calls, WriteRespond(c)
      PROVE  /\ call[c].task = t => Answering(c, t)' /\ task'[t].status = "resolved"
             /\ call[c].task # t => task'[t] = task[t]
  BY <1>0, <1>3 DEF WriteRespond, Goto, TypeOK, Row, HandlerInv, Answering, IsResponse,
     Handler
<1>4. \/ task'[t] = task[t]
      \/ task'[t].status = "pending" /\ task'[t].response = None
      \/ \E c \in Calls : WriteDecide(c) \/ WriteRespond(c)
  <2>1. CASE Create
    BY <1>0, <2>1 DEF Create, CreateTask, TypeOK
  <2>2. ASSUME NEW c \in Calls, Step(c) \/ Lose(c), ~WriteDecide(c), ~WriteRespond(c)
        PROVE  UNCHANGED task
    BY <2>2 DEF Step, Lose, LoadDecide, LoadRespond, UpdateToolCallLog, Signal,
       AppendAudit
  <2>3. ASSUME NEW c \in Calls, NEW u \in Tasks, NEW v \in Verdicts \cup Responses,
               Begin(c, u, v)
        PROVE  UNCHANGED task
    BY <2>3 DEF Begin
  <2> QED
    BY <2>1, <2>2, <2>3 DEF Next, vars
<1>5. ASSUME NEW c \in Calls, WriteDecide(c)
      PROVE  /\ task'[t].status \in Verdicts
                  => DecisionTold(t)' \/ \E d \in Calls : AtLog(d, t)' \/ AtSignal(d, t)'
             /\ task'[t].response # None
                  => AnswerTold(t)' \/ \E d \in Calls : Answering(d, t)'
  BY <1>1, <1>2, <1>5, ToldStays, HandlerTells DEF Told
<1>6. ASSUME NEW c \in Calls, WriteRespond(c)
      PROVE  /\ task'[t].status \in Verdicts
                  => DecisionTold(t)' \/ \E d \in Calls : AtLog(d, t)' \/ AtSignal(d, t)'
             /\ task'[t].response # None
                  => AnswerTold(t)' \/ \E d \in Calls : Answering(d, t)'
  BY <1>1, <1>3, <1>6 DEF Verdicts
<1> QED
  BY <1>1, <1>4, <1>5, <1>6 DEF Verdicts

LEMMA ToldHolds == Spec => [](Inv /\ Told)
BY InitInv, NextInv, InitTold, NextTold, PTL DEF Spec

\* A decision the workflow does not know of is in the hands of a handler that found
\* the task pending. That the handler can go on is about ENABLED, and assumed.
THEOREM DecisionsAreAttended == Spec /\ []HandlersGoOn => []UntoldDecisionIsAttended
<1>1. Inv /\ Told /\ HandlersGoOn => UntoldDecisionIsAttended
  <2> SUFFICES ASSUME Inv, Told, HandlersGoOn, NEW t \in Tasks
               PROVE  /\ task[t].status \in Verdicts
                           => \/ DecisionTold(t)
                              \/ \E c \in {d \in Calls : /\ call[d].task = t
                                                      /\ call[d].wasPending
                                                      /\ UnderWay(d)} : ~IsResponse(c)
                      /\ task[t].response # None
                           => \/ AnswerTold(t)
                              \/ \E c \in {d \in Calls : /\ call[d].task = t
                                                      /\ call[d].wasPending
                                                      /\ UnderWay(d)} : IsResponse(c)
    BY DEF UntoldDecisionIsAttended
  <2>1. \A c \in Calls : call[c].pc = "signal" => call[c].wasPending
    BY DEF Inv, HandlerInv
  <2> QED
    BY <2>1 DEF Told, AtLog, AtSignal, Answering, UnderWay
<1> QED
  BY <1>1, ToldHolds, PTL

\* What one handler achieves, from any moment on at which it stands at one of its
\* last awaits.
Running == [](Inv /\ Told) /\ [][Next]_vars /\ []HandlersGoOn
DecisionWillBeTold(t) == <>DecisionTold(t)
AnswerWillBeTold(t)   == <>AnswerTold(t)

LEMMA DeciderTells ==
  ASSUME NEW c \in Calls, NEW t \in Tasks
  PROVE  Running /\ Resumed(c) /\ (AtLog(c, t) \/ AtSignal(c, t)) => DecisionWillBeTold(t)
<1>1. Inv /\ AtLog(c, t) /\ [Next]_vars
        => AtLog(c, t)' \/ AtSignal(c, t)' \/ DecisionTold(t)'
  BY HandlerTells
<1>2. Inv /\ AtLog(c, t) /\ <<Next /\ Step(c)>>_vars => AtSignal(c, t)' \/ DecisionTold(t)'
  BY HandlerTells
<1>3. Inv /\ AtSignal(c, t) /\ [Next]_vars => AtSignal(c, t)' \/ DecisionTold(t)'
  BY HandlerTells
<1>4. Inv /\ AtSignal(c, t) /\ <<Next /\ Step(c)>>_vars => DecisionTold(t)'
  BY HandlerTells
<1>5. HandlersGoOn /\ (AtLog(c, t) \/ AtSignal(c, t)) => ENABLED <<Step(c)>>_vars
  BY DEF HandlersGoOn, AtLog, AtSignal, UnderWay
<1>6. <<Step(c)>>_vars => <<Next /\ Step(c)>>_vars
  BY DEF Next
<1> QED
  BY <1>1, <1>2, <1>3, <1>4, <1>5, <1>6, PTL DEF Running, Resumed, DecisionWillBeTold

LEMMA AnswererTells ==
  ASSUME NEW c \in Calls, NEW t \in Tasks
  PROVE  Running /\ Resumed(c) /\ Answering(c, t) => AnswerWillBeTold(t)
<1>1. Inv /\ Answering(c, t) /\ [Next]_vars => Answering(c, t)' \/ AnswerTold(t)'
  BY HandlerTells
<1>2. Inv /\ Answering(c, t) /\ <<Next /\ Step(c)>>_vars => AnswerTold(t)'
  BY HandlerTells
<1>3. HandlersGoOn /\ Answering(c, t) => ENABLED <<Step(c)>>_vars
  BY DEF HandlersGoOn, Answering, UnderWay
<1>4. <<Step(c)>>_vars => <<Next /\ Step(c)>>_vars
  BY DEF Next
<1> QED
  BY <1>1, <1>2, <1>3, <1>4, PTL DEF Running, Resumed, AnswerWillBeTold

\* Whoever decides or answers a task, the workflow that waits for it is told in the
\* end, if the handlers are resumed after each await and the one that wrote the
\* row was not lost before its signal.
THEOREM DecisionsArrive ==
  Spec /\ []Fairness /\ []HandlersGoOn => DecisionReachesWorkflow
<1>1. ASSUME NEW t \in Tasks
      PROVE  Running /\ Fairness
               /\ (\E c \in Calls : AtLog(c, t) \/ AtSignal(c, t))
             => DecisionWillBeTold(t)
  BY DeciderTells DEF Fairness
<1>2. ASSUME NEW t \in Tasks
      PROVE  Running /\ Fairness /\ (\E c \in Calls : Answering(c, t))
             => AnswerWillBeTold(t)
  BY AnswererTells DEF Fairness
<1>3. ASSUME NEW t \in Tasks
      PROVE  Spec /\ []Fairness /\ []HandlersGoOn
             => /\ (task[t].status \in Verdicts)
                     ~> (inbox[t].decision # None \/ LostOn(t))
                /\ (task[t].response # None)
                     ~> (inbox[t].response # None \/ LostOn(t))
  <2>1. Told /\ task[t].status \in Verdicts
          => DecisionTold(t) \/ \E c \in Calls : AtLog(c, t) \/ AtSignal(c, t)
    BY DEF Told
  <2>2. Told /\ task[t].response # None
          => AnswerTold(t) \/ \E c \in Calls : Answering(c, t)
    BY DEF Told
  <2> QED
    BY <1>1, <1>2, <2>1, <2>2, ToldHolds, PTL
    DEF Spec, Running, DecisionWillBeTold, AnswerWillBeTold, DecisionTold, AnswerTold
<1> QED
  BY <1>3 DEF DecisionReachesWorkflow
=====
