---------------------------- MODULE AgentSegment ----------------------------
(***************************************************************************)
(* One segment of an agent: the attempts of runPiSegmentActivity, and what *)
(* they leave in the ledger of model calls and in the step of the segment. *)
(*                                                                         *)
(* An attempt asks the model turn by turn. A turn has one row in the       *)
(* ledger, found again by its key, so that an attempt that follows a crash *)
(* takes the answers that are there instead of asking for them. An attempt *)
(* that was given up may go on beside the one that replaces it, on the     *)
(* same rows, until its worker hears of it.                                *)
(***************************************************************************)
EXTENDS Naturals, Sequences, FiniteSetsExt

CONSTANTS
  Answers,      \* what a model may answer
  More,         \* the answers after which the agent asks again: no tool could be deferred
  MaxAttempts,  \* PI_ACTIVITY_OPTIONS.piSegment.retry.maximumAttempts
  Targets,      \* targets of the model policy that the tenant allows
  MaxTries,     \* calls of one target
  MaxTurns,     \* bound: model turns of the segment
  MaxFaults     \* bound: calls and writes that fail, workers that die, timeouts

ASSUME AgentSegmentAssumption ==
  /\ More \subseteq Answers
  /\ {MaxAttempts, Targets, MaxTries, MaxTurns} \subseteq Nat \ {0} /\ MaxFaults \in Nat

VARIABLES
  log,         \* model_call_log, by turn
  rows,        \* model_call_attempt.status, by turn and global_attempt_index
  step,        \* the agent_step row, as its first writer left it, and its context_snapshot_ref
  attempt,     \* the attempts of the activity
  current,     \* the one whose result is waited for
  told,        \* the result the workflow has been given
  wf,          \* "wait", "update" the step, go "on", or "failed"
  sent,        \* history: requests sent to a model, by turn
  overlapped,  \* history: an attempt began while another was running
  faults

vars == <<log, rows, step, attempt, current, told, wf, sent, overlapped, faults>>

Attempts == 1..MaxAttempts
Turns    == 1..MaxTurns
None     == "none"
Ended    == {"idle", "over", "dead"}
Pcs      == Ended \cup {"create", "index", "run", "start", "call", "complete", "refuse",
                        "record", "fail", "persist", "step", "return"}
\* A snapshot is known by the attempt that made it: its messages carry their time.
NoResult == [kind |-> None, hist |-> <<>>, snapshot |-> 0]

Init ==
  /\ log = [t \in Turns |-> [status |-> None, request |-> <<>>, answer |-> None, count |-> 0]]
  /\ rows = [t \in Turns |-> <<>>]
  /\ step = NoResult
  /\ attempt = [a \in Attempts |->
       [pc |-> IF a = 1 THEN "create" ELSE "idle", hist |-> <<>>, target |-> 1, tries |-> 1,
        index |-> 0, answer |-> None, kind |-> "done", aborted |-> FALSE]]
  /\ current = 1
  /\ told = NoResult
  /\ wf = "wait"
  /\ sent = [t \in Turns |-> 0]
  /\ overlapped = FALSE
  /\ faults = 0

At(a, pc)   == attempt[a].pc = pc
Turn(a)     == Len(attempt[a].hist) + 1
Running(a)  == attempt[a].pc \notin Ended
Fault       == faults < MaxFaults /\ faults' = faults + 1
Goto(a, pc) == attempt' = [attempt EXCEPT ![a].pc = pc]
SetLog(t, row) == log' = [log EXCEPT ![t] = row]

\* The answer joins the messages; the agent stops, or asks for the next turn.
Answered(a, x) ==
  attempt' = [attempt EXCEPT ![a] = [attempt[a] EXCEPT
    !.pc = IF x \in More THEN "create" ELSE "persist", !.hist = Append(attempt[a].hist, x),
    !.target = 1, !.tries = 1, !.index = 0, !.answer = None]]

\* An error of the stream: the agent stops and the segment is a failed one. The activity
\* goes on.
SegmentFails(a) == attempt' = [attempt EXCEPT ![a].pc = "persist", ![a].kind = "failed"]

Result(a) == [kind |-> attempt[a].kind, hist |-> attempt[a].hist, snapshot |-> a]

-----------------------------------------------------------------------------
\* Of a write that fails, out of the reach of callModelWithLedger's catch.
LedgerFails(a) ==
  /\ attempt[a].pc \in {"create", "index"}
  /\ Fault /\ SegmentFails(a)
  /\ UNCHANGED <<log, rows, step, current, told, wf, sent, overlapped>>

\* Variant: the row is taken by its key, whatever was asked.
CreateOrGetAnyRequest(a) ==
  /\ At(a, "create")
  /\ LET t == Turn(a)
         row == log[t] IN
     \/ /\ row.status = None
        /\ SetLog(t, [row EXCEPT !.status = "queued", !.request = attempt[a].hist])
        /\ Goto(a, "index")
     \/ row.status = "succeeded" /\ Answered(a, row.answer) /\ UNCHANGED log
     \/ row.status \notin {None, "succeeded"} /\ Goto(a, "index") /\ UNCHANGED log
  /\ UNCHANGED <<rows, step, current, told, wf, sent, overlapped, faults>>

\* Variant: a recorded answer is not taken.
CreateOrGetNoReplay(a) ==
  /\ At(a, "create")
  /\ LET t == Turn(a)
         row == log[t] IN
     \/ /\ row.status = None
        /\ SetLog(t, [row EXCEPT !.status = "queued", !.request = attempt[a].hist])
        /\ Goto(a, "index")
     \/ /\ row.status # None /\ row.request # attempt[a].hist
        /\ SegmentFails(a) /\ UNCHANGED log
     \/ /\ row.status # None /\ row.request = attempt[a].hist
        /\ Goto(a, "index") /\ UNCHANGED log
  /\ UNCHANGED <<rows, step, current, told, wf, sent, overlapped, faults>>

\* createOrGet for a target: the row of the turn is made, is of another request, has the
\* answer, or is there without one. The request is told from another by the messages it
\* carries, the earlier answers.
CreateOrGet(a) ==
  /\ At(a, "create")
  /\ LET t == Turn(a)
         row == log[t] IN
     \/ /\ row.status = None
        /\ SetLog(t, [row EXCEPT !.status = "queued", !.request = attempt[a].hist])
        /\ Goto(a, "index")
     \/ /\ row.status # None /\ row.request # attempt[a].hist
        /\ SegmentFails(a) /\ UNCHANGED log
     \/ /\ row.status = "succeeded" /\ row.request = attempt[a].hist
        /\ Answered(a, row.answer) /\ UNCHANGED log
     \/ /\ row.status \notin {None, "succeeded"} /\ row.request = attempt[a].hist
        /\ Goto(a, "index") /\ UNCHANGED log
  /\ UNCHANGED <<rows, step, current, told, wf, sent, overlapped, faults>>

\* Variant: the calls of an earlier attempt are not looked for.
NextIndexOwn(a) ==
  /\ At(a, "index") /\ Goto(a, "run")
  /\ UNCHANGED <<log, rows, step, current, told, wf, sent, overlapped, faults>>

NextIndex(a) ==
  /\ At(a, "index")
  /\ attempt' = [attempt EXCEPT ![a].pc = "run",
       ![a].index = Max({@} \cup {i + 1 : i \in DOMAIN rows[Turn(a)]})]
  /\ UNCHANGED <<log, rows, step, current, told, wf, sent, overlapped, faults>>

\* The client of the target is resolved, which may fail, and the row is set running.
MarkRunning(a) ==
  /\ At(a, "run")
  /\ \/ /\ log' = [log EXCEPT ![Turn(a)].status = "running"]
        /\ Goto(a, "start") /\ UNCHANGED faults
     \/ Fault /\ Goto(a, "fail") /\ UNCHANGED log
  /\ UNCHANGED <<rows, step, current, told, wf, sent, overlapped>>

\* onAttemptStart: the index is spent before the row is written, a row that is there is
\* kept, and the request is on its way.
StartAttempt(a) ==
  /\ At(a, "start")
  /\ LET t == Turn(a) IN
     \/ /\ rows' = [rows EXCEPT ![t] = [i \in DOMAIN @ \cup {attempt[a].index} |->
                       IF i \in DOMAIN @ THEN @[i] ELSE "started"]]
        /\ sent' = [sent EXCEPT ![t] = @ + 1]
        /\ attempt' = [attempt EXCEPT ![a].pc = "call", ![a].index = @ + 1]
        /\ UNCHANGED faults
     \/ /\ Fault
        /\ attempt' = [attempt EXCEPT ![a].pc = "fail", ![a].index = @ + 1]
        /\ UNCHANGED <<rows, sent>>
  /\ UNCHANGED <<log, step, current, told, wf, overlapped>>

\* The model answers, or the call fails: by itself, or because it was aborted.
Call(a) ==
  /\ At(a, "call")
  /\ \/ /\ \E x \in Answers :
             /\ Turn(a) < MaxTurns \/ x \notin More
             /\ attempt' = [attempt EXCEPT ![a].pc = "complete", ![a].answer = x]
        /\ UNCHANGED faults
     \/ Fault /\ Goto(a, "refuse")
     \/ attempt[a].aborted /\ Goto(a, "refuse") /\ UNCHANGED faults
  /\ UNCHANGED <<log, rows, step, current, told, wf, sent, overlapped>>

SetAttempt(a, s) == rows' = [rows EXCEPT ![Turn(a)][attempt[a].index - 1] = s]

\* onAttemptComplete of an answer. It is called where a failing call is caught.
CompleteAttempt(a) ==
  /\ At(a, "complete")
  /\ \/ SetAttempt(a, "succeeded") /\ Goto(a, "record") /\ UNCHANGED faults
     \/ Fault /\ Goto(a, "refuse") /\ UNCHANGED rows
  /\ UNCHANGED <<log, step, current, told, wf, sent, overlapped>>

\* onAttemptComplete of a failure; the kind of the error and the policy decide whether the
\* target is called again.
RefuseAttempt(a) ==
  /\ At(a, "refuse")
  /\ \/ /\ SetAttempt(a, "failed") /\ UNCHANGED faults
        /\ \/ /\ attempt[a].tries < MaxTries /\ ~attempt[a].aborted
              /\ attempt' = [attempt EXCEPT ![a].pc = "start", ![a].tries = @ + 1]
           \/ Goto(a, "fail")
     \/ Fault /\ Goto(a, "fail") /\ UNCHANGED rows
  /\ UNCHANGED <<log, step, current, told, wf, sent, overlapped>>

Succeeded(a) == [log[Turn(a)] EXCEPT !.status = "succeeded", !.answer = attempt[a].answer,
                                     !.count = attempt[a].index]

\* Variant: the turn goes on when its answer could not be recorded.
MarkSucceededOrNot(a) ==
  /\ At(a, "record")
  /\ \/ SetLog(Turn(a), Succeeded(a)) /\ UNCHANGED faults
     \/ Fault /\ UNCHANGED log
  /\ Answered(a, attempt[a].answer)
  /\ UNCHANGED <<rows, step, current, told, wf, sent, overlapped>>

\* A write that fails may have been done. An answer too large for the ledger fails as well.
MarkSucceeded(a) ==
  /\ At(a, "record")
  /\ \/ /\ SetLog(Turn(a), Succeeded(a)) /\ UNCHANGED faults
        /\ Answered(a, attempt[a].answer)
     \/ /\ Fault /\ Goto(a, "fail")
        /\ UNCHANGED log \/ SetLog(Turn(a), Succeeded(a))
  /\ UNCHANGED <<rows, step, current, told, wf, sent, overlapped>>

\* The row keeps its answer, if it has one. The class of the error and the policy decide
\* whether the next target is asked.
MarkFailed(a) ==
  /\ At(a, "fail")
  /\ \/ /\ log' = [log EXCEPT ![Turn(a)].status = "failed", ![Turn(a)].count = attempt[a].index]
        /\ UNCHANGED faults
        /\ \/ /\ attempt[a].target < Targets
              /\ attempt' = [attempt EXCEPT ![a].pc = "create", ![a].target = @ + 1,
                                            ![a].tries = 1, ![a].answer = None]
           \/ SegmentFails(a)
     \/ Fault /\ SegmentFails(a) /\ UNCHANGED log
  /\ UNCHANGED <<rows, step, current, told, wf, sent, overlapped>>

\* throwIfActivityCancelled, then the snapshot of the context, unless that is too large.
Persist(a) ==
  /\ At(a, "persist")
  /\ \/ attempt[a].aborted /\ Goto(a, "over") /\ UNCHANGED faults
     \/ ~attempt[a].aborted /\ Goto(a, "step") /\ UNCHANGED faults
     \/ Fault /\ Goto(a, "over")
  /\ UNCHANGED <<log, rows, step, current, told, wf, sent, overlapped>>

\* Variant: the row is written over.
CreateStepOver(a) ==
  /\ At(a, "step") /\ step' = Result(a) /\ Goto(a, "return")
  /\ UNCHANGED <<log, rows, current, told, wf, sent, overlapped, faults>>

\* A row that is there is kept. A write that fails may have been done.
CreateStep(a) ==
  /\ At(a, "step")
  /\ \/ /\ step' = IF step = NoResult THEN Result(a) ELSE step
        /\ \/ Goto(a, "return") /\ UNCHANGED faults
           \/ Fault /\ Goto(a, "over")
     \/ Fault /\ Goto(a, "over") /\ UNCHANGED step
  /\ UNCHANGED <<log, rows, current, told, wf, sent, overlapped>>

\* Only the attempt that is waited for is heard.
Return(a) ==
  /\ At(a, "return") /\ Goto(a, "over")
  /\ \/ a = current /\ wf = "wait" /\ told' = Result(a) /\ wf' = "update"
     \/ (a # current \/ wf # "wait") /\ UNCHANGED <<told, wf>>
  /\ UNCHANGED <<log, rows, step, current, sent, overlapped, faults>>

\* updateAgentStepActivity: what was proposed stays as it was first written.
UpdateStep ==
  /\ wf = "update" /\ wf' = "on"
  /\ step' = [step EXCEPT !.snapshot = told.snapshot]
  /\ UNCHANGED <<log, rows, attempt, current, told, sent, overlapped, faults>>

-----------------------------------------------------------------------------
AttemptAgain ==
  /\ current < MaxAttempts
  /\ current' = current + 1
  /\ attempt' = [attempt EXCEPT ![current + 1].pc = "create"]
  /\ overlapped' = (overlapped \/ \E a \in Attempts : Running(a))
  /\ UNCHANGED <<told, wf>>

LetDown ==
  /\ told' = [NoResult EXCEPT !.kind = "error"] /\ wf' = "failed"
  /\ UNCHANGED <<current, attempt, overlapped>>

\* The attempt has thrown or its worker is gone, or it takes too long; the time of the whole
\* activity may be over with it.
GiveUp ==
  /\ wf = "wait"
  /\ IF Running(current) THEN Fault ELSE UNCHANGED faults

Retry == GiveUp /\ (AttemptAgain \/ LetDown) /\ UNCHANGED <<log, rows, step, sent>>

\* A worker learns from its heartbeat that its attempt is no longer wanted.
Abort(a) ==
  /\ Running(a) /\ ~attempt[a].aborted
  /\ a # current \/ wf # "wait"
  /\ attempt' = [attempt EXCEPT ![a].aborted = TRUE]
  /\ UNCHANGED <<log, rows, step, current, told, wf, sent, overlapped, faults>>

Crash(a) ==
  /\ Running(a) /\ Fault /\ Goto(a, "dead")
  /\ UNCHANGED <<log, rows, step, current, told, wf, sent, overlapped>>

Work(a) ==
  \/ CreateOrGet(a) \/ NextIndex(a) \/ MarkRunning(a) \/ StartAttempt(a) \/ Call(a)
  \/ CompleteAttempt(a) \/ RefuseAttempt(a) \/ MarkSucceeded(a) \/ MarkFailed(a)
  \/ Persist(a) \/ CreateStep(a) \/ Return(a)

Next ==
  \/ \E a \in Attempts : Work(a) \/ LedgerFails(a) \/ Abort(a) \/ Crash(a)
  \/ UpdateStep \/ Retry

Spec == Init /\ [][Next]_vars

-----------------------------------------------------------------------------
Hists == UNION {[1..n -> Answers] : n \in 0..MaxTurns}
Results == [kind: {None, "done", "failed", "error"}, hist: Hists, snapshot: 0..MaxAttempts]

\* Types; a call that succeeded has an answer to replay.
TypeOK ==
  /\ \A t \in Turns :
       /\ log[t].status \in {None, "queued", "running", "succeeded", "failed"}
       /\ log[t].request \in Hists /\ log[t].count \in Nat
       /\ log[t].answer \in Answers \/ (log[t].answer = None /\ log[t].status # "succeeded")
       /\ \A i \in DOMAIN rows[t] : i \in Nat /\ rows[t][i] \in {"started", "succeeded", "failed"}
       /\ sent[t] \in Nat
  /\ step \in Results /\ told \in Results
  /\ \A a \in Attempts :
       attempt[a].pc \in Pcs /\ attempt[a].hist \in Hists /\ attempt[a].kind \in {"done", "failed"}
  /\ current \in Attempts /\ wf \in {"wait", "update", "on", "failed"}
  /\ overlapped \in BOOLEAN /\ faults \in 0..MaxFaults

\* Two attempts that both had a turn answered agree on every turn before it, even when they
\* ran side by side and were answered differently: one of them found the row of another
\* request and stopped.
HistoriesAgree ==
  \A a, b \in Attempts, t \in Turns :
    (t < Len(attempt[a].hist) /\ t < Len(attempt[b].hist)) =>
      attempt[a].hist[t] = attempt[b].hist[t]

\* The answers the workflow goes on from are the ones the ledger has, unless attempts ran
\* side by side: then the one that was given up may have written over them.
ToldIsRecorded ==
  (told.kind \in {"done", "failed"} /\ ~overlapped) =>
    \A t \in 1..Len(told.hist) :
      log[t].status = "succeeded" /\ log[t].answer = told.hist[t]

\* What the step says the agent proposed, which the first attempt to get there wrote and
\* nothing corrects, is what the workflow acts on, unless attempts ran side by side or one
\* of the two attempts failed. Whoever wrote it, and whoever is still running, once the
\* workflow goes on the step names the snapshot it goes on from.
StepDescribesSegment ==
  /\ (told.kind = "done" /\ step.kind = "done" /\ ~overlapped) => step.hist = told.hist
  /\ wf = "on" => step.snapshot = told.snapshot

\* Every request that was sent for a turn is in its attempt_count, those of the attempts
\* that died as well, and the last attempt counted is the one that was answered.
AttemptsAreCounted ==
  \A t \in Turns : (log[t].status = "succeeded" /\ ~overlapped) =>
    /\ sent[t] <= log[t].count
    /\ log[t].count - 1 \in DOMAIN rows[t] /\ rows[t][log[t].count - 1] = "succeeded"

\* A recorded answer, which the next attempt would take, is lost only to attempts that run
\* side by side, or to the attempt that recorded it without hearing so.
RecordedAnswerStays ==
  [][\A t \in Turns : (log[t].status = "succeeded" /\ log'[t].status # "succeeded") =>
       overlapped \/ \E a \in Attempts : At(a, "fail") /\ log[t].answer = attempt[a].answer]_vars
=============================================================================
