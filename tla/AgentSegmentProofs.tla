------------------------- MODULE AgentSegmentProofs -------------------------
(***************************************************************************)
(* Proofs about AgentSegment, for any numbers of attempts, turns, targets, *)
(* calls and faults, and any answers.                                      *)
(*                                                                         *)
(* Base holds of all interleavings: an attempt goes on with the answers    *)
(* the ledger was asked for with, and what was asked in a turn never       *)
(* changes, so that two attempts agree. Solo says what holds as long as no *)
(* attempt began beside another: the attempt that is running is alone, its *)
(* answers are in the ledger and its index is past every call.             *)
(***************************************************************************)
EXTENDS AgentSegment, SequenceTheorems, TLAPS

Statuses  == {None, "queued", "running", "succeeded", "failed"}
InFlight  == {"index", "run", "start", "call", "complete", "refuse", "record", "fail"}
Asking    == InFlight \cup {"create"}
LogRow    == [status: Statuses, request: Hists, answer: Answers \cup {None}, count: Nat]
AttemptRow == [pc: Pcs, hist: Hists, target: Nat, tries: Nat, index: Nat,
               answer: Answers \cup {None}, kind: {"done", "failed"}, aborted: BOOLEAN]

\* The calls of a turn: their indices have a greatest, from which the next attempt counts on.
CallsOk(f) ==
  /\ \A i \in DOMAIN f : i \in Nat /\ f[i] \in {"started", "succeeded", "failed"}
  /\ DOMAIN f # {} => \E m \in DOMAIN f : \A i \in DOMAIN f : i <= m

\* What an attempt is ready for: there is room for the turn it asks.
Ready(r) ==
  /\ r.pc \in Asking \cup {"idle"} => Len(r.hist) < MaxTurns /\ r.kind = "done"
  /\ r.pc = "idle" => r.hist = <<>>
  /\ r.pc \in {"complete", "record"} =>
       r.answer \in Answers /\ (r.answer \in More => Len(r.hist) + 1 < MaxTurns)

LogOk(t, row) ==
  /\ row \in LogRow
  /\ row.status = "succeeded" => row.answer \in Answers /\ (row.answer \in More => t < MaxTurns)

LogTyped      == DOMAIN log = Turns /\ \A t \in Turns : LogOk(t, log[t])
CallsTyped    == DOMAIN rows = Turns /\ \A t \in Turns : CallsOk(rows[t])
AttemptsTyped ==
  DOMAIN attempt = Attempts /\ \A a \in Attempts : attempt[a] \in AttemptRow /\ Ready(attempt[a])
OthersTyped ==
  /\ sent \in [Turns -> Nat]
  /\ step \in Results /\ told \in Results
  /\ current \in Attempts /\ wf \in {"wait", "update", "on", "failed"}
  /\ overlapped \in BOOLEAN /\ faults \in 0..MaxFaults

\* The attempts to come have not begun.
Fresh == \A a \in Attempts : a > current => attempt[a].pc = "idle"

Typed == LogTyped /\ CallsTyped /\ AttemptsTyped /\ OthersTyped

\* Every answer an attempt has was asked for with the answers before it, and so is the one
\* it waits for.
Asked(h) == log[Len(h) + 1].status # None /\ log[Len(h) + 1].request = h
Follows(r) ==
  /\ \A t \in 1..Len(r.hist) :
       log[t].status # None /\ \A i \in 1..(t - 1) : log[t].request[i] = r.hist[i]
  /\ r.pc \in InFlight => Asked(r.hist)

Followed == \A a \in Attempts : Follows(attempt[a])

\* The ledger has an answer, and all answers of an attempt.
Has(t, x) == log[t].status = "succeeded" /\ log[t].answer = x
Kept(h)   == \A t \in 1..Len(h) : Has(t, h[t])

\* An attempt that is alone goes by the ledger, and nothing changes it after the last one.
LedgerSolo == ~overlapped =>
  /\ \A a \in Attempts : a # current => ~Running(a)
  /\ Kept(attempt[current].hist)
  /\ attempt[current].pc \in InFlight =>
       \/ log[Turn(current)].status # "succeeded"
       \/ attempt[current].pc = "fail" /\ log[Turn(current)].answer = attempt[current].answer
  /\ told.kind \in {"done", "failed"} =>
       Kept(told.hist) /\ ~Running(current) /\ wf # "wait"

\* A segment that is done ends where the agent stops asking.
Whole(h) == Len(h) >= 1 /\ \A t \in 1..Len(h) : h[t] \in More <=> t < Len(h)
Late     == {"persist", "step", "return"}
Ending ==
  /\ \A a \in Attempts :
       /\ attempt[a].pc \in Asking => \A t \in 1..Len(attempt[a].hist) : attempt[a].hist[t] \in More
       /\ attempt[a].pc \in Late /\ attempt[a].kind = "done" =>
            Whole(attempt[a].hist)
  /\ told.kind = "done" => Whole(told.hist)
  /\ step.kind = "done" => Whole(step.hist)
  /\ wf \in {"update", "on"} => told.snapshot # 0
  /\ wf = "on" => step.snapshot = told.snapshot

\* The answers the step was written for stay.
StepSolo == (~overlapped /\ step.kind = "done") =>
  /\ Kept(step.hist)
  /\ attempt[current].pc = "fail" => Turn(current) > Len(step.hist)

\* An index is past every request that was sent.
Counted(t) == log[t].status = "succeeded" =>
  /\ sent[t] <= log[t].count
  /\ log[t].count - 1 \in DOMAIN rows[t] /\ rows[t][log[t].count - 1] = "succeeded"
Topped(t) == sent[t] = 0 \/ \E m \in DOMAIN rows[t] : sent[t] <= m + 1
Past(r, t) ==
  /\ r.pc \in InFlight \ {"index"} => sent[t] <= r.index /\ \A i \in DOMAIN rows[t] : i < r.index
  /\ r.pc \in {"call", "complete", "refuse", "record"} => r.index - 1 \in DOMAIN rows[t]
  /\ r.pc = "record" => rows[t][r.index - 1] = "succeeded"
CountSolo == ~overlapped =>
  /\ \A t \in Turns : Counted(t) /\ Topped(t)
  /\ Past(attempt[current], Turn(current))

Solo == LedgerSolo /\ StepSolo /\ Ending /\ CountSolo

-----------------------------------------------------------------------------
LEMMA Bounds ==
  /\ MaxAttempts \in Nat /\ MaxAttempts >= 1 /\ MaxTurns \in Nat /\ MaxTurns >= 1
  /\ MaxFaults \in Nat /\ More \subseteq Answers
BY AgentSegmentAssumption

LEMMA HistsAre ==
  \A h : h \in Hists <=> h \in Seq(Answers) /\ Len(h) <= MaxTurns
<1>1. ASSUME NEW h, h \in Hists PROVE h \in Seq(Answers) /\ Len(h) <= MaxTurns
  <2>1. PICK n \in 0..MaxTurns : h \in [1..n -> Answers]
    BY <1>1 DEF Hists
  <2> QED
    BY <2>1, AgentSegmentAssumption
<1>2. ASSUME NEW h, h \in Seq(Answers), Len(h) <= MaxTurns PROVE h \in Hists
  <2>1. Len(h) \in 0..MaxTurns /\ h \in [1..Len(h) -> Answers]
    BY <1>2, LenProperties, AgentSegmentAssumption
  <2> QED
    BY <2>1 DEF Hists
<1> QED
  BY <1>1, <1>2

LEMMA Longer ==
  ASSUME NEW h \in Hists, NEW x \in Answers, Len(h) < MaxTurns
  PROVE  /\ Append(h, x) \in Hists /\ Len(Append(h, x)) = Len(h) + 1
         /\ Append(h, x)[Len(h) + 1] = x
         /\ \A t \in 1..Len(h) : Append(h, x)[t] = h[t]
<1>1. h \in Seq(Answers) /\ Len(h) \in Nat
  BY HistsAre
<1>2. Append(h, x) \in Seq(Answers) /\ Len(Append(h, x)) = Len(h) + 1
  BY <1>1
<1>3. Append(h, x)[Len(h) + 1] = x /\ \A t \in 1..Len(h) : Append(h, x)[t] = h[t]
  BY <1>1, AppendProperties
<1>4. Len(Append(h, x)) <= MaxTurns
  BY <1>1, <1>2, Bounds
<1>5. Append(h, x) \in Hists
  BY <1>2, <1>4, HistsAre
<1> QED
  BY <1>2, <1>3, <1>5

LEMMA NoHist == <<>> \in Hists /\ Len(<<>>) = 0
<1>1. <<>> \in Seq(Answers) /\ Len(<<>>) = 0
  BY EmptySeq
<1>2. Len(<<>>) <= MaxTurns
  BY <1>1, Bounds
<1> QED
  BY <1>1, <1>2, HistsAre, Zenon

LEMMA TypedMeans == Typed => TypeOK
BY DEF Typed, LogTyped, CallsTyped, AttemptsTyped, OthersTyped, TypeOK, LogOk, LogRow, Statuses, AttemptRow, CallsOk

LEMMA TypedInit == Init => Typed
<1> SUFFICES ASSUME Init PROVE Typed
  OBVIOUS
<1>1. \A t \in Turns : LogOk(t, log[t])
  <2> TAKE t \in Turns
  <2>1. log[t] = [status |-> None, request |-> <<>>, answer |-> None, count |-> 0]
    BY DEF Init
  <2> QED
    BY <2>1, NoHist DEF LogOk, LogRow, Statuses, None
<1>2. \A t \in Turns : CallsOk(rows[t])
  BY DEF Init, CallsOk
<1>3. NoResult \in Results
  BY NoHist, AgentSegmentAssumption DEF NoResult, Results
<1>4. \A a \in Attempts : attempt[a] \in AttemptRow /\ Ready(attempt[a])
  BY NoHist, AgentSegmentAssumption
  DEF Init, AttemptRow, Ready, Pcs, Ended, Asking, InFlight
<1>5. current \in Attempts
  BY AgentSegmentAssumption DEF Init, Attempts
<1>6. sent \in [Turns -> Nat] /\ faults \in 0..MaxFaults
  BY Bounds DEF Init
<1>7. DOMAIN log = Turns /\ DOMAIN rows = Turns /\ DOMAIN attempt = Attempts
  BY DEF Init
<1>8. wf \in {"wait", "update", "on", "failed"} /\ overlapped \in BOOLEAN
      /\ step = NoResult /\ told = NoResult
  BY DEF Init
<1> QED
  BY <1>1, <1>2, <1>3, <1>4, <1>5, <1>6, <1>7, <1>8 DEF Typed, LogTyped, CallsTyped, AttemptsTyped, OthersTyped

-----------------------------------------------------------------------------
\* A fault leaves their number within the bound.
LEMMA FaultsTyped ==
  ASSUME Typed, Fault \/ UNCHANGED faults
  PROVE  faults' \in 0..MaxFaults
BY Bounds DEF Typed, OthersTyped, Fault

LEMMA Moved ==
  ASSUME Typed, NEW a \in Attempts, NEW pc \in Pcs \ {"idle"}, Goto(a, pc),
         pc \in Asking => attempt[a].pc \in Asking,
         pc = "record" => attempt[a].pc = "complete",
         pc # "complete"
  PROVE  AttemptsTyped'
<1>1. attempt[a] \in AttemptRow /\ Ready(attempt[a])
  BY DEF Typed, AttemptsTyped
<1>2. attempt' = [attempt EXCEPT ![a] = [attempt[a] EXCEPT !.pc = pc]]
  BY DEF Goto
<1>3. [attempt[a] EXCEPT !.pc = pc] \in AttemptRow
  BY <1>1 DEF AttemptRow
<1>4. Ready([attempt[a] EXCEPT !.pc = pc])
  BY <1>1 DEF AttemptRow, Ready, Asking, InFlight
<1> QED
  BY <1>2, <1>3, <1>4 DEF Typed, AttemptsTyped

LEMMA Stopped ==
  ASSUME Typed, NEW a \in Attempts, SegmentFails(a)
  PROVE  AttemptsTyped'
<1>1. attempt[a] \in AttemptRow
  BY DEF Typed, AttemptsTyped
<1> DEFINE r == [attempt[a] EXCEPT !.pc = "persist", !.kind = "failed"]
<1>2. attempt' = [attempt EXCEPT ![a] = r]
  BY DEF SegmentFails, Typed, AttemptsTyped
<1>3. r \in AttemptRow /\ Ready(r)
  BY <1>1 DEF AttemptRow, Ready, Asking, InFlight, Pcs, Ended
<1> QED
  BY <1>2, <1>3 DEF Typed, AttemptsTyped

LEMMA Continued ==
  ASSUME Typed, NEW a \in Attempts, NEW x \in Answers, Answered(a, x),
         attempt[a].pc \in Asking, x \in More => Turn(a) < MaxTurns
  PROVE  AttemptsTyped'
<1>1. attempt[a] \in AttemptRow /\ Ready(attempt[a])
  BY DEF Typed, AttemptsTyped
<1>2. Append(attempt[a].hist, x) \in Hists
      /\ Len(Append(attempt[a].hist, x)) = Len(attempt[a].hist) + 1
  BY <1>1, Longer DEF Ready, AttemptRow
<1> DEFINE r == [attempt[a] EXCEPT !.pc = IF x \in More THEN "create" ELSE "persist",
                    !.hist = Append(attempt[a].hist, x), !.target = 1, !.tries = 1, !.index = 0,
                    !.answer = None]
<1>3. attempt' = [attempt EXCEPT ![a] = r]
  BY DEF Answered
<1>4. r \in AttemptRow
  BY <1>1, <1>2 DEF AttemptRow, Pcs, Ended
<1>5. Ready(r)
  BY <1>1, <1>2 DEF AttemptRow, Ready, Asking, InFlight, Turn
<1> QED
  BY <1>3, <1>4, <1>5 DEF Typed, AttemptsTyped

\* The index an attempt goes on with is past every call that is recorded.
LEMMA GreatestIndex ==
  ASSUME NEW i \in Nat, NEW f, CallsOk(f)
  PROVE  LET m == Max({i} \cup {j + 1 : j \in DOMAIN f}) IN
           m \in Nat /\ m >= i /\ \A j \in DOMAIN f : j < m
<1> DEFINE S == {i} \cup {j + 1 : j \in DOMAIN f}
<1>1. \A j \in DOMAIN f : j \in Nat
  BY DEF CallsOk
<1>2. \E m \in S : \A y \in S : m >= y
  <2>1. CASE DOMAIN f = {}
    BY <2>1
  <2>2. CASE DOMAIN f # {}
    <3>1. PICK g \in DOMAIN f : \A j \in DOMAIN f : j <= g
      BY <2>2 DEF CallsOk
    <3>2. CASE i >= g + 1
      BY <1>1, <3>1, <3>2
    <3>3. CASE ~(i >= g + 1)
      BY <1>1, <3>1, <3>3
    <3> QED
      BY <3>2, <3>3
  <2> QED
    BY <2>1, <2>2
<1>3. Max(S) \in S /\ \A y \in S : Max(S) >= y
  BY <1>2 DEF Max
<1> QED
  BY <1>1, <1>3

\* What is asked in a turn stays what it was.
LogKept ==
  \A t \in Turns : log[t].status # None =>
    log'[t].status # None /\ log'[t].request = log[t].request

\* The row of the turn an attempt is at, which exists.
LEMMA TurnInTurns ==
  ASSUME Typed, NEW a \in Attempts, attempt[a].pc \in Asking
  PROVE  Turn(a) \in Turns /\ attempt[a] \in AttemptRow /\ LogOk(Turn(a), log[Turn(a)])
<1>1. attempt[a] \in AttemptRow /\ Len(attempt[a].hist) < MaxTurns
  BY DEF Typed, AttemptsTyped, Ready
<1>2. Len(attempt[a].hist) \in Nat
  BY <1>1, HistsAre DEF AttemptRow
<1> QED
  BY <1>1, <1>2, Bounds DEF Typed, LogTyped, Turn, Turns

LEMMA LogWritten ==
  ASSUME Typed, NEW t \in Turns, NEW row, LogOk(t, row), SetLog(t, row)
  PROVE  LogTyped'
BY DEF Typed, LogTyped, SetLog

LEMMA LedgerFailsTyped ==
  ASSUME Typed, NEW a \in Attempts, LedgerFails(a)
  PROVE  Typed' /\ LogKept
<1>1. /\ SegmentFails(a) /\ Fault
      /\ UNCHANGED <<log, rows, step, current, told, wf, sent, overlapped>>
  BY DEF LedgerFails
<1>2. AttemptsTyped' /\ faults' \in 0..MaxFaults
  BY <1>1, Stopped, FaultsTyped
<1> QED
  BY <1>1, <1>2 DEF Typed, LogTyped, CallsTyped, OthersTyped, LogKept

LEMMA CreateOrGetTyped ==
  ASSUME Typed, NEW a \in Attempts, CreateOrGet(a)
  PROVE  Typed' /\ LogKept
<1> DEFINE t == Turn(a)
           row == log[t]
<1>1. /\ attempt[a].pc = "create"
      /\ UNCHANGED <<rows, step, current, told, wf, sent, overlapped, faults>>
  BY DEF CreateOrGet, At
<1>2. t \in Turns /\ attempt[a] \in AttemptRow /\ LogOk(t, row)
  BY <1>1, TurnInTurns DEF Asking
<1> HIDE DEF t
<1>3. CASE row.status = None /\ SetLog(t, [row EXCEPT !.status = "queued", !.request = attempt[a].hist])
           /\ Goto(a, "index")
  <2>1. LogOk(t, [row EXCEPT !.status = "queued", !.request = attempt[a].hist])
    BY <1>2 DEF LogOk, LogRow, Statuses, AttemptRow
  <2>2. LogTyped'
    BY <1>2, <1>3, <2>1, LogWritten
  <2>3. AttemptsTyped'
    BY <1>1, <1>3, Moved DEF Pcs, Asking, InFlight
  <2>4. LogKept
    BY <1>3 DEF SetLog, LogKept, Typed, LogTyped
  <2> QED
    BY <1>1, <2>2, <2>3, <2>4 DEF Typed, CallsTyped, OthersTyped
<1>4. CASE SegmentFails(a) /\ UNCHANGED log
  <2>1. AttemptsTyped'
    BY <1>4, Stopped
  <2> QED
    BY <1>1, <1>4, <2>1 DEF Typed, LogTyped, CallsTyped, OthersTyped, LogKept
<1>5. CASE row.status = "succeeded" /\ Answered(a, row.answer) /\ UNCHANGED log
  <2>1. row.answer \in Answers /\ (row.answer \in More => Turn(a) < MaxTurns)
    BY <1>2, <1>5 DEF LogOk, t
  <2>2. AttemptsTyped'
    BY <1>1, <1>5, <2>1, Continued DEF Asking
  <2> QED
    BY <1>1, <1>5, <2>2 DEF Typed, LogTyped, CallsTyped, OthersTyped, LogKept
<1>6. CASE Goto(a, "index") /\ UNCHANGED log
  <2>1. AttemptsTyped'
    BY <1>1, <1>6, Moved DEF Pcs, Asking, InFlight
  <2> QED
    BY <1>1, <1>6, <2>1 DEF Typed, LogTyped, CallsTyped, OthersTyped, LogKept
<1> QED
  BY <1>3, <1>4, <1>5, <1>6 DEF CreateOrGet, t

LEMMA NextIndexTyped ==
  ASSUME Typed, NEW a \in Attempts, NextIndex(a)
  PROVE  Typed' /\ LogKept
<1> DEFINE m == Max({attempt[a].index} \cup {i + 1 : i \in DOMAIN rows[Turn(a)]})
           r == [attempt[a] EXCEPT !.pc = "run", !.index = m]
<1>1. /\ attempt[a].pc = "index" /\ attempt' = [attempt EXCEPT ![a] = r]
      /\ UNCHANGED <<log, rows, step, current, told, wf, sent, overlapped, faults>>
  BY DEF NextIndex, At, Typed, AttemptsTyped
<1>2. attempt[a] \in AttemptRow /\ Ready(attempt[a]) /\ CallsOk(rows[Turn(a)])
  BY <1>1, TurnInTurns DEF Asking, InFlight, Typed, AttemptsTyped, CallsTyped
<1>3. m \in Nat
  BY <1>2, GreatestIndex DEF AttemptRow
<1> HIDE DEF m
<1>4. r \in AttemptRow /\ Ready(r)
  BY <1>1, <1>2, <1>3 DEF AttemptRow, Ready, Asking, InFlight, Pcs
<1>5. AttemptsTyped'
  BY <1>1, <1>4 DEF Typed, AttemptsTyped
<1> QED
  BY <1>1, <1>5 DEF Typed, LogTyped, CallsTyped, OthersTyped, LogKept

LEMMA CallWritten ==
  ASSUME Typed, NEW a \in Attempts, NEW v \in {"started", "succeeded", "failed"},
         SetAttempt(a, v)
  PROVE  CallsTyped'
BY DEF Typed, CallsTyped, CallsOk, SetAttempt

\* A new call keeps the calls that are there, and has a greatest index as well.
LEMMA CallAdded ==
  ASSUME NEW f, NEW i \in Nat, CallsOk(f)
  PROVE  CallsOk([j \in DOMAIN f \cup {i} |-> IF j \in DOMAIN f THEN f[j] ELSE "started"])
<1> DEFINE g == [j \in DOMAIN f \cup {i} |-> IF j \in DOMAIN f THEN f[j] ELSE "started"]
<1>1. \A j \in DOMAIN g : j \in Nat /\ g[j] \in {"started", "succeeded", "failed"}
  BY DEF CallsOk
<1>2. \E m \in DOMAIN g : \A j \in DOMAIN g : j <= m
  <2>1. CASE DOMAIN f = {}
    BY <2>1
  <2>2. CASE DOMAIN f # {}
    <3>1. PICK m \in DOMAIN f : \A j \in DOMAIN f : j <= m
      BY <2>2 DEF CallsOk
    <3>2. m \in Nat /\ \A j \in DOMAIN f : j \in Nat
      BY DEF CallsOk
    <3>3. CASE i <= m
      BY <3>1, <3>3
    <3>4. CASE ~(i <= m)
      BY <3>1, <3>2, <3>4
    <3> QED
      BY <3>3, <3>4
  <2> QED
    BY <2>1, <2>2
<1> QED
  BY <1>1, <1>2 DEF CallsOk

LEMMA MarkRunningTyped ==
  ASSUME Typed, NEW a \in Attempts, MarkRunning(a)
  PROVE  Typed' /\ LogKept
<1>1. /\ attempt[a].pc = "run" /\ (Fault \/ UNCHANGED faults)
      /\ Goto(a, "start") \/ Goto(a, "fail")
      /\ UNCHANGED <<rows, step, current, told, wf, sent, overlapped>>
  BY DEF MarkRunning, At
<1>2. Turn(a) \in Turns /\ LogOk(Turn(a), log[Turn(a)])
  BY <1>1, TurnInTurns DEF Asking, InFlight
<1>3. AttemptsTyped' /\ faults' \in 0..MaxFaults
  BY <1>1, Moved, FaultsTyped DEF Pcs, Asking, InFlight
<1>4. CASE UNCHANGED log
  BY <1>1, <1>3, <1>4 DEF Typed, LogTyped, CallsTyped, OthersTyped, LogKept
<1>5. CASE SetLog(Turn(a), [log[Turn(a)] EXCEPT !.status = "running"])
  <2>1. LogOk(Turn(a), [log[Turn(a)] EXCEPT !.status = "running"])
    BY <1>2 DEF LogOk, LogRow, Statuses
  <2>2. LogTyped'
    BY <1>2, <1>5, <2>1, LogWritten
  <2>3. LogKept
    BY <1>2, <1>5 DEF SetLog, LogKept, Typed, LogTyped, LogOk, LogRow, None
  <2> QED
    BY <1>1, <1>3, <2>2, <2>3 DEF Typed, CallsTyped, OthersTyped
<1> QED
  BY <1>4, <1>5 DEF MarkRunning, SetLog

LEMMA StartAttemptTyped ==
  ASSUME Typed, NEW a \in Attempts, StartAttempt(a)
  PROVE  Typed' /\ LogKept
<1> DEFINE t == Turn(a)
           i == attempt[a].index + 1
           r(pc) == [attempt[a] EXCEPT !.pc = pc, !.index = i]
<1>1. /\ attempt[a].pc = "start" /\ (Fault \/ UNCHANGED faults)
      /\ UNCHANGED <<log, step, current, told, wf, overlapped>>
  BY DEF StartAttempt, At
<1>2. /\ t \in Turns /\ attempt[a] \in AttemptRow /\ Ready(attempt[a]) /\ CallsOk(rows[t])
      /\ attempt[a].index \in Nat
  BY <1>1, TurnInTurns DEF Asking, InFlight, Typed, AttemptsTyped, CallsTyped, AttemptRow
<1>3. \E pc \in {"call", "fail"} : attempt' = [attempt EXCEPT ![a] = r(pc)]
  BY <1>2 DEF StartAttempt, Typed, AttemptsTyped
<1>4. \A pc \in {"call", "fail"} : r(pc) \in AttemptRow /\ Ready(r(pc))
  <2>1. i \in Nat
    BY <1>2
  <2> HIDE DEF i
  <2> QED
    BY <1>1, <1>2, <2>1 DEF AttemptRow, Ready, Asking, InFlight, Pcs
<1>5. AttemptsTyped'
  BY <1>3, <1>4 DEF Typed, AttemptsTyped
<1>6. CallsTyped' /\ sent' \in [Turns -> Nat]
  <2>1. CASE UNCHANGED <<rows, sent>>
    BY <2>1 DEF Typed, CallsTyped, OthersTyped
  <2>2. CASE /\ rows' = [rows EXCEPT ![t] = [j \in DOMAIN rows[t] \cup {attempt[a].index} |->
                            IF j \in DOMAIN rows[t] THEN rows[t][j] ELSE "started"]]
             /\ sent' = [sent EXCEPT ![t] = sent[t] + 1]
    <3>1. CallsOk([j \in DOMAIN rows[t] \cup {attempt[a].index} |->
                     IF j \in DOMAIN rows[t] THEN rows[t][j] ELSE "started"])
      BY <1>2, CallAdded
    <3>2. CallsTyped'
      BY <1>2, <2>2, <3>1 DEF Typed, CallsTyped
    <3>3. sent' \in [Turns -> Nat]
      BY <1>2, <2>2 DEF Typed, OthersTyped
    <3> QED
      BY <3>2, <3>3
  <2> QED
    BY <1>2, <2>1, <2>2 DEF StartAttempt, Typed, CallsTyped
<1>7. faults' \in 0..MaxFaults
  BY <1>1, FaultsTyped
<1> QED
  BY <1>1, <1>5, <1>6, <1>7 DEF Typed, LogTyped, OthersTyped, LogKept

LEMMA CallTyped ==
  ASSUME Typed, NEW a \in Attempts, Call(a)
  PROVE  Typed' /\ LogKept
<1>1. /\ attempt[a].pc = "call" /\ (Fault \/ UNCHANGED faults)
      /\ UNCHANGED <<log, rows, step, current, told, wf, sent, overlapped>>
  BY DEF Call, At
<1>2. AttemptsTyped'
  <2>1. CASE Goto(a, "refuse")
    BY <1>1, <2>1, Moved DEF Pcs, Asking, InFlight
  <2>2. ASSUME NEW x \in Answers, Turn(a) < MaxTurns \/ x \notin More,
               attempt' = [attempt EXCEPT ![a].pc = "complete", ![a].answer = x]
        PROVE  AttemptsTyped'
    <3> DEFINE r == [attempt[a] EXCEPT !.pc = "complete", !.answer = x]
    <3>1. attempt[a] \in AttemptRow /\ Ready(attempt[a])
      BY DEF Typed, AttemptsTyped
    <3>2. attempt' = [attempt EXCEPT ![a] = r]
      BY <2>2 DEF Typed, AttemptsTyped
    <3>3. r \in AttemptRow /\ Ready(r)
      BY <1>1, <2>2, <3>1 DEF AttemptRow, Ready, Asking, InFlight, Pcs, Turn
    <3> QED
      BY <3>2, <3>3 DEF Typed, AttemptsTyped
  <2> QED
    BY <2>1, <2>2 DEF Call
<1>3. faults' \in 0..MaxFaults
  BY <1>1, FaultsTyped
<1> QED
  BY <1>1, <1>2, <1>3 DEF Typed, LogTyped, CallsTyped, OthersTyped, LogKept

LEMMA CompleteAttemptTyped ==
  ASSUME Typed, NEW a \in Attempts, CompleteAttempt(a)
  PROVE  Typed' /\ LogKept
<1>1. /\ attempt[a].pc = "complete" /\ (Fault \/ UNCHANGED faults)
      /\ Goto(a, "record") \/ Goto(a, "refuse")
      /\ SetAttempt(a, "succeeded") \/ UNCHANGED rows
      /\ UNCHANGED <<log, step, current, told, wf, sent, overlapped>>
  BY DEF CompleteAttempt, At
<1>2. AttemptsTyped' /\ faults' \in 0..MaxFaults
  BY <1>1, Moved, FaultsTyped DEF Pcs, Asking, InFlight
<1>3. CallsTyped'
  BY <1>1, CallWritten DEF Typed, CallsTyped
<1> QED
  BY <1>1, <1>2, <1>3 DEF Typed, LogTyped, OthersTyped, LogKept

LEMMA RefuseAttemptTyped ==
  ASSUME Typed, NEW a \in Attempts, RefuseAttempt(a)
  PROVE  Typed' /\ LogKept
<1> DEFINE n == attempt[a].tries + 1
           r == [attempt[a] EXCEPT !.pc = "start", !.tries = n]
<1>1. /\ attempt[a].pc = "refuse" /\ (Fault \/ UNCHANGED faults)
      /\ SetAttempt(a, "failed") \/ UNCHANGED rows
      /\ UNCHANGED <<log, step, current, told, wf, sent, overlapped>>
  BY DEF RefuseAttempt, At
<1>2. AttemptsTyped'
  <2>1. CASE Goto(a, "fail")
    BY <1>1, <2>1, Moved DEF Pcs, Asking, InFlight
  <2>2. CASE attempt' = [attempt EXCEPT ![a] = r]
    <3>1. attempt[a] \in AttemptRow /\ Ready(attempt[a])
      BY DEF Typed, AttemptsTyped
    <3>2. n \in Nat
      BY <3>1 DEF AttemptRow
    <3> HIDE DEF n
    <3>3. r \in AttemptRow /\ Ready(r)
      BY <1>1, <3>1, <3>2 DEF AttemptRow, Ready, Asking, InFlight, Pcs
    <3> QED
      BY <2>2, <3>3 DEF Typed, AttemptsTyped
  <2> QED
    BY <2>1, <2>2 DEF RefuseAttempt, Typed, AttemptsTyped
<1>3. CallsTyped' /\ faults' \in 0..MaxFaults
  BY <1>1, CallWritten, FaultsTyped DEF Typed, CallsTyped
<1> QED
  BY <1>1, <1>2, <1>3 DEF Typed, LogTyped, OthersTyped, LogKept

LEMMA MarkSucceededTyped ==
  ASSUME Typed, NEW a \in Attempts, MarkSucceeded(a)
  PROVE  Typed' /\ LogKept
<1>1. /\ attempt[a].pc = "record" /\ (Fault \/ UNCHANGED faults)
      /\ Goto(a, "fail") \/ Answered(a, attempt[a].answer)
      /\ UNCHANGED log \/ SetLog(Turn(a), Succeeded(a))
      /\ UNCHANGED <<rows, step, current, told, wf, sent, overlapped>>
  BY DEF MarkSucceeded, At
<1>2. /\ Turn(a) \in Turns /\ attempt[a] \in AttemptRow /\ LogOk(Turn(a), log[Turn(a)])
      /\ attempt[a].answer \in Answers /\ (attempt[a].answer \in More => Turn(a) < MaxTurns)
  BY <1>1, TurnInTurns DEF Asking, InFlight, Typed, AttemptsTyped, Ready, Turn
<1>3. LogOk(Turn(a), Succeeded(a)) /\ Succeeded(a).status # None
      /\ Succeeded(a).request = log[Turn(a)].request
  BY <1>2 DEF LogOk, LogRow, Statuses, Succeeded, AttemptRow, None
<1>4. LogTyped' /\ LogKept
  <2>1. CASE UNCHANGED log
    BY <2>1 DEF Typed, LogTyped, LogKept
  <2>2. CASE SetLog(Turn(a), Succeeded(a))
    BY <1>2, <1>3, <2>2, LogWritten DEF SetLog, LogKept, Typed, LogTyped
  <2> QED
    BY <1>1, <2>1, <2>2
<1>5. AttemptsTyped'
  <2>1. CASE Goto(a, "fail")
    BY <1>1, <2>1, Moved DEF Pcs, Asking, InFlight
  <2>2. CASE Answered(a, attempt[a].answer)
    BY <1>1, <1>2, <2>2, Continued DEF Asking, InFlight
  <2> QED
    BY <1>1, <2>1, <2>2
<1>6. faults' \in 0..MaxFaults
  BY <1>1, FaultsTyped
<1> QED
  BY <1>1, <1>4, <1>5, <1>6 DEF Typed, CallsTyped, OthersTyped

LEMMA MarkFailedTyped ==
  ASSUME Typed, NEW a \in Attempts, MarkFailed(a)
  PROVE  Typed' /\ LogKept
<1> DEFINE n == attempt[a].target + 1
           r == [attempt[a] EXCEPT !.pc = "create", !.target = n, !.tries = 1, !.answer = None]
           row == [log[Turn(a)] EXCEPT !.status = "failed", !.count = attempt[a].index]
<1>1. /\ attempt[a].pc = "fail" /\ (Fault \/ UNCHANGED faults)
      /\ UNCHANGED <<rows, step, current, told, wf, sent, overlapped>>
  BY DEF MarkFailed, At
<1>2. /\ Turn(a) \in Turns /\ attempt[a] \in AttemptRow /\ Ready(attempt[a])
      /\ LogOk(Turn(a), log[Turn(a)])
  BY <1>1, TurnInTurns DEF Asking, InFlight, Typed, AttemptsTyped
<1>3. LogOk(Turn(a), row) /\ row.status # None /\ row.request = log[Turn(a)].request
  BY <1>2 DEF LogOk, LogRow, Statuses, AttemptRow, None
<1>4. UNCHANGED log \/ SetLog(Turn(a), row)
  BY <1>2 DEF MarkFailed, SetLog, Typed, LogTyped
<1>5. LogTyped' /\ LogKept
  <2>1. CASE UNCHANGED log
    BY <2>1 DEF Typed, LogTyped, LogKept
  <2>2. CASE SetLog(Turn(a), row)
    BY <1>2, <1>3, <2>2, LogWritten DEF SetLog, LogKept, Typed, LogTyped
  <2> QED
    BY <1>4, <2>1, <2>2
<1>6. AttemptsTyped'
  <2>1. CASE SegmentFails(a)
    BY <2>1, Stopped
  <2>2. CASE attempt' = [attempt EXCEPT ![a] = r]
    <3>1. n \in Nat
      BY <1>2 DEF AttemptRow
    <3> HIDE DEF n
    <3>2. r \in AttemptRow /\ Ready(r)
      BY <1>1, <1>2, <3>1 DEF AttemptRow, Ready, Asking, InFlight, Pcs
    <3> QED
      BY <2>2, <3>2 DEF Typed, AttemptsTyped
  <2> QED
    BY <2>1, <2>2 DEF MarkFailed, Typed, AttemptsTyped
<1>7. faults' \in 0..MaxFaults
  BY <1>1, FaultsTyped
<1> QED
  BY <1>1, <1>5, <1>6, <1>7 DEF Typed, CallsTyped, OthersTyped

LEMMA PersistTyped ==
  ASSUME Typed, NEW a \in Attempts, Persist(a)
  PROVE  Typed' /\ LogKept
<1>1. /\ attempt[a].pc = "persist" /\ (Fault \/ UNCHANGED faults)
      /\ Goto(a, "over") \/ Goto(a, "step")
      /\ UNCHANGED <<log, rows, step, current, told, wf, sent, overlapped>>
  BY DEF Persist, At
<1>2. AttemptsTyped' /\ faults' \in 0..MaxFaults
  BY <1>1, Moved, FaultsTyped DEF Pcs, Ended, Asking, InFlight
<1> QED
  BY <1>1, <1>2 DEF Typed, LogTyped, CallsTyped, OthersTyped, LogKept

LEMMA ResultTyped ==
  ASSUME Typed, NEW a \in Attempts
  PROVE  Result(a) \in Results
BY Bounds DEF Typed, AttemptsTyped, AttemptRow, Result, Results, Attempts

LEMMA CreateStepTyped ==
  ASSUME Typed, NEW a \in Attempts, CreateStep(a)
  PROVE  Typed' /\ LogKept
<1>1. /\ attempt[a].pc = "step" /\ (Fault \/ UNCHANGED faults)
      /\ Goto(a, "over") \/ Goto(a, "return")
      /\ step' \in {step, Result(a)}
      /\ UNCHANGED <<log, rows, current, told, wf, sent, overlapped>>
  BY DEF CreateStep, At
<1>2. AttemptsTyped' /\ faults' \in 0..MaxFaults
  BY <1>1, Moved, FaultsTyped DEF Pcs, Ended, Asking, InFlight
<1> QED
  BY <1>1, <1>2, ResultTyped DEF Typed, LogTyped, CallsTyped, OthersTyped, LogKept

LEMMA ReturnTyped ==
  ASSUME Typed, NEW a \in Attempts, Return(a)
  PROVE  Typed' /\ LogKept
<1>1. /\ Goto(a, "over") /\ told' \in {told, Result(a)} /\ wf' \in {wf, "update"}
      /\ UNCHANGED <<log, rows, step, current, sent, overlapped, faults>>
  BY DEF Return
<1>2. AttemptsTyped'
  BY <1>1, Moved DEF Pcs, Ended, Asking, InFlight
<1> QED
  BY <1>1, <1>2, ResultTyped DEF Typed, LogTyped, CallsTyped, OthersTyped, LogKept

LEMMA UpdateStepTyped ==
  ASSUME Typed, UpdateStep
  PROVE  Typed' /\ LogKept
<1>1. step' = [step EXCEPT !.snapshot = told.snapshot] /\ wf' = "on"
      /\ UNCHANGED <<log, rows, attempt, current, told, sent, overlapped, faults>>
  BY DEF UpdateStep
<1>2. step' \in Results
  BY <1>1 DEF Typed, OthersTyped, Results
<1> QED
  BY <1>1, <1>2 DEF Typed, LogTyped, CallsTyped, AttemptsTyped, OthersTyped, LogKept

LEMMA RetryTyped ==
  ASSUME Typed, Fresh, Retry
  PROVE  Typed' /\ LogKept
<1>1. (Fault \/ UNCHANGED faults) /\ UNCHANGED <<log, rows, step, sent>>
  BY DEF Retry, GiveUp
<1>2. faults' \in 0..MaxFaults
  BY <1>1, FaultsTyped
<1>3. CASE AttemptAgain
  <2> DEFINE c == current + 1
             r == [attempt[c] EXCEPT !.pc = "create"]
  <2>1. /\ c \in Attempts /\ attempt[c].pc = "idle" /\ current' = c /\ attempt' = [attempt EXCEPT ![c] = r]
        /\ UNCHANGED <<told, wf>> /\ overlapped' \in BOOLEAN
    BY <1>3, Bounds DEF AttemptAgain, Typed, OthersTyped, AttemptsTyped, Attempts, Fresh
  <2> HIDE DEF c
  <2>2. attempt[c] \in AttemptRow /\ Ready(attempt[c])
    BY <2>1 DEF Typed, AttemptsTyped
  <2>3. r \in AttemptRow
    BY <2>2 DEF AttemptRow, Pcs
  <2>4. Ready(r)
    BY <2>1, <2>2 DEF AttemptRow, Ready
  <2>5. AttemptsTyped'
    BY <2>1, <2>3, <2>4 DEF Typed, AttemptsTyped
  <2> QED
    BY <1>1, <1>2, <2>1, <2>5 DEF Typed, LogTyped, CallsTyped, OthersTyped, LogKept
<1>4. CASE LetDown
  <2>1. [NoResult EXCEPT !.kind = "error"] \in Results
    BY NoHist, Bounds DEF NoResult, Results
  <2> QED
    BY <1>1, <1>2, <1>4, <2>1
    DEF LetDown, Typed, LogTyped, CallsTyped, AttemptsTyped, OthersTyped, LogKept
<1> QED
  BY <1>3, <1>4 DEF Retry

LEMMA AbortTyped ==
  ASSUME Typed, NEW a \in Attempts, Abort(a)
  PROVE  Typed' /\ LogKept
<1> DEFINE r == [attempt[a] EXCEPT !.aborted = TRUE]
<1>1. attempt' = [attempt EXCEPT ![a] = r]
      /\ UNCHANGED <<log, rows, step, current, told, wf, sent, overlapped, faults>>
  BY DEF Abort, Typed, AttemptsTyped
<1>2. attempt[a] \in AttemptRow /\ Ready(attempt[a])
  BY DEF Typed, AttemptsTyped
<1>3. r \in AttemptRow
  BY <1>2 DEF AttemptRow
<1>4. Ready(r)
  BY <1>2 DEF AttemptRow, Ready
<1> QED
  BY <1>1, <1>3, <1>4 DEF Typed, LogTyped, CallsTyped, AttemptsTyped, OthersTyped, LogKept

LEMMA CrashTyped ==
  ASSUME Typed, NEW a \in Attempts, Crash(a)
  PROVE  Typed' /\ LogKept
<1>1. /\ Fault /\ Goto(a, "dead")
      /\ UNCHANGED <<log, rows, step, current, told, wf, sent, overlapped>>
  BY DEF Crash
<1>2. AttemptsTyped' /\ faults' \in 0..MaxFaults
  BY <1>1, Moved, FaultsTyped DEF Pcs, Ended, Asking, InFlight
<1> QED
  BY <1>1, <1>2 DEF Typed, LogTyped, CallsTyped, OthersTyped, LogKept

-----------------------------------------------------------------------------
Moves(a) == Work(a) \/ LedgerFails(a) \/ Abort(a) \/ Crash(a)

\* A step of an attempt is of one that has begun and is not over, and is its own.
LEMMA OwnStep ==
  ASSUME Typed, NEW a \in Attempts, Moves(a)
  PROVE  /\ Running(a) /\ UNCHANGED <<current, overlapped>>
         /\ attempt'[a].pc # "idle"
         /\ \A b \in Attempts \ {a} : attempt'[b] = attempt[b]
<1> USE DEF Typed, AttemptsTyped, AttemptRow, Running, At, Ended, Goto, Answered, SegmentFails
<1>1. CASE CreateOrGet(a)
  BY <1>1 DEF CreateOrGet
<1>2. CASE NextIndex(a)
  BY <1>2 DEF NextIndex
<1>3. CASE MarkRunning(a)
  BY <1>3 DEF MarkRunning
<1>4. CASE StartAttempt(a)
  BY <1>4 DEF StartAttempt
<1>5. CASE Call(a)
  BY <1>5 DEF Call
<1>6. CASE CompleteAttempt(a)
  BY <1>6 DEF CompleteAttempt
<1>7. CASE RefuseAttempt(a)
  BY <1>7 DEF RefuseAttempt
<1>8. CASE MarkSucceeded(a)
  BY <1>8 DEF MarkSucceeded
<1>9. CASE MarkFailed(a)
  BY <1>9 DEF MarkFailed
<1>10. CASE Persist(a) \/ CreateStep(a) \/ Return(a)
  BY <1>10 DEF Persist, CreateStep, Return
<1>11. CASE LedgerFails(a)
  BY <1>11 DEF LedgerFails
<1>12. CASE Abort(a) \/ Crash(a)
  BY <1>12 DEF Abort, Crash
<1> QED
  BY <1>1, <1>2, <1>3, <1>4, <1>5, <1>6, <1>7, <1>8, <1>9, <1>10, <1>11, <1>12
  DEF Moves, Work

LEMMA FreshStep == ASSUME Typed, Fresh, Next PROVE Fresh'
<1>1. CASE \E a \in Attempts : Moves(a)
  BY <1>1, OwnStep DEF Fresh, Running, Ended
<1>2. CASE UpdateStep
  BY <1>2 DEF UpdateStep, Fresh
<1>3. CASE Retry
  <2>1. CASE AttemptAgain
    BY <2>1 DEF AttemptAgain, Fresh, Typed, OthersTyped, AttemptsTyped, Attempts
  <2>2. CASE LetDown
    BY <2>2 DEF LetDown, Fresh
  <2> QED
    BY <1>3, <2>1, <2>2 DEF Retry
<1> QED
  BY <1>1, <1>2, <1>3 DEF Next, Moves

LEMMA TypedStep == ASSUME Typed, Fresh, Next PROVE Typed' /\ LogKept
BY LedgerFailsTyped, CreateOrGetTyped, NextIndexTyped, MarkRunningTyped, StartAttemptTyped,
   CallTyped, CompleteAttemptTyped, RefuseAttemptTyped, MarkSucceededTyped, MarkFailedTyped,
   PersistTyped, CreateStepTyped, ReturnTyped, UpdateStepTyped, RetryTyped, AbortTyped,
   CrashTyped
DEF Next, Work

-----------------------------------------------------------------------------
\* An attempt waits for the answer to what the ledger has, and only then gets one.
LEMMA AsksOrGrows ==
  ASSUME Typed, NEW a \in Attempts, Moves(a), Follows(attempt[a]), Typed', LogKept
  PROVE  /\ \/ attempt'[a].hist = attempt[a].hist
            \/ \E x \in Answers :
                 /\ attempt'[a].hist = Append(attempt[a].hist, x)
                 /\ attempt'[a].pc \notin InFlight /\ attempt[a].pc \in Asking
                 /\ Asked(attempt[a].hist)
         /\ attempt'[a].pc \in InFlight /\ attempt[a].pc \notin InFlight =>
              /\ attempt[a].pc = "create" /\ attempt'[a].hist = attempt[a].hist
              /\ log'[Turn(a)].status # None /\ log'[Turn(a)].request = attempt[a].hist
<1> USE DEF Typed, AttemptsTyped, AttemptRow, At, Asking, InFlight, Goto, SegmentFails
<1>0. attempt[a] \in AttemptRow /\ attempt[a].pc \in InFlight => Asked(attempt[a].hist)
  BY DEF Follows
<1>1. CASE CreateOrGet(a)
  <2>1. attempt[a].pc = "create" /\ Turn(a) \in Turns /\ LogOk(Turn(a), log[Turn(a)])
    BY <1>1, TurnInTurns DEF CreateOrGet
  <2>2. CASE SetLog(Turn(a), [log[Turn(a)] EXCEPT !.status = "queued", !.request = attempt[a].hist])
             /\ Goto(a, "index")
    <3>1. log'[Turn(a)] = [log[Turn(a)] EXCEPT !.status = "queued", !.request = attempt[a].hist]
      BY <2>1, <2>2 DEF SetLog, LogTyped
    <3>2. log'[Turn(a)].status = "queued" /\ log'[Turn(a)].request = attempt[a].hist
      BY <2>1, <3>1 DEF LogOk, LogRow
    <3> QED
      BY <2>1, <2>2, <3>2 DEF None
  <2>3. CASE SegmentFails(a)
    BY <2>1, <2>3
  <2>4. CASE /\ log[Turn(a)].status = "succeeded" /\ log[Turn(a)].request = attempt[a].hist
             /\ Answered(a, log[Turn(a)].answer)
    BY <2>1, <2>4 DEF Answered, Asked, Turn, LogOk, None
  <2>5. CASE /\ log[Turn(a)].status \notin {None, "succeeded"}
             /\ log[Turn(a)].request = attempt[a].hist
             /\ Goto(a, "index") /\ UNCHANGED log
    BY <2>1, <2>5
  <2> QED
    BY <1>1, <2>2, <2>3, <2>4, <2>5 DEF CreateOrGet
<1>2. CASE NextIndex(a) \/ MarkRunning(a) \/ StartAttempt(a)
  BY <1>2 DEF NextIndex, MarkRunning, StartAttempt
<1>3. CASE Call(a) \/ CompleteAttempt(a) \/ RefuseAttempt(a)
  BY <1>3 DEF Call, CompleteAttempt, RefuseAttempt
<1>4. CASE MarkSucceeded(a)
  <2>1. attempt[a].pc = "record" /\ attempt[a].answer \in Answers
    BY <1>4 DEF MarkSucceeded, Ready
  <2>2. CASE Answered(a, attempt[a].answer)
    BY <1>0, <2>1, <2>2 DEF Answered
  <2>3. CASE Goto(a, "fail")
    BY <2>1, <2>3
  <2> QED
    BY <1>4, <2>2, <2>3 DEF MarkSucceeded
<1>5. CASE MarkFailed(a)
  BY <1>5 DEF MarkFailed
<1>6. CASE Persist(a) \/ CreateStep(a) \/ Return(a)
  BY <1>6 DEF Persist, CreateStep, Return
<1>7. CASE LedgerFails(a) \/ Abort(a) \/ Crash(a)
  BY <1>7 DEF LedgerFails, Abort, Crash
<1> QED
  BY <1>1, <1>2, <1>3, <1>4, <1>5, <1>6, <1>7 DEF Moves, Work

\* What an attempt follows does not change under it.
LEMMA StillFollows ==
  ASSUME Typed, LogKept, NEW a \in Attempts, Follows(attempt[a]), attempt'[a] = attempt[a]
  PROVE  Follows(attempt[a])'
<1>1. /\ attempt[a] \in AttemptRow /\ Len(attempt[a].hist) \in Nat
      /\ Len(attempt[a].hist) <= MaxTurns
  BY HistsAre DEF Typed, AttemptsTyped, AttemptRow
<1>2. \A t \in 1..Len(attempt[a].hist) : t \in Turns
  BY <1>1, Bounds DEF Turns
<1>3. attempt[a].pc \in InFlight => Turn(a) \in Turns
  BY TurnInTurns DEF Asking
<1> QED
  BY <1>1, <1>2, <1>3 DEF Follows, Asked, LogKept, Turn

LEMMA FollowedStep ==
  ASSUME Typed, Fresh, Followed, Next, Typed', LogKept
  PROVE  Followed'
<1>1. ASSUME NEW a \in Attempts, Moves(a) PROVE Followed'
  <2> DEFINE h == attempt[a].hist
             g == attempt'[a].hist
  <2>1. /\ attempt[a] \in AttemptRow /\ h \in Hists /\ Len(h) \in Nat
        /\ Len(h) <= MaxTurns /\ Follows(attempt[a])
    BY HistsAre DEF Typed, AttemptsTyped, AttemptRow, Followed
  <2>2. \A b \in Attempts \ {a} : Follows(attempt[b])'
    BY <1>1, OwnStep, StillFollows DEF Followed
  <2>3. attempt[a].pc \in Asking => Turn(a) \in Turns /\ Len(h) < MaxTurns
    BY TurnInTurns DEF Typed, AttemptsTyped, Ready
  <2>4. \A t \in 1..Len(h) : t \in Turns
    BY <2>1, Bounds DEF Turns
  <2>5. /\ \A t \in 1..Len(h) :
             log'[t].status # None /\ \A i \in 1..(t - 1) : log'[t].request[i] = h[i]
        /\ Asked(h) /\ Turn(a) \in Turns =>
             log'[Len(h) + 1].status # None /\ log'[Len(h) + 1].request = h
    BY <2>1, <2>4 DEF Follows, LogKept, Asked, Turn
  <2>6. CASE g = h
    <3>1. attempt'[a].pc \in InFlight =>
            log'[Len(h) + 1].status # None /\ log'[Len(h) + 1].request = h
      BY <1>1, <2>1, <2>3, <2>5, AsksOrGrows DEF Turn, Follows, Asking
    <3>2. Follows(attempt[a])'
      BY <2>5, <2>6, <3>1 DEF Follows, Asked
    <3> QED
      BY <2>2, <3>2 DEF Followed
  <2>7. ASSUME NEW x \in Answers, g = Append(h, x), attempt'[a].pc \notin InFlight,
               attempt[a].pc \in Asking, Asked(h)
        PROVE  Followed'
    <3>1. Len(g) = Len(h) + 1 /\ \A i \in 1..Len(h) : g[i] = h[i]
      BY <2>1, <2>3, <2>7, Longer
    <3>2. ASSUME NEW t \in 1..Len(g)
          PROVE  log'[t].status # None /\ \A i \in 1..(t - 1) : log'[t].request[i] = g[i]
      <4>1. CASE t = Len(h) + 1
        BY <2>1, <2>3, <2>5, <2>7, <3>1, <4>1
      <4>2. CASE t # Len(h) + 1
        <5>1. t \in 1..Len(h) /\ \A i \in 1..(t - 1) : i \in 1..Len(h)
          BY <2>1, <3>1, <3>2, <4>2
        <5> QED
          BY <2>5, <3>1, <5>1
      <4> QED
        BY <4>1, <4>2
    <3>3. Follows(attempt[a])'
      BY <2>7, <3>2 DEF Follows
    <3> QED
      BY <2>2, <3>3 DEF Followed
  <2> QED
    BY <1>1, <2>1, <2>6, <2>7, AsksOrGrows
<1>2. CASE UpdateStep
  BY <1>2, StillFollows DEF UpdateStep, Followed
<1>3. CASE Retry
  <2>1. CASE AttemptAgain
    <3>1. PICK c \in Attempts :
            /\ c = current + 1 /\ attempt[c].pc = "idle" /\ attempt'[c].pc = "create"
            /\ \A b \in Attempts \ {c} : attempt'[b] = attempt[b]
            /\ attempt'[c].hist = attempt[c].hist
      BY <2>1, Bounds DEF AttemptAgain, Fresh, Typed, OthersTyped, AttemptsTyped, AttemptRow, Attempts
    <3>2. attempt'[c].hist = <<>>
      BY <3>1 DEF Typed, AttemptsTyped, Ready
    <3>3. Follows(attempt[c])'
      BY <3>1, <3>2, NoHist DEF Follows, InFlight
    <3> QED
      BY <3>1, <3>3, StillFollows DEF Followed
  <2>2. CASE LetDown
    BY <2>2, StillFollows DEF LetDown, Followed
  <2> QED
    BY <1>3, <2>1, <2>2 DEF Retry
<1> QED
  BY <1>1, <1>2, <1>3 DEF Next, Moves

-----------------------------------------------------------------------------
Base == Typed /\ Fresh /\ Followed

LEMMA BaseInvariant == Spec => []Base
<1>1. Init => Base
  <2> SUFFICES ASSUME Init PROVE Base
    OBVIOUS
  <2>1. Typed
    BY TypedInit
  <2>2. Fresh
    BY Bounds DEF Init, Fresh, Attempts
  <2>3. \A a \in Attempts : attempt[a].hist = <<>> /\ attempt[a].pc \notin InFlight
    BY DEF Init, InFlight
  <2>4. Followed
    BY <2>3, NoHist DEF Followed, Follows
  <2> QED
    BY <2>1, <2>2, <2>4 DEF Base
<1>2. Base /\ [Next]_vars => Base'
  <2>1. Base /\ Next => Base'
    BY TypedStep, FreshStep, FollowedStep DEF Base
  <2>2. Base /\ UNCHANGED vars => Base'
    BY DEF Base, vars, Typed, LogTyped, CallsTyped, AttemptsTyped, OthersTyped, Fresh, Followed,
           Follows, Asked
  <2> QED
    BY <2>1, <2>2
<1> QED
  BY <1>1, <1>2, PTL DEF Spec

\* The ledger, the attempts and what the workflow is told keep their types, whatever the
\* interleaving of the attempts of runPiSegmentActivity.
THEOREM SegmentTypes == Spec => []TypeOK
<1>1. Base => TypeOK
  BY TypedMeans DEF Base
<1> QED
  BY <1>1, BaseInvariant, PTL

LEMMA Agreed == ASSUME Base PROVE HistoriesAgree
<1> SUFFICES ASSUME NEW a \in Attempts, NEW b \in Attempts, NEW t \in Turns,
                    t < Len(attempt[a].hist), t < Len(attempt[b].hist)
             PROVE  attempt[a].hist[t] = attempt[b].hist[t]
  BY DEF HistoriesAgree
<1>1. \A c \in Attempts : t < Len(attempt[c].hist) => log[t + 1].request[t] = attempt[c].hist[t]
  <2> TAKE c \in Attempts
  <2> HAVE t < Len(attempt[c].hist)
  <2>1. Len(attempt[c].hist) \in Nat
    BY HistsAre DEF Base, Typed, AttemptsTyped, AttemptRow
  <2>2. t + 1 \in 1..Len(attempt[c].hist) /\ t \in 1..((t + 1) - 1)
    BY <2>1, Bounds DEF Turns
  <2> QED
    BY <2>2 DEF Base, Followed, Follows
<1> QED
  BY <1>1

\* Two attempts of one segment never go on from different answers to a turn: createOrGet
\* stops the one whose request is not the one of the row.
THEOREM AttemptsAgree == Spec => []HistoriesAgree
BY Agreed, BaseInvariant, PTL

-----------------------------------------------------------------------------
\* How an attempt goes on: as before, to the end of a failed segment, or with an answer.
LEMMA GoesOn ==
  ASSUME Typed, NEW a \in Attempts, Moves(a)
  PROVE  \/ /\ attempt'[a].hist = attempt[a].hist /\ attempt'[a].kind = attempt[a].kind
            /\ attempt'[a].pc \in Asking => attempt[a].pc \in Asking
            /\ attempt'[a].pc \in Late => attempt[a].pc \in Late
         \/ /\ attempt'[a].hist = attempt[a].hist /\ attempt'[a].kind = "failed"
            /\ attempt'[a].pc = "persist"
         \/ \E x \in Answers :
              /\ attempt'[a].hist = Append(attempt[a].hist, x) /\ attempt'[a].kind = attempt[a].kind
              /\ attempt[a].pc \in Asking
              /\ attempt'[a].pc = IF x \in More THEN "create" ELSE "persist"
<1> USE DEF Typed, AttemptsTyped, AttemptRow, At, Asking, InFlight, Late, Goto, SegmentFails
<1>1. CASE CreateOrGet(a)
  <2>1. attempt[a].pc = "create" /\ LogOk(Turn(a), log[Turn(a)])
    BY <1>1, TurnInTurns DEF CreateOrGet
  <2>2. CASE log[Turn(a)].status = "succeeded" /\ Answered(a, log[Turn(a)].answer)
    BY <2>1, <2>2 DEF Answered, LogOk
  <2>3. CASE SegmentFails(a) \/ Goto(a, "index")
    BY <2>1, <2>3
  <2> QED
    BY <1>1, <2>2, <2>3 DEF CreateOrGet
<1>2. CASE NextIndex(a) \/ MarkRunning(a) \/ StartAttempt(a)
  BY <1>2 DEF NextIndex, MarkRunning, StartAttempt
<1>3. CASE Call(a) \/ CompleteAttempt(a) \/ RefuseAttempt(a)
  BY <1>3 DEF Call, CompleteAttempt, RefuseAttempt
<1>4. CASE MarkSucceeded(a)
  <2>1. attempt[a].pc = "record" /\ attempt[a].answer \in Answers
    BY <1>4 DEF MarkSucceeded, Ready
  <2>2. CASE Answered(a, attempt[a].answer)
    BY <2>1, <2>2 DEF Answered
  <2>3. CASE Goto(a, "fail")
    BY <2>1, <2>3
  <2> QED
    BY <1>4, <2>2, <2>3 DEF MarkSucceeded
<1>5. CASE MarkFailed(a)
  BY <1>5 DEF MarkFailed
<1>6. CASE Persist(a) \/ CreateStep(a) \/ Return(a)
  BY <1>6 DEF Persist, CreateStep, Return
<1>7. CASE LedgerFails(a) \/ Abort(a) \/ Crash(a)
  BY <1>7 DEF LedgerFails, Abort, Crash
<1> QED
  BY <1>1, <1>2, <1>3, <1>4, <1>5, <1>6, <1>7 DEF Moves, Work

\* Only an attempt at its end writes the step or is heard.
LEMMA Reports ==
  ASSUME Typed, NEW a \in Attempts, Moves(a)
  PROVE  /\ step' = step \/ (/\ attempt[a].pc = "step" /\ step = NoResult /\ step' = Result(a)
                             /\ attempt'[a].pc \in {"return", "over"})
         /\ \/ told' = told /\ wf' = wf
            \/ /\ attempt[a].pc = "return" /\ attempt'[a].pc = "over"
               /\ told' = Result(a) /\ wf = "wait" /\ wf' = "update"
<1>1. CASE CreateStep(a)
  BY <1>1 DEF CreateStep, Typed, AttemptsTyped, AttemptRow, At, Goto
<1>2. CASE Return(a)
  BY <1>2 DEF Return, Typed, AttemptsTyped, AttemptRow, At, Goto
<1> QED
  BY <1>1, <1>2
  DEF Moves, Work, CreateOrGet, NextIndex, MarkRunning, StartAttempt, Call, CompleteAttempt,
      RefuseAttempt, MarkSucceeded, MarkFailed, Persist, LedgerFails, Abort, Crash

LEMMA EndingStep == ASSUME Base, Ending, Next PROVE Ending'
<1> USE DEF Base, Typed, AttemptsTyped, OthersTyped
<1>1. ASSUME NEW a \in Attempts, Moves(a) PROVE Ending'
  <2>1. /\ attempt[a] \in AttemptRow /\ attempt[a].hist \in Hists
        /\ Len(attempt[a].hist) \in Nat
    BY HistsAre DEF AttemptRow
  <2>2. \A b \in Attempts \ {a} : attempt'[b] = attempt[b]
    BY <1>1, OwnStep
  <2>3. /\ attempt'[a].pc \in Asking =>
             \A t \in 1..Len(attempt'[a].hist) : attempt'[a].hist[t] \in More
        /\ attempt'[a].pc \in Late /\ attempt'[a].kind = "done" => Whole(attempt'[a].hist)
    <3>1. CASE /\ attempt'[a].hist = attempt[a].hist
               /\ attempt'[a].kind = attempt[a].kind
               /\ attempt'[a].pc \in Asking => attempt[a].pc \in Asking
               /\ attempt'[a].pc \in Late => attempt[a].pc \in Late
      BY <3>1 DEF Ending
    <3>2. CASE attempt'[a].kind = "failed" /\ attempt'[a].pc = "persist"
      BY <3>2 DEF Asking, InFlight
    <3>3. ASSUME NEW x \in Answers, attempt'[a].hist = Append(attempt[a].hist, x),
                 attempt[a].pc \in Asking,
                 attempt'[a].pc = IF x \in More THEN "create" ELSE "persist"
          PROVE  /\ attempt'[a].pc \in Asking =>
                      \A t \in 1..Len(attempt'[a].hist) : attempt'[a].hist[t] \in More
                 /\ attempt'[a].pc \in Late => Whole(attempt'[a].hist)
      <4> DEFINE h == attempt[a].hist
                 g == attempt'[a].hist
      <4>1. /\ Len(g) = Len(h) + 1 /\ g[Len(h) + 1] = x
            /\ \A t \in 1..Len(h) : g[t] = h[t] /\ h[t] \in More
        BY <2>1, <3>3, Longer DEF Ending, Ready
      <4>2. \A t \in 1..Len(g) : t \in 1..Len(h) \/ t = Len(h) + 1
        BY <2>1, <4>1
      <4>3. CASE x \in More
        BY <3>3, <4>1, <4>2, <4>3 DEF Late
      <4>4. CASE x \notin More
        <5>1. Whole(g)
          BY <2>1, <4>1, <4>2, <4>4 DEF Whole
        <5> QED
          BY <3>3, <4>4, <5>1 DEF Asking, InFlight
      <4> QED
        BY <4>3, <4>4
    <3> QED
      BY <1>1, <3>1, <3>2, <3>3, GoesOn
  <2>4. attempt[a].pc \in Late /\ attempt[a].kind = "done" => Whole(attempt[a].hist)
    BY DEF Ending
  <2>5. Result(a).snapshot # 0 /\ Result(a).kind = attempt[a].kind
        /\ Result(a).hist = attempt[a].hist
    BY DEF Result, Attempts
  <2>6. told'.kind = "done" => Whole(told'.hist)
    BY <1>1, <2>4, <2>5, Reports DEF Ending, Late
  <2>7. step'.kind = "done" => Whole(step'.hist)
    BY <1>1, <2>4, <2>5, Reports DEF Ending, Late
  <2>8. wf' \in {"update", "on"} => told'.snapshot # 0
    BY <1>1, <2>5, Reports DEF Ending
  <2>9. wf' = "on" => step'.snapshot = told'.snapshot
    BY <1>1, Reports DEF Ending, NoResult
  <2> QED
    BY <2>2, <2>3, <2>6, <2>7, <2>8, <2>9 DEF Ending, Whole
<1>2. CASE UpdateStep
  <2>1. step'.kind = step.kind /\ step'.hist = step.hist /\ step'.snapshot = told.snapshot
    BY <1>2 DEF UpdateStep, Results
  <2> QED
    BY <1>2, <2>1 DEF UpdateStep, Ending, Whole
<1>3. CASE Retry
  <2>1. CASE AttemptAgain
    <3>1. PICK c \in Attempts :
            /\ attempt[c].pc = "idle" /\ attempt'[c].pc = "create"
            /\ \A b \in Attempts \ {c} : attempt'[b] = attempt[b]
            /\ attempt'[c].hist = attempt[c].hist
      BY <2>1, Bounds DEF AttemptAgain, Fresh, AttemptRow, Attempts
    <3>2. attempt'[c].hist = <<>>
      BY <3>1 DEF Ready
    <3> QED
      BY <1>3, <2>1, <3>1, <3>2, NoHist DEF Retry, AttemptAgain, Ending, Whole, Late
  <2>2. CASE LetDown
    BY <1>3, <2>2 DEF Retry, LetDown, Ending, Whole, NoResult
  <2> QED
    BY <1>3, <2>1, <2>2 DEF Retry
<1> QED
  BY <1>1, <1>2, <1>3 DEF Next, Moves

-----------------------------------------------------------------------------
\* An attempt writes the rows of its turn and no others.
LEMMA Elsewhere ==
  ASSUME Typed, NEW a \in Attempts, Moves(a)
  PROVE  \A t \in Turns : t # Turn(a) =>
           log'[t] = log[t] /\ rows'[t] = rows[t] /\ sent'[t] = sent[t]
<1>1. CASE CreateOrGet(a) \/ MarkRunning(a) \/ MarkSucceeded(a) \/ MarkFailed(a)
  BY <1>1 DEF CreateOrGet, MarkRunning, MarkSucceeded, MarkFailed, SetLog, Typed, LogTyped
<1>2. CASE StartAttempt(a) \/ CompleteAttempt(a) \/ RefuseAttempt(a)
  BY <1>2 DEF StartAttempt, CompleteAttempt, RefuseAttempt, SetAttempt, Typed, CallsTyped,
              OthersTyped
<1> QED
  BY <1>1, <1>2 DEF Moves, Work, NextIndex, Call, Persist, CreateStep, Return, LedgerFails,
                    Abort, Crash

\* What is left of LedgerSolo and StepSolo to show of a step of the attempt that is alone.
LedgerGoesOn(c) ==
  /\ \/ attempt'[c].hist = attempt[c].hist
     \/ \E x \in Answers : /\ attempt'[c].hist = Append(attempt[c].hist, x)
                           /\ attempt'[c].pc \notin InFlight /\ attempt[c].pc \in Asking
                           /\ log'[Turn(c)].status = "succeeded" /\ log'[Turn(c)].answer = x
  /\ attempt'[c].pc \in InFlight =>
       /\ attempt'[c].hist = attempt[c].hist
       /\ \/ log'[Turn(c)].status # "succeeded"
          \/ attempt'[c].pc = "fail" /\ log'[Turn(c)].answer = attempt'[c].answer
  /\ attempt'[c].pc = "fail" => attempt[c].pc \in InFlight
  /\ log'[Turn(c)] # log[Turn(c)] =>
       /\ attempt[c].pc \in Asking
       /\ log[Turn(c)].status # "succeeded" \/ attempt[c].pc = "fail"

LEMMA AloneGoesOn ==
  ASSUME Typed, NEW c \in Attempts, Moves(c),
         attempt[c].pc \in InFlight =>
           \/ log[Turn(c)].status # "succeeded"
           \/ attempt[c].pc = "fail" /\ log[Turn(c)].answer = attempt[c].answer
  PROVE  LedgerGoesOn(c)
<1> USE DEF Typed, AttemptsTyped, AttemptRow, At, Asking, InFlight, Goto, SegmentFails,
            LedgerGoesOn
<1>0. attempt[c].pc \in Asking =>
        /\ Turn(c) \in Turns /\ log[Turn(c)] \in LogRow
        /\ log[Turn(c)].status = "succeeded" => log[Turn(c)].answer \in Answers
  BY TurnInTurns DEF LogOk
<1>1. CASE CreateOrGet(c)
  <2>1. attempt[c].pc = "create"
    BY <1>1 DEF CreateOrGet
  <2>2. CASE /\ log[Turn(c)].status = None /\ Goto(c, "index")
             /\ SetLog(Turn(c), [log[Turn(c)] EXCEPT !.status = "queued", !.request = attempt[c].hist])
    <3>1. log'[Turn(c)] = [log[Turn(c)] EXCEPT !.status = "queued", !.request = attempt[c].hist]
      BY <1>0, <2>1, <2>2 DEF SetLog, LogTyped
    <3>2. log'[Turn(c)].status = "queued"
      BY <1>0, <2>1, <3>1 DEF LogRow
    <3> QED
      BY <2>1, <2>2, <3>2 DEF None
  <2>3. CASE SegmentFails(c) /\ UNCHANGED log
    BY <2>1, <2>3
  <2>4. CASE log[Turn(c)].status = "succeeded" /\ Answered(c, log[Turn(c)].answer) /\ UNCHANGED log
    BY <1>0, <2>1, <2>4 DEF Answered
  <2>5. CASE log[Turn(c)].status \notin {None, "succeeded"} /\ Goto(c, "index") /\ UNCHANGED log
    BY <2>1, <2>5
  <2> QED
    BY <1>1, <2>2, <2>3, <2>4, <2>5 DEF CreateOrGet
<1>2. CASE NextIndex(c) \/ StartAttempt(c)
  BY <1>2 DEF NextIndex, StartAttempt
<1>3. CASE MarkRunning(c)
  <2>1. attempt[c].pc = "run"
    BY <1>3 DEF MarkRunning
  <2>2. CASE log' = [log EXCEPT ![Turn(c)].status = "running"] /\ Goto(c, "start")
    <3>1. log'[Turn(c)].status = "running"
      BY <1>0, <2>1, <2>2 DEF LogTyped, LogRow
    <3> QED
      BY <2>1, <2>2, <3>1
  <2>3. CASE Goto(c, "fail") /\ UNCHANGED log
    BY <2>1, <2>3
  <2> QED
    BY <1>3, <2>2, <2>3 DEF MarkRunning
<1>4. CASE Call(c) \/ CompleteAttempt(c) \/ RefuseAttempt(c)
  BY <1>4 DEF Call, CompleteAttempt, RefuseAttempt
<1>5. CASE MarkSucceeded(c)
  <2>1. attempt[c].pc = "record" /\ attempt[c].answer \in Answers
    BY <1>5 DEF MarkSucceeded, Ready
  <2>2. SetLog(Turn(c), Succeeded(c)) =>
          log'[Turn(c)].status = "succeeded" /\ log'[Turn(c)].answer = attempt[c].answer
    <3>1. Succeeded(c).status = "succeeded" /\ Succeeded(c).answer = attempt[c].answer
      BY <1>0, <2>1 DEF Succeeded, LogRow
    <3> QED
      BY <1>0, <2>1, <3>1 DEF SetLog, LogTyped
  <2>3. CASE SetLog(Turn(c), Succeeded(c)) /\ Answered(c, attempt[c].answer)
    BY <2>1, <2>2, <2>3 DEF Answered
  <2>4. CASE Goto(c, "fail") /\ (UNCHANGED log \/ SetLog(Turn(c), Succeeded(c)))
    BY <2>1, <2>2, <2>4
  <2> QED
    BY <1>5, <2>3, <2>4 DEF MarkSucceeded
<1>6. CASE MarkFailed(c)
  BY <1>6 DEF MarkFailed
<1>7. CASE Persist(c) \/ CreateStep(c) \/ Return(c)
  BY <1>7 DEF Persist, CreateStep, Return
<1>8. CASE LedgerFails(c) \/ Abort(c) \/ Crash(c)
  BY <1>8 DEF LedgerFails, Abort, Crash
<1> QED
  BY <1>1, <1>2, <1>3, <1>4, <1>5, <1>6, <1>7, <1>8 DEF Moves, Work

LEMMA HistTurns ==
  ASSUME NEW h \in Hists
  PROVE  Len(h) \in Nat /\ \A t \in 1..Len(h) : t \in Turns
BY HistsAre, Bounds DEF Turns

LEMMA LedgerSoloStep ==
  ASSUME Base, LedgerSolo, Next
  PROVE  LedgerSolo'
<1> SUFFICES ASSUME ~overlapped' PROVE LedgerSolo'
  BY DEF LedgerSolo
<1> USE DEF Base, Typed, AttemptsTyped, OthersTyped
<1>1. ASSUME NEW a \in Attempts, Moves(a) PROVE LedgerSolo'
  <2> DEFINE h == attempt[a].hist
             g == attempt'[a].hist
  <2>1. /\ ~overlapped /\ a = current /\ UNCHANGED <<current, overlapped>>
        /\ \A b \in Attempts \ {a} : attempt'[b] = attempt[b] /\ ~Running(b)
    BY <1>1, OwnStep DEF LedgerSolo
  <2>2. \A b \in Attempts : b # current' => ~Running(b)'
    BY <2>1 DEF Running
  <2>3. LedgerGoesOn(a)
    BY <1>1, <2>1, AloneGoesOn DEF LedgerSolo
  <2>4. /\ h \in Hists /\ Len(h) \in Nat /\ Kept(h)
        /\ \A t \in 1..Len(h) : log'[t] = log[t]
    BY <1>1, <2>1, HistTurns, Elsewhere DEF AttemptRow, LedgerSolo, Turn
  <2>5. Kept(attempt[a].hist)'
    <3>1. CASE g = h
      BY <2>4, <3>1 DEF Kept, Has
    <3>2. ASSUME NEW x \in Answers, g = Append(h, x), attempt[a].pc \in Asking,
                 log'[Turn(a)].status = "succeeded", log'[Turn(a)].answer = x
          PROVE  Kept(attempt[a].hist)'
      <4>1. /\ Len(g) = Len(h) + 1 /\ g[Len(h) + 1] = x
            /\ \A t \in 1..Len(h) : g[t] = h[t]
        BY <2>4, <3>2, Longer DEF Ready
      <4>2. \A t \in 1..Len(g) : t \in 1..Len(h) \/ t = Len(h) + 1
        BY <2>4, <4>1
      <4> QED
        BY <2>4, <3>2, <4>1, <4>2 DEF Kept, Has, Turn
    <3> QED
      BY <2>3, <3>1, <3>2 DEF LedgerGoesOn
  <2>6. attempt'[a].pc \in InFlight =>
          \/ log'[Len(g) + 1].status # "succeeded"
          \/ attempt'[a].pc = "fail" /\ log'[Len(g) + 1].answer = attempt'[a].answer
    BY <2>3 DEF LedgerGoesOn, Turn
  <2>7. told'.kind \in {"done", "failed"} =>
          Kept(told.hist)' /\ attempt'[a].pc \in Ended /\ wf' # "wait"
    <3>1. CASE told' = told
      BY <1>1, <2>1, <3>1, OwnStep DEF LedgerSolo
    <3>2. CASE /\ attempt[a].pc = "return" /\ attempt'[a].pc = "over"
               /\ told' = Result(a) /\ wf' = "update"
      <4>1. told'.hist = h
        BY <3>2 DEF Result
      <4>2. g = h
        BY <2>3, <3>2 DEF LedgerGoesOn, Asking, InFlight
      <4> QED
        BY <2>5, <3>2, <4>1, <4>2 DEF Kept, Has, Ended
    <3> QED
      BY <1>1, <3>1, <3>2, Reports
  <2> QED
    BY <2>1, <2>2, <2>5, <2>6, <2>7 DEF LedgerSolo, Turn, Running
<1>2. CASE UpdateStep
  BY <1>2 DEF UpdateStep, LedgerSolo, Kept, Has, Running, Turn
<1>3. CASE Retry
  <2>1. CASE AttemptAgain
    <3>1. PICK c \in Attempts :
            /\ c = current' /\ attempt[c].pc = "idle" /\ attempt'[c].pc = "create"
            /\ \A b \in Attempts \ {c} : attempt'[b] = attempt[b]
            /\ attempt'[c].hist = attempt[c].hist
      BY <2>1, Bounds DEF AttemptAgain, Fresh, AttemptRow, Attempts
    <3>2. attempt'[c].hist = <<>>
      BY <3>1 DEF Ready
    <3>3. ~overlapped /\ \A b \in Attempts : ~Running(b)
      BY <2>1 DEF AttemptAgain
    <3>4. told'.kind \notin {"done", "failed"}
      BY <1>3, <2>1, <3>3 DEF Retry, GiveUp, AttemptAgain, LedgerSolo
    <3> QED
      BY <3>1, <3>2, <3>3, <3>4, NoHist DEF LedgerSolo, Kept, Running, InFlight
  <2>2. CASE LetDown
    BY <1>3, <2>2 DEF Retry, LetDown, LedgerSolo, Kept, Has, Running, Turn, NoResult
  <2> QED
    BY <1>3, <2>1, <2>2 DEF Retry
<1> QED
  BY <1>1, <1>2, <1>3 DEF Next, Moves

LEMMA StepSoloStep ==
  ASSUME Base, LedgerSolo, StepSolo, Next
  PROVE  StepSolo'
<1> SUFFICES ASSUME ~overlapped', step'.kind = "done" PROVE StepSolo'
  BY DEF StepSolo
<1> USE DEF Base, Typed, AttemptsTyped, OthersTyped
<1>1. ASSUME NEW a \in Attempts, Moves(a) PROVE StepSolo'
  <2>1. ~overlapped /\ a = current /\ UNCHANGED <<current, overlapped>>
    BY <1>1, OwnStep DEF LedgerSolo
  <2>2. LedgerGoesOn(a)
    BY <1>1, <2>1, AloneGoesOn DEF LedgerSolo
  <2>3. attempt[a].hist \in Hists /\ Len(attempt[a].hist) \in Nat
    BY HistTurns DEF AttemptRow
  <2>4. CASE step' = step
    <3>1. /\ step.kind = "done" /\ Kept(step.hist) /\ step.hist \in Hists
          /\ Len(step.hist) \in Nat /\ \A t \in 1..Len(step.hist) : t \in Turns
      BY <2>1, <2>4, HistTurns DEF StepSolo, Results
    <3>2. attempt[a].pc \in Asking /\ log[Turn(a)].status # "succeeded" =>
            Turn(a) > Len(step.hist)
      BY <2>3, <3>1 DEF Kept, Has, Turn
    <3>3. log'[Turn(a)] # log[Turn(a)] => Turn(a) > Len(step.hist)
      BY <2>1, <2>2, <3>1, <3>2 DEF LedgerGoesOn, StepSolo
    <3>4. \A t \in 1..Len(step.hist) : log'[t] = log[t]
      BY <1>1, <2>3, <3>1, <3>3, Elsewhere DEF Turn
    <3>5. attempt'[a].pc = "fail" => Turn(a) > Len(step.hist) /\ Turn(a)' = Turn(a)
      BY <2>1, <2>2, <3>1, <3>2 DEF LedgerGoesOn, StepSolo, LedgerSolo, InFlight, Asking, Turn
    <3> QED
      BY <2>1, <2>4, <3>1, <3>4, <3>5 DEF StepSolo, Kept, Has, Turn
  <2>5. CASE /\ attempt[a].pc = "step" /\ step' = Result(a)
             /\ attempt'[a].pc \in {"return", "over"}
    <3>1. step'.hist = attempt[a].hist
      BY <2>5 DEF Result
    <3>2. Kept(attempt[a].hist) /\ \A t \in 1..Len(attempt[a].hist) : log'[t] = log[t]
      BY <1>1, <2>1, <2>3, HistTurns, Elsewhere DEF LedgerSolo, Turn
    <3> QED
      BY <2>1, <2>5, <3>1, <3>2 DEF StepSolo, Kept, Has
  <2> QED
    BY <1>1, <2>4, <2>5, Reports
<1>2. CASE UpdateStep
  <2>1. step'.kind = step.kind /\ step'.hist = step.hist
    BY <1>2 DEF UpdateStep, Results
  <2> QED
    BY <1>2, <2>1 DEF UpdateStep, StepSolo, Kept, Has, Turn
<1>3. CASE Retry
  <2>1. CASE AttemptAgain
    <3>1. attempt'[current'].pc = "create" /\ ~overlapped
      BY <2>1, Bounds DEF AttemptAgain, Attempts, AttemptRow
    <3> QED
      BY <1>3, <3>1 DEF Retry, StepSolo, Kept, Has
  <2>2. CASE LetDown
    BY <1>3, <2>2 DEF Retry, LetDown, StepSolo, Kept, Has, Turn
  <2> QED
    BY <1>3, <2>1, <2>2 DEF Retry
<1> QED
  BY <1>1, <1>2, <1>3 DEF Next, Moves

-----------------------------------------------------------------------------
LEMMA AnswerMoves ==
  ASSUME Typed, NEW a \in Attempts, NEW x, Answered(a, x)
  PROVE  attempt'[a].pc \in {"create", "persist"}
<1>1. attempt[a] \in AttemptRow /\ DOMAIN attempt = Attempts
  BY DEF Typed, AttemptsTyped
<1> QED
  BY <1>1 DEF Answered, AttemptRow

\* A step of the attempt that is alone keeps the count of its turn.
LEMMA CountGoesOn ==
  ASSUME Base, LedgerSolo, CountSolo, ~overlapped, NEW c \in Attempts, c = current, Moves(c),
         NEW n, n = Turn(c)
  PROVE  /\ n \in Turns => Counted(n)' /\ Topped(n)'
         /\ Past(attempt[c], n)'
<1> USE DEF Base, Typed, AttemptsTyped, AttemptRow, At, Asking, InFlight, Goto, SegmentFails
<1>0. /\ attempt[c].pc \in Asking => n \in Turns /\ CallsOk(rows[n]) /\ log[n] \in LogRow
                                    /\ sent[n] \in Nat
      /\ attempt[c].pc \in InFlight \ {"fail"} => log[n].status # "succeeded"
      /\ n \in Turns => Counted(n) /\ Topped(n)
      /\ Past(attempt[c], n)
      /\ attempt[c] \in AttemptRow /\ attempt[c].index \in Nat
  BY TurnInTurns DEF LogOk, CallsTyped, OthersTyped, LedgerSolo, CountSolo
<1>1. CASE CreateOrGet(c)
  <2>1. attempt[c].pc = "create" /\ UNCHANGED <<rows, sent>>
    BY <1>1 DEF CreateOrGet
  <2>2. log'[n] = log[n] \/ log'[n].status = "queued"
    <3>1. CASE SetLog(n, [log[n] EXCEPT !.status = "queued", !.request = attempt[c].hist])
      <4>1. log'[n] = [log[n] EXCEPT !.status = "queued", !.request = attempt[c].hist]
        BY <1>0, <2>1, <3>1 DEF SetLog, LogTyped
      <4> QED
        BY <1>0, <2>1, <4>1 DEF LogRow
    <3> QED
      BY <1>1, <3>1 DEF CreateOrGet
  <2>3. attempt'[c].pc \in {"index", "create", "persist"}
    BY <1>1, <2>1, AnswerMoves DEF CreateOrGet
  <2> QED
    BY <1>0, <2>1, <2>2, <2>3 DEF Counted, Topped, Past
<1>2. CASE NextIndex(c)
  <2> DEFINE m == Max({attempt[c].index} \cup {i + 1 : i \in DOMAIN rows[n]})
  <2>1. /\ attempt[c].pc = "index" /\ UNCHANGED <<log, rows, sent>>
        /\ attempt'[c].pc = "run" /\ attempt'[c].index = m
    BY <1>2 DEF NextIndex
  <2>2. m \in Nat /\ \A j \in DOMAIN rows[n] : j < m
    BY <1>0, <2>1, GreatestIndex
  <2> HIDE DEF m
  <2>3. sent[n] <= m
    BY <1>0, <2>1, <2>2 DEF Topped, CallsOk
  <2> QED
    BY <1>0, <2>1, <2>2, <2>3 DEF Counted, Topped, Past
<1>3. CASE MarkRunning(c)
  <2>1. /\ attempt[c].pc = "run" /\ UNCHANGED <<rows, sent>>
        /\ attempt'[c].pc \in {"start", "fail"} /\ attempt'[c].index = attempt[c].index
    BY <1>3 DEF MarkRunning
  <2>2. log'[n] = log[n] \/ log'[n].status = "running"
    BY <1>0, <1>3, <2>1 DEF MarkRunning, LogTyped, LogRow
  <2> QED
    BY <1>0, <2>1, <2>2 DEF Counted, Topped, Past
<1>4. CASE StartAttempt(c)
  <2>1. /\ attempt[c].pc = "start" /\ UNCHANGED log /\ attempt'[c].pc \in {"call", "fail"}
        /\ attempt'[c].index = attempt[c].index + 1
    BY <1>4 DEF StartAttempt
  <2>2. log'[n].status # "succeeded"
    BY <1>0, <2>1
  <2>3. sent[n] <= attempt[c].index /\ \A i \in DOMAIN rows[n] : i < attempt[c].index /\ i \in Nat
    BY <1>0, <2>1 DEF Past, CallsOk
  <2>4. CASE /\ DOMAIN rows'[n] = DOMAIN rows[n] \cup {attempt[c].index}
             /\ sent'[n] = sent[n] + 1
    <3>1. sent'[n] <= attempt[c].index + 1
      BY <1>0, <2>1, <2>3, <2>4
    <3>2. attempt[c].index \in DOMAIN rows'[n]
      BY <2>4
    <3>3. \A i \in DOMAIN rows'[n] : i < attempt[c].index + 1
      BY <1>0, <2>3, <2>4
    <3>4. Topped(n)'
      BY <3>1, <3>2 DEF Topped
    <3>5. (attempt[c].index + 1) - 1 = attempt[c].index
      BY <1>0
    <3> QED
      BY <2>1, <2>2, <3>1, <3>2, <3>3, <3>4, <3>5 DEF Counted, Past
  <2>5. CASE attempt'[c].pc = "fail" /\ UNCHANGED <<rows, sent>>
    <3>1. sent[n] <= attempt[c].index + 1 /\ \A i \in DOMAIN rows[n] : i < attempt[c].index + 1
      BY <1>0, <2>1, <2>3
    <3> QED
      BY <1>0, <2>1, <2>2, <2>5, <3>1 DEF Counted, Topped, Past
  <2>6. n \in Turns
    BY <1>0, <2>1
  <2> QED
    BY <1>4, <2>4, <2>5, <2>6 DEF StartAttempt, CallsTyped, OthersTyped
<1>5. CASE Call(c)
  <2>1. /\ attempt[c].pc = "call" /\ UNCHANGED <<log, rows, sent>>
        /\ attempt'[c].pc \in {"complete", "refuse"} /\ attempt'[c].index = attempt[c].index
    BY <1>5 DEF Call
  <2> QED
    BY <1>0, <2>1 DEF Counted, Topped, Past
<1>6. CASE CompleteAttempt(c) \/ RefuseAttempt(c)
  <2>1. /\ attempt[c].pc \in {"complete", "refuse"} /\ UNCHANGED <<log, sent>>
        /\ attempt'[c].pc \in {"record", "refuse", "start", "fail"}
        /\ attempt'[c].index = attempt[c].index
        /\ attempt'[c].pc = "record" => SetAttempt(c, "succeeded")
        /\ rows' = rows \/ \E v \in {"succeeded", "failed"} : SetAttempt(c, v)
    BY <1>6 DEF CompleteAttempt, RefuseAttempt
  <2>2. DOMAIN rows'[n] = DOMAIN rows[n]
    BY <1>0, <2>1 DEF SetAttempt, CallsTyped
  <2>3. attempt[c].index - 1 \in DOMAIN rows[n]
    BY <1>0, <2>1 DEF Past
  <2>4. attempt'[c].pc = "record" => rows'[n][attempt[c].index - 1] = "succeeded"
    BY <1>0, <2>1, <2>3 DEF SetAttempt, CallsTyped
  <2> QED
    BY <1>0, <2>1, <2>2, <2>3, <2>4 DEF Counted, Topped, Past
<1>7. CASE MarkSucceeded(c)
  <2>1. attempt[c].pc = "record" /\ UNCHANGED <<rows, sent>>
    BY <1>7 DEF MarkSucceeded
  <2>2. /\ attempt'[c].pc \in {"create", "persist", "fail"}
        /\ attempt'[c].pc = "fail" => attempt'[c].index = attempt[c].index
    BY <1>7, AnswerMoves DEF MarkSucceeded
  <2>3. log'[n] = log[n] \/ (log'[n].status = "succeeded" /\ log'[n].count = attempt[c].index)
    <3>1. CASE SetLog(n, Succeeded(c))
      BY <1>0, <2>1, <3>1 DEF SetLog, Succeeded, LogTyped, LogRow
    <3> QED
      BY <1>7, <3>1 DEF MarkSucceeded
  <2>4. /\ sent[n] <= attempt[c].index /\ \A i \in DOMAIN rows[n] : i < attempt[c].index
        /\ attempt[c].index - 1 \in DOMAIN rows[n]
        /\ rows[n][attempt[c].index - 1] = "succeeded"
    BY <1>0, <2>1 DEF Past
  <2> QED
    BY <1>0, <2>1, <2>2, <2>3, <2>4 DEF Counted, Topped, Past
<1>8. CASE MarkFailed(c)
  <2>1. attempt[c].pc = "fail" /\ UNCHANGED <<rows, sent>>
        /\ attempt'[c].pc \in {"create", "persist"}
    BY <1>8 DEF MarkFailed
  <2>2. log'[n] = log[n] \/ log'[n].status = "failed"
    BY <1>0, <1>8, <2>1 DEF MarkFailed, LogTyped, LogRow
  <2> QED
    BY <1>0, <2>1, <2>2 DEF Counted, Topped, Past
<1>9. CASE Persist(c) \/ CreateStep(c) \/ Return(c) \/ LedgerFails(c) \/ Crash(c)
  <2>1. UNCHANGED <<log, rows, sent>> /\ attempt'[c].pc \in {"over", "step", "return", "persist", "dead"}
    BY <1>9 DEF Persist, CreateStep, Return, LedgerFails, Crash
  <2> QED
    BY <1>0, <2>1 DEF Counted, Topped, Past
<1>10. CASE Abort(c)
  <2>1. UNCHANGED <<log, rows, sent>> /\ attempt'[c].pc = attempt[c].pc
        /\ attempt'[c].index = attempt[c].index
    BY <1>10 DEF Abort
  <2> QED
    BY <1>0, <2>1 DEF Counted, Topped, Past
<1> QED
  BY <1>1, <1>2, <1>3, <1>4, <1>5, <1>6, <1>7, <1>8, <1>9, <1>10 DEF Moves, Work

LEMMA CountSoloStep ==
  ASSUME Base, LedgerSolo, CountSolo, Next
  PROVE  CountSolo'
<1> SUFFICES ASSUME ~overlapped' PROVE CountSolo'
  BY DEF CountSolo
<1> USE DEF Base, Typed, AttemptsTyped, OthersTyped
<1>1. ASSUME NEW a \in Attempts, Moves(a) PROVE CountSolo'
  <2>1. ~overlapped /\ a = current /\ UNCHANGED <<current, overlapped>>
    BY <1>1, OwnStep DEF LedgerSolo
  <2>2. PICK n : n = Turn(a)
    OBVIOUS
  <2>3. /\ n \in Turns => Counted(n)' /\ Topped(n)'
        /\ Past(attempt[a], n)'
    BY <1>1, <2>1, <2>2, CountGoesOn
  <2>4. \A t \in Turns : t # n => Counted(t)' /\ Topped(t)'
    BY <1>1, <2>1, <2>2, Elsewhere DEF CountSolo, Counted, Topped
  <2>5. Past(attempt[a], Turn(a))'
    <3>1. LedgerGoesOn(a)
      BY <1>1, <2>1, AloneGoesOn DEF LedgerSolo
    <3>2. CASE attempt'[a].pc \in InFlight
      BY <2>2, <2>3, <3>1, <3>2 DEF LedgerGoesOn, Turn
    <3>3. CASE attempt'[a].pc \notin InFlight
      BY <3>3 DEF Past, InFlight
    <3> QED
      BY <3>2, <3>3
  <2> QED
    BY <2>1, <2>3, <2>4, <2>5 DEF CountSolo
<1>2. CASE UpdateStep
  BY <1>2 DEF UpdateStep, CountSolo, Counted, Topped, Past, Turn
<1>3. CASE Retry
  <2>1. CASE AttemptAgain
    <3>1. attempt'[current'].pc = "create" /\ ~overlapped
      BY <2>1, Bounds DEF AttemptAgain, Attempts, AttemptRow
    <3>2. Past(attempt[current], Turn(current))'
      BY <3>1 DEF Past, InFlight
    <3> QED
      BY <1>3, <3>1, <3>2 DEF Retry, CountSolo, Counted, Topped
  <2>2. CASE LetDown
    BY <1>3, <2>2 DEF Retry, LetDown, CountSolo, Counted, Topped, Past, Turn
  <2> QED
    BY <1>3, <2>1, <2>2 DEF Retry
<1> QED
  BY <1>1, <1>2, <1>3 DEF Next, Moves

-----------------------------------------------------------------------------
LEMMA SoloInit == ASSUME Init PROVE Solo
<1>1. /\ \A a \in Attempts : attempt[a].hist = <<>> /\ attempt[a].pc \in {"create", "idle"}
      /\ \A a \in Attempts : a # 1 => attempt[a].pc = "idle"
      /\ current = 1 /\ 1 \in Attempts /\ wf = "wait"
      /\ told.kind = "none" /\ step.kind = "none"
      /\ \A t \in Turns : sent[t] = 0 /\ log[t].status = "none"
  BY Bounds DEF Init, Attempts, NoResult, None
<1>2. LedgerSolo
  BY <1>1, NoHist DEF LedgerSolo, Kept, Running, Ended, InFlight
<1>3. StepSolo /\ Ending
  BY <1>1, NoHist DEF StepSolo, Ending, Late, Asking, InFlight
<1>4. CountSolo
  BY <1>1 DEF CountSolo, Counted, Topped, Past, InFlight
<1> QED
  BY <1>2, <1>3, <1>4 DEF Solo

LEMMA SoloInvariant == Spec => []Solo
<1>1. Init => Solo
  BY SoloInit
<1>2. Base /\ Solo /\ [Next]_vars => Solo'
  <2>1. Base /\ Solo /\ Next => Solo'
    BY LedgerSoloStep, StepSoloStep, EndingStep, CountSoloStep DEF Solo
  <2>2. Solo /\ UNCHANGED vars => Solo'
    BY DEF vars, Solo, LedgerSolo, StepSolo, Ending, CountSolo, Kept, Has, Whole, Counted,
           Topped, Past, Running, Turn
  <2> QED
    BY <2>1, <2>2
<1> QED
  BY <1>1, <1>2, BaseInvariant, PTL DEF Spec

\* The workflow goes on from answers that a later segment finds in the ledger, unless
\* attempts of runPiSegmentActivity ran side by side.
THEOREM ToldFromLedger == Spec => []ToldIsRecorded
<1>1. Solo => ToldIsRecorded
  BY DEF Solo, LedgerSolo, ToldIsRecorded, Kept, Has
<1> QED
  BY <1>1, SoloInvariant, PTL

\* Two segments that are done and whose answers are both in the ledger are the same.
LEMMA SameSegment ==
  ASSUME NEW h \in Hists, NEW g \in Hists, Whole(h), Whole(g), Kept(h), Kept(g)
  PROVE  h = g
<1>1. /\ h \in Seq(Answers) /\ g \in Seq(Answers) /\ Len(h) \in Nat /\ Len(g) \in Nat
      /\ Len(h) >= 1 /\ Len(g) >= 1
  BY HistsAre DEF Whole
<1>2. \A t \in 1..Len(h) : t \in 1..Len(g) => h[t] = g[t]
  BY DEF Kept, Has
<1>3. ~(Len(h) < Len(g))
  <2>1. SUFFICES ASSUME Len(h) < Len(g) PROVE FALSE
    OBVIOUS
  <2>2. Len(h) \in 1..Len(h) /\ Len(h) \in 1..Len(g)
    BY <1>1, <2>1
  <2> QED
    BY <1>1, <1>2, <2>1, <2>2 DEF Whole
<1>4. ~(Len(g) < Len(h))
  <2>1. SUFFICES ASSUME Len(g) < Len(h) PROVE FALSE
    OBVIOUS
  <2>2. Len(g) \in 1..Len(h) /\ Len(g) \in 1..Len(g)
    BY <1>1, <2>1
  <2> QED
    BY <1>1, <1>2, <2>1, <2>2 DEF Whole
<1>5. Len(h) = Len(g)
  BY <1>1, <1>3, <1>4
<1> QED
  BY <1>1, <1>2, <1>5, SeqEqual

\* The step of a segment, which its first writer described and nothing corrects, says what
\* the workflow acts on, and names the snapshot it goes on from.
THEOREM StepIsTrue == Spec => []StepDescribesSegment
<1>1. Base /\ Solo => StepDescribesSegment
  <2> SUFFICES ASSUME Base, Solo PROVE StepDescribesSegment
    OBVIOUS
  <2>1. ASSUME told.kind = "done", step.kind = "done", ~overlapped
        PROVE  step.hist = told.hist
    <3>1. Whole(step.hist) /\ Whole(told.hist) /\ Kept(step.hist) /\ Kept(told.hist)
      BY <2>1 DEF Solo, LedgerSolo, StepSolo, Ending
    <3>2. step.hist \in Hists /\ told.hist \in Hists
      BY DEF Base, Typed, OthersTyped, Results
    <3> QED
      BY <3>1, <3>2, SameSegment
  <2>2. wf = "on" => step.snapshot = told.snapshot
    BY DEF Solo, Ending
  <2> QED
    BY <2>1, <2>2 DEF StepDescribesSegment
<1> QED
  BY <1>1, BaseInvariant, SoloInvariant, PTL

\* The attempt_count of a model call that succeeded counts every request that was sent,
\* those of attempts that died as well.
THEOREM CallsCounted == Spec => []AttemptsAreCounted
<1>1. Solo => AttemptsAreCounted
  BY DEF Solo, CountSolo, Counted, AttemptsAreCounted
<1> QED
  BY <1>1, SoloInvariant, PTL

\* markFailed takes a recorded answer away only where attempts run side by side, or where the
\* attempt that recorded it was not told so.
THEOREM AnswersStay == Spec => RecordedAnswerStays
<1> DEFINE Stays ==
      \A t \in Turns : (log[t].status = "succeeded" /\ log'[t].status # "succeeded") =>
        overlapped \/ \E a \in Attempts : At(a, "fail") /\ log[t].answer = attempt[a].answer
<1>1. Base /\ Solo /\ [Next]_vars => [Stays]_vars
  <2> SUFFICES ASSUME Base, Solo, Next, NEW t \in Turns, ~overlapped,
                      log[t].status = "succeeded", log'[t].status # "succeeded"
               PROVE  \E a \in Attempts : At(a, "fail") /\ log[t].answer = attempt[a].answer
    OBVIOUS
  <2>1. PICK a \in Attempts : Moves(a)
    BY DEF Next, Moves, UpdateStep, Retry
  <2>2. a = current /\ t = Turn(a)
    BY <2>1, OwnStep, Elsewhere DEF Base, Solo, LedgerSolo
  <2>3. LedgerGoesOn(a)
    BY <2>1, <2>2, AloneGoesOn DEF Base, Solo, LedgerSolo
  <2>4. attempt[a].pc = "fail"
    BY <2>2, <2>3 DEF LedgerGoesOn
  <2> QED
    BY <2>2, <2>4 DEF Solo, LedgerSolo, InFlight, At
<1> QED
  BY <1>1, BaseInvariant, SoloInvariant, PTL DEF Spec, RecordedAnswerStays
=============================================================================
