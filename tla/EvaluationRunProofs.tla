------------------------ MODULE EvaluationRunProofs ------------------------
(***************************************************************************)
(* EvaluationRun, for any number of runs, cases and policies, any batch    *)
(* width and any threshold: its safety properties, and that every case and *)
(* every run ends.                                                         *)
(*                                                                         *)
(* The threshold only means something of a whole evaluation. Evidence      *)
(* follows the wholeness from the cases, which are joined before anything  *)
(* is added up, through every attempt that may still write late, to the    *)
(* decision and to the release.                                            *)
(***************************************************************************)
EXTENDS EvaluationRun, FiniteSetTheorems, TLAPS

\* There is a row once there is a creator, and a workflow only after it.
Rows ==
  \A r \in Runs :
    /\ creator[r] = "idle" <=> run[r] = "none"
    /\ wf[r] # "none" => creator[r] # "idle"
    /\ late[r] # {} => wf[r] # "none"

Whole(r) == \A c \in Cases : case[r][c] = "done"

Evidence ==
  /\ \A r \in Runs, c \in Cases : case[r][c] = "done" => result[r][c] \in Scored
  /\ \A r \in Runs : wf[r] \in {"aggregate", "gate", "complete"} => Whole(r)
  /\ \A r \in Runs : \A call \in late[r] : call.name = "gate" => Whole(r)

Decided ==
  \A p \in 1..MaxPolicies : decision[p] # NoDecision =>
    /\ decision[p].basis.passed + decision[p].basis.failed = Cardinality(Cases)
    /\ decision[p].verdict = "passed" => Passes(decision[p].basis)

Released ==
  release # Unreleased =>
    /\ Fresh(release.policy)
    /\ release.overridden \/ decision[release.policy].verdict = "passed"

\* Who lost a run, and what that cost; a case is only under way in an open workflow.
HandsOf(r) ==
  /\ creator[r] = "start" => wf[r] = "none"
  /\ creator[r] = "done" => wf[r] # "none" \/ run[r] \in Terminal
  /\ creator[r] = "dead" => faults > 0
  /\ canceller[r] = "ask" \/ asked[r] => cancels > 0
  /\ wf[r] = "swallowed" => faults > 0 \/ cancels > 0
  /\ \A c \in Cases : CaseUnderWay(r, c) => Open(r)

Hands == \A r \in Runs : HandsOf(r)

Inv == TypeOK /\ Rows /\ Evidence /\ Decided /\ Released /\ ClosedRunReported /\ Hands

-----------------------------------------------------------------------------
\* What is added up is so many cases, and all of them when each was scored.
LEMMA WithType ==
  ASSUME NEW r \in Runs, NEW S PROVE With(r, S) \in 0..Cardinality(Cases)
BY EvaluationAssumption, FS_Subset, FS_CardinalityType DEF With

LEMMA AggregateType == ASSUME NEW r \in Runs PROVE Aggregate(r) \in Tallies
BY WithType DEF Aggregate, Tallies

LEMMA WholeAggregate ==
  ASSUME NEW r \in Runs, \A c \in Cases : result[r][c] \in Scored
  PROVE  Aggregate(r).passed + Aggregate(r).failed = Cardinality(Cases)
<1> DEFINE P == {c \in Cases : result[r][c] \in {"passed"}}
           F == {c \in Cases : result[r][c] \in {"failed", "violated"}}
<1>1. IsFiniteSet(P) /\ IsFiniteSet(F)
  BY EvaluationAssumption, FS_Subset
<1>2. P \cup F = Cases /\ P \cap F = {}
  BY DEF Scored
<1>3. Cardinality(P) \in Nat /\ Cardinality(F) \in Nat /\ Cardinality(P \cap F) = 0
  BY <1>1, <1>2, FS_CardinalityType, FS_EmptySet
<1>4. Cardinality(Cases) = Cardinality(P) + Cardinality(F)
  <2> HIDE DEF P, F
  <2>1. Cardinality(P \cup F) = Cardinality(P) + Cardinality(F) - Cardinality(P \cap F)
    BY <1>1, FS_Union
  <2>2. Cardinality(P \cup F) = Cardinality(Cases)
    BY <1>2
  <2> QED
    BY <1>3, <2>1, <2>2
<1> QED
  BY <1>4 DEF Aggregate, With

LEMMA DecidedType ==
  ASSUME TypeOK, NEW r \in Runs
  PROVE  DecidedNow(r) \in [1..MaxPolicies -> Decisions]
<1>1. Aggregate(r) \in Tallies
  BY AggregateType
<1>2. [verdict |-> IF Passes(Aggregate(r)) THEN "passed" ELSE "failed",
       run |-> r, basis |-> Aggregate(r)] \in Decisions
  BY <1>1 DEF Decisions
<1> QED
  BY <1>2 DEF DecidedNow, TypeOK

\* A decision that is there stays.
LEMMA DecisionStays ==
  ASSUME TypeOK, NEW r \in Runs, NEW p \in 1..MaxPolicies, decision[p] # NoDecision
  PROVE  DecidedNow(r)[p] = decision[p]
BY DEF DecidedNow, TypeOK

LEMMA InitInv == Init => Inv
<1> SUFFICES ASSUME Init PROVE Inv
  OBVIOUS
<1>1. NoTally \in Tallies
  BY EvaluationAssumption, FS_CardinalityType DEF NoTally, Tallies
<1>2. TypeOK
  BY <1>1, EvaluationAssumption
  DEF Init, TypeOK, RunStatus, Verdicts, WfPcs, CasePcs, Decisions, NoDecision
<1>3. Rows /\ Evidence /\ Decided /\ Released /\ ClosedRunReported /\ Hands
  BY DEF Init, Rows, Evidence, Decided, Released, ClosedRunReported, Whole, Hands, HandsOf,
         CaseUnderWay
<1> QED
  BY <1>2, <1>3 DEF Inv

-----------------------------------------------------------------------------
\* What the moves of the workflows and their rows leave.
LEMMA RowReports ==
  ASSUME NEW s \in RunStatus
  PROVE  {MarkedRunning(s), Requested(s), Completed(s), Failed(s), Cancelled(s)} \subseteq RunStatus
BY DEF MarkedRunning, Requested, Completed, Failed, Cancelled, RunStatus, Terminal

LEMMA RunWritten ==
  ASSUME TypeOK, NEW r \in Runs
  PROVE  /\ run[r] \in RunStatus
         /\ \A s \in RunStatus : SetRun(r, s) => run' \in [Runs -> RunStatus]
BY DEF TypeOK, SetRun

LEMMA WfMoves ==
  ASSUME TypeOK, NEW r \in Runs, NEW pc \in WfPcs, WfGoto(r, pc)
  PROVE  wf' \in [Runs -> WfPcs]
BY DEF TypeOK, WfGoto

LEMMA CaseMoves ==
  ASSUME TypeOK, NEW r \in Runs, NEW c \in Cases, NEW pc \in CasePcs, CaseGoto(r, c, pc)
  PROVE  case' \in [Runs -> [Cases -> CasePcs]]
BY DEF TypeOK, CaseGoto

LEMMA CaseCloses ==
  ASSUME TypeOK, NEW r \in Runs, CloseCases(r)
  PROVE  case' \in [Runs -> [Cases -> CasePcs]]
BY DEF TypeOK, CloseCases, CasePcs, CaseOver

LEMMA ResultWritten ==
  ASSUME TypeOK, NEW r \in Runs, NEW c \in Cases, NEW v \in Verdicts,
         result' = [result EXCEPT ![r][c] = v]
  PROVE  result' \in [Runs -> [Cases -> Verdicts \cup {"none"}]]
BY DEF TypeOK

LEMMA LateCall ==
  ASSUME TypeOK, NEW r \in Runs, NEW name, NEW c, [name |-> name, case |-> c] \in LateCalls,
         Late(r, name, c)
  PROVE  late' \in [Runs -> SUBSET LateCalls]
BY DEF TypeOK, Late

LEMMA RunCall == ASSUME NEW r \in Runs, NEW name \in {"gate", "complete", "fail", "stop"}
                 PROVE  [name |-> name, case |-> "-"] \in LateCalls
BY DEF LateCalls

LEMMA CaseCall == ASSUME NEW c \in Cases, NEW name \in {"score", "record"}
                  PROVE  [name |-> name, case |-> c] \in LateCalls
BY DEF LateCalls

LEMMA TypeStep == ASSUME TypeOK, Next PROVE TypeOK'
<1> USE EvaluationAssumption DEF WfPcs, CasePcs
<1>1. ASSUME NEW r \in Runs,
             CreateRow(r) \/ FailStart(r) \/ CreatorDies(r) \/ RequestCancel(r)
      PROVE  TypeOK'
  <2>1. run' \in [Runs -> RunStatus]
    BY <1>1 DEF TypeOK, CreateRow, FailStart, CreatorDies, RequestCancel, SetRun, Failed,
                Requested, RunStatus, Terminal
  <2>2. creator' \in [Runs -> {"idle", "start", "fail", "done", "dead"}]
    BY <1>1 DEF TypeOK, CreateRow, FailStart, CreatorDies, RequestCancel, CreatorGoto
  <2>3. canceller' \in [Runs -> {"idle", "ask"}]
    BY <1>1 DEF TypeOK, CreateRow, FailStart, CreatorDies, RequestCancel, CancellerGoto
  <2>4. cancels' \in 0..MaxCancels /\ faults' \in 0..MaxFaults
    BY <1>1 DEF TypeOK, CreateRow, FailStart, CreatorDies, RequestCancel, Fault
  <2>5. UNCHANGED <<wf, asked, tally, case, late, rows>>
    BY <1>1 DEF CreateRow, FailStart, CreatorDies, RequestCancel
  <2> QED
    BY <2>1, <2>2, <2>3, <2>4, <2>5 DEF TypeOK, rows
<1>2. ASSUME NEW r \in Runs, StartWorkflow(r) PROVE TypeOK'
  <2>1. wf' \in [Runs -> WfPcs]
    BY <1>2 DEF TypeOK, StartWorkflow, WfGoto
  <2>2. creator' \in [Runs -> {"idle", "start", "fail", "done", "dead"}]
    <3>1. PICK pc \in {"done", "fail"} : CreatorGoto(r, pc)
      BY <1>2 DEF StartWorkflow
    <3> QED
      BY <3>1 DEF TypeOK, CreatorGoto
  <2>3. faults' \in 0..MaxFaults
    BY <1>2 DEF TypeOK, StartWorkflow, Fault
  <2>4. UNCHANGED <<run, canceller, asked, tally, case, late, cancels, rows>>
    BY <1>2 DEF StartWorkflow
  <2> QED
    BY <2>1, <2>2, <2>3, <2>4 DEF TypeOK, rows
<1>3. ASSUME NEW r \in Runs, AskTemporal(r) PROVE TypeOK'
  <2>1. Open(r) \in BOOLEAN
    BY DEF Open
  <2>2. asked' \in [Runs -> BOOLEAN]
    BY <1>3, <2>1 DEF TypeOK, AskTemporal
  <2>3. canceller' \in [Runs -> {"idle", "ask"}] /\ faults' \in 0..MaxFaults
    BY <1>3 DEF TypeOK, AskTemporal, CancellerGoto, Fault
  <2>4. UNCHANGED <<run, creator, wf, tally, case, late, cancels, rows>>
    BY <1>3 DEF AskTemporal
  <2> QED
    BY <2>2, <2>3, <2>4 DEF TypeOK, rows
<1>4. ASSUME NEW r \in Runs, MarkRunning(r) \/ CompleteRun(r) PROVE TypeOK'
  <2>1. run' \in [Runs -> RunStatus]
    BY <1>4, RowReports, RunWritten DEF MarkRunning, CompleteRun
  <2>2. PICK pc \in WfPcs : WfGoto(r, pc)
    <3>1. CASE MarkRunning(r)
      BY <3>1 DEF MarkRunning
    <3>2. CASE CompleteRun(r)
      BY <3>2 DEF CompleteRun
    <3> QED
      BY <1>4, <3>1, <3>2
  <2>3. UNCHANGED <<creator, canceller, asked, tally, case, late, cancels, faults, rows>>
    BY <1>4 DEF MarkRunning, CompleteRun
  <2> QED
    BY <2>1, <2>2, <2>3, WfMoves DEF TypeOK, rows
<1>5. ASSUME NEW r \in Runs, StartBatch(r) PROVE TypeOK'
  BY <1>5 DEF TypeOK, StartBatch, rows
<1>6. ASSUME NEW r \in Runs, CasesJoined(r) \/ CaseRejected(r) PROVE TypeOK'
  BY <1>6 DEF TypeOK, CasesJoined, CaseRejected, WfGoto, rows
<1>7. ASSUME NEW r \in Runs, AddUp(r) \/ AddUpStopped(r) PROVE TypeOK'
  <2>1. tally' \in [Runs -> Tallies]
    BY <1>7, AggregateType DEF TypeOK, AddUp, AddUpStopped
  <2>2. wf' \in [Runs -> WfPcs]
    <3>1. PICK pc \in WfPcs : WfGoto(r, pc)
      BY <1>7 DEF AddUp, AddUpStopped
    <3> QED
      BY <3>1, WfMoves
  <2>3. UNCHANGED <<run, creator, canceller, asked, case, late, cancels, faults, rows>>
    BY <1>7 DEF AddUp, AddUpStopped
  <2> QED
    BY <2>1, <2>2, <2>3 DEF TypeOK, rows
<1>8. ASSUME NEW r \in Runs, DecideGate(r) PROVE TypeOK'
  BY <1>8, DecidedType DEF TypeOK, DecideGate, WfGoto
<1>9. ASSUME NEW r \in Runs, CancelRun(r) \/ FailRun(r) PROVE TypeOK'
  <2>1. run' \in [Runs -> RunStatus]
    BY <1>9, RowReports, RunWritten DEF CancelRun, FailRun
  <2>2. wf' \in [Runs -> WfPcs]
    BY <1>9 DEF TypeOK, CancelRun, FailRun, WfGoto
  <2>3. case' \in [Runs -> [Cases -> CasePcs]]
    BY <1>9, CaseCloses DEF CancelRun, FailRun
  <2>4. UNCHANGED <<creator, canceller, asked, tally, late, cancels, faults, rows>>
    BY <1>9 DEF CancelRun, FailRun
  <2> QED
    BY <2>1, <2>2, <2>3, <2>4 DEF TypeOK, rows
<1>10. ASSUME NEW r \in Runs, ScopeCancelled(r) \/ RunActivityFails(r) PROVE TypeOK'
  <2>1. wf' \in [Runs -> WfPcs]
    BY <1>10, WfMoves DEF ScopeCancelled, RunActivityFails
  <2>2. case' \in [Runs -> [Cases -> CasePcs]]
    <3>1. UNCHANGED case \/ CloseCases(r)
      BY <1>10 DEF ScopeCancelled, RunActivityFails
    <3> QED
      BY <3>1, CaseCloses DEF TypeOK
  <2>3. late' \in [Runs -> SUBSET LateCalls]
    <3>1. UNCHANGED late \/ \E name \in {"gate", "complete", "fail", "stop"} : Late(r, name, "-")
      BY <1>10 DEF ScopeCancelled, RunActivityFails
    <3> QED
      BY <3>1, LateCall, RunCall DEF TypeOK
  <2>4. faults' \in 0..MaxFaults
    BY <1>10 DEF ScopeCancelled, RunActivityFails, Fault, TypeOK
  <2>5. UNCHANGED <<run, creator, canceller, asked, tally, cancels, rows>>
    BY <1>10 DEF ScopeCancelled, RunActivityFails
  <2> QED
    BY <2>1, <2>2, <2>3, <2>4, <2>5 DEF TypeOK, rows
<1>11. ASSUME NEW r \in Runs, NEW c \in Cases,
              \/ PrepareCase(r, c) \/ AgentEnds(r, c) \/ WriteResult(r, c) \/ CaseCancelled(r, c)
              \/ CaseActivityFails(r, c) \/ CaseTimesOut(r, c)
       PROVE  TypeOK'
  <2>1. case' \in [Runs -> [Cases -> CasePcs]]
    <3>1. UNCHANGED case \/ \E pc \in CasePcs : CaseGoto(r, c, pc)
      BY <1>11 DEF PrepareCase, AgentEnds, WriteResult, CaseCancelled, CaseActivityFails,
                   CaseTimesOut, CaseGoto
    <3> QED
      BY <3>1, CaseMoves DEF TypeOK
  <2>2. result' \in [Runs -> [Cases -> Verdicts \cup {"none"}]]
    <3>1. UNCHANGED result \/ \E v \in Verdicts : result' = [result EXCEPT ![r][c] = v]
      BY <1>11 DEF PrepareCase, AgentEnds, WriteResult, CaseCancelled, CaseActivityFails,
                   CaseTimesOut, Verdicts, Scored
    <3> QED
      BY <3>1, ResultWritten DEF TypeOK
  <2>3. late' \in [Runs -> SUBSET LateCalls]
    <3>1. UNCHANGED late \/ \E name \in {"score", "record"} : Late(r, name, c)
      BY <1>11 DEF PrepareCase, AgentEnds, WriteResult, CaseCancelled, CaseActivityFails,
                   CaseTimesOut
    <3> QED
      BY <3>1, LateCall, CaseCall DEF TypeOK
  <2>4. faults' \in 0..MaxFaults
    <3>1. UNCHANGED faults \/ Fault
      BY <1>11 DEF PrepareCase, AgentEnds, WriteResult, CaseCancelled, CaseActivityFails,
                   CaseTimesOut
    <3> QED
      BY <3>1 DEF Fault, TypeOK
  <2>5. CaseUnchanged
    BY <1>11 DEF PrepareCase, AgentEnds, WriteResult, CaseCancelled, CaseActivityFails,
                 CaseTimesOut
  <2> QED
    BY <2>1, <2>2, <2>3, <2>4, <2>5 DEF TypeOK, CaseUnchanged
<1>12. ASSUME NEW r \in Runs, LateEffect(r) PROVE TypeOK'
  <2>1. PICK call \in late[r] :
          /\ late' = [late EXCEPT ![r] = @ \ {call}]
          /\ run' = CASE call.name = "complete" -> [run EXCEPT ![r] = Completed(@)]
                      [] call.name = "fail"     -> [run EXCEPT ![r] = Failed(@)]
                      [] call.name = "stop"     -> [run EXCEPT ![r] = Cancelled(@)]
                      [] OTHER -> run
          /\ decision' = IF call.name = "gate" THEN DecidedNow(r) ELSE decision
          /\ CASE call.name = "score" ->
                    \E verdict \in Scored : result' = [result EXCEPT ![r][call.case] = verdict]
               [] call.name = "record" -> result' = [result EXCEPT ![r][call.case] = "violated"]
               [] OTHER -> UNCHANGED result
    BY <1>12 DEF LateEffect
  <2>2. late' \in [Runs -> SUBSET LateCalls]
    BY <2>1 DEF TypeOK
  <2>3. run' \in [Runs -> RunStatus]
    BY <2>1 DEF TypeOK, Completed, Failed, Cancelled, RunStatus, Terminal
  <2>4. decision' \in [1..MaxPolicies -> Decisions]
    BY <2>1, DecidedType DEF TypeOK
  <2>5. result' \in [Runs -> [Cases -> Verdicts \cup {"none"}]]
    <3>1. call \in LateCalls
      BY DEF TypeOK
    <3>2. \/ UNCHANGED result
          \/ /\ call.name \in {"score", "record"}
             /\ \E v \in Verdicts : result' = [result EXCEPT ![r][call.case] = v]
      BY <2>1 DEF Verdicts, Scored
    <3>3. call.name \in {"score", "record"} => call.case \in Cases
      BY <3>1 DEF LateCalls
    <3> QED
      BY <3>2, <3>3, ResultWritten DEF TypeOK
  <2>6. UNCHANGED <<creator, canceller, wf, asked, tally, case, policy, override, release,
                    cancels, faults>>
    BY <1>12 DEF LateEffect
  <2> QED
    BY <2>2, <2>3, <2>4, <2>5, <2>6 DEF TypeOK
<1>13. CASE PublishPolicy \/ Override \/ OverrideExpires
  BY <1>13 DEF TypeOK, PublishPolicy, Override, OverrideExpires, GateUnchanged
<1>14. CASE Publish
  BY <1>14 DEF TypeOK, Publish, GateUnchanged
<1> QED
  BY <1>1, <1>2, <1>3, <1>4, <1>5, <1>6, <1>7, <1>8, <1>9, <1>10, <1>11, <1>12, <1>13, <1>14
  DEF Next, RunStep, CaseStep, CreatorStep

-----------------------------------------------------------------------------
\* Every step that writes a row writes what the guards of the repository leave.
RowWritten ==
  \/ UNCHANGED run
  \/ \E r \in Runs :
       creator[r] = "idle" /\ CreatorGoto(r, "start") /\ SetRun(r, "queued")
  \/ \E r \in Runs :
       /\ run[r] # "none"
       /\ \E s \in {MarkedRunning(run[r]), Requested(run[r]), Completed(run[r]),
                    Failed(run[r]), Cancelled(run[r])} : SetRun(r, s)

LEMMA RunWrites == ASSUME TypeOK, Rows, Next PROVE RowWritten
<1>1. ASSUME NEW r \in Runs, CreateRow(r) PROVE RowWritten
  BY <1>1 DEF RowWritten, CreateRow
<1>2. ASSUME NEW r \in Runs, FailStart(r) \/ FailRun(r) PROVE RowWritten
  BY <1>2 DEF RowWritten, FailStart, FailRun, Heard, Rows
<1>3. ASSUME NEW r \in Runs, RequestCancel(r) PROVE RowWritten
  BY <1>3 DEF RowWritten, RequestCancel
<1>4. ASSUME NEW r \in Runs, MarkRunning(r) \/ CompleteRun(r) PROVE RowWritten
  BY <1>4 DEF RowWritten, MarkRunning, CompleteRun, Heard, Rows
<1>5. ASSUME NEW r \in Runs, CancelRun(r) PROVE RowWritten
  BY <1>5 DEF RowWritten, CancelRun, Rows
<1>6. ASSUME NEW r \in Runs, LateEffect(r) PROVE RowWritten
  <2>1. PICK call \in late[r] :
          run' = CASE call.name = "complete" -> [run EXCEPT ![r] = Completed(@)]
                   [] call.name = "fail"     -> [run EXCEPT ![r] = Failed(@)]
                   [] call.name = "stop"     -> [run EXCEPT ![r] = Cancelled(@)]
                   [] OTHER -> run
    BY <1>6 DEF LateEffect
  <2> QED
    BY <2>1 DEF RowWritten, SetRun, Rows
<1>7. ASSUME NEW r \in Runs,
             \/ StartWorkflow(r) \/ CreatorDies(r) \/ AskTemporal(r) \/ StartBatch(r)
             \/ CasesJoined(r) \/ CaseRejected(r) \/ AddUp(r) \/ DecideGate(r)
             \/ AddUpStopped(r) \/ ScopeCancelled(r) \/ RunActivityFails(r)
      PROVE  RowWritten
  BY <1>7 DEF RowWritten, StartWorkflow, CreatorDies, AskTemporal, StartBatch, CasesJoined,
              CaseRejected, AddUp, DecideGate, AddUpStopped, ScopeCancelled, RunActivityFails
<1>8. ASSUME NEW r \in Runs, NEW c \in Cases,
             CaseStep(r, c) \/ CaseActivityFails(r, c) \/ CaseTimesOut(r, c)
      PROVE  RowWritten
  BY <1>8 DEF RowWritten, CaseStep, PrepareCase, AgentEnds, WriteResult, CaseCancelled,
              CaseActivityFails, CaseTimesOut, CaseUnchanged
<1>9. CASE PublishPolicy \/ Override \/ OverrideExpires \/ Publish
  BY <1>9 DEF RowWritten, PublishPolicy, Override, OverrideExpires, Publish, GateUnchanged
<1>10. ASSUME NEW r \in Runs, RunStep(r) \/ CreatorStep(r) PROVE RowWritten
  BY <1>2, <1>4, <1>5, <1>7, <1>8, <1>10 DEF RunStep, CreatorStep
<1>11. ASSUME NEW r \in Runs,
              \E c \in Cases : CaseStep(r, c) \/ CaseActivityFails(r, c) \/ CaseTimesOut(r, c)
       PROVE  RowWritten
  BY <1>8, <1>11
<1> QED
  BY <1>1, <1>3, <1>6, <1>7, <1>9, <1>10, <1>11 DEF Next

\* A reported run stays as it is, and one being cancelled is not completed.
LEMMA Final ==
  ASSUME TypeOK, Rows, Next, NEW r \in Runs
  PROVE  /\ run[r] \in Terminal => run'[r] = run[r]
         /\ run[r] = "cancelling" => run'[r] # "completed"
         /\ run[r] # "none" => run'[r] # "none"
         /\ run'[r] # "none" => run[r] # "none" \/ (creator[r] = "idle" /\ creator'[r] = "start")
<1>1. CASE UNCHANGED run
  BY <1>1 DEF Terminal
<1>2. CASE \E q \in Runs : creator[q] = "idle" /\ CreatorGoto(q, "start") /\ SetRun(q, "queued")
  <2>1. PICK q \in Runs : creator[q] = "idle" /\ CreatorGoto(q, "start") /\ SetRun(q, "queued")
    BY <1>2
  <2>2. /\ run[q] = "none" /\ run'[q] = "queued" /\ creator'[q] = "start"
        /\ q # r => run'[r] = run[r]
    BY <2>1 DEF Rows, CreatorGoto, SetRun, TypeOK
  <2> QED
    BY <2>1, <2>2 DEF Terminal
<1>3. CASE \E q \in Runs :
             /\ run[q] # "none"
             /\ \E s \in {MarkedRunning(run[q]), Requested(run[q]), Completed(run[q]),
                          Failed(run[q]), Cancelled(run[q])} : SetRun(q, s)
  <2>0. PICK q \in Runs :
          /\ run[q] # "none"
          /\ \E s \in {MarkedRunning(run[q]), Requested(run[q]), Completed(run[q]),
                       Failed(run[q]), Cancelled(run[q])} : SetRun(q, s)
    BY <1>3
  <2>1. PICK s \in {MarkedRunning(run[q]), Requested(run[q]), Completed(run[q]),
                   Failed(run[q]), Cancelled(run[q])} : SetRun(q, s)
    BY <2>0
  <2>2. run[q] \in RunStatus /\ run'[q] = s /\ (q # r => run'[r] = run[r])
    BY <2>1 DEF SetRun, TypeOK
  <2>3. /\ run[q] \in Terminal => s = run[q]
        /\ run[q] = "cancelling" => s # "completed"
        /\ s # "none"
    BY <2>0, <2>1, <2>2 DEF MarkedRunning, Requested, Completed, Failed, Cancelled, RunStatus, Terminal
  <2> QED
    BY <2>0, <2>2, <2>3
<1> QED
  BY <1>1, <1>2, <1>3, RunWrites DEF RowWritten

\* It is enough to look at the creators, the workflows and the late calls.
LEMMA RowsStep == ASSUME TypeOK, Rows, Next PROVE Rows'
<1>1. ASSUME \A r \in Runs : creator'[r] = "idle" <=> creator[r] = "idle",
             \A r \in Runs : wf'[r] # "none" => wf[r] # "none" \/ creator[r] = "start",
             \A r \in Runs : late'[r] # {} => late[r] # {} \/ wf[r] # "none",
             \A r \in Runs : wf[r] # "none" => wf'[r] # "none"
      PROVE  Rows'
  BY <1>1, Final DEF Rows
<1>2. ASSUME NEW r \in Runs, CreateRow(r) PROVE Rows'
  <2>1. creator[r] = "idle" /\ creator' = [creator EXCEPT ![r] = "start"]
    BY <1>2 DEF CreateRow, CreatorGoto
  <2>2. run' = [run EXCEPT ![r] = "queued"] /\ UNCHANGED <<wf, late>>
    BY <1>2 DEF CreateRow, SetRun
  <2> QED
    BY <2>1, <2>2 DEF Rows, TypeOK
<1>3. ASSUME NEW r \in Runs, StartWorkflow(r) \/ FailStart(r) \/ CreatorDies(r) PROVE Rows'
  <2>1. PICK pc \in {"done", "fail", "dead"} : creator' = [creator EXCEPT ![r] = pc]
    BY <1>3 DEF StartWorkflow, FailStart, CreatorDies, CreatorGoto
  <2>2. creator[r] \in {"start", "fail"} /\ UNCHANGED late
    BY <1>3 DEF StartWorkflow, FailStart, CreatorDies
  <2>3. UNCHANGED wf \/ (creator[r] = "start" /\ wf' = [wf EXCEPT ![r] = "mark"])
    BY <1>3 DEF StartWorkflow, FailStart, CreatorDies, WfGoto
  <2> QED
    BY <1>1, <2>1, <2>2, <2>3 DEF TypeOK
<1>4. ASSUME NEW r \in Runs, RequestCancel(r) \/ AskTemporal(r) \/ StartBatch(r) PROVE Rows'
  BY <1>1, <1>4 DEF RequestCancel, AskTemporal, StartBatch
<1>5. ASSUME NEW r \in Runs, LateEffect(r) PROVE Rows'
  BY <1>1, <1>5 DEF LateEffect, TypeOK
<1>6. ASSUME NEW r \in Runs, UNCHANGED creator, wf[r] # "none",
             NEW pc \in WfPcs \ {"none"}, WfGoto(r, pc),
             UNCHANGED late \/ \E name, c : Late(r, name, c)
      PROVE  Rows'
  BY <1>1, <1>6 DEF WfGoto, Late, TypeOK
<1>7. ASSUME NEW r \in Runs, MarkRunning(r) \/ CompleteRun(r) PROVE Rows'
  <2>1. \E pc \in WfPcs \ {"none"} : WfGoto(r, pc)
    <3>1. CASE MarkRunning(r)
      BY <3>1 DEF MarkRunning, WfPcs
    <3>2. CASE CompleteRun(r)
      BY <3>2 DEF CompleteRun, WfPcs
    <3> QED
      BY <1>7, <3>1, <3>2
  <2> QED
    BY <1>6, <1>7, <2>1 DEF MarkRunning, CompleteRun, Heard
<1>8. ASSUME NEW r \in Runs,
             \/ CasesJoined(r) \/ CaseRejected(r) \/ AddUp(r) \/ DecideGate(r)
             \/ AddUpStopped(r) \/ CancelRun(r) \/ FailRun(r)
      PROVE  Rows'
  <2>1. \E pc \in WfPcs \ {"none"} : WfGoto(r, pc)
    BY <1>8 DEF CasesJoined, CaseRejected, AddUp, DecideGate, AddUpStopped, CancelRun, FailRun,
                WfPcs
  <2>2. wf[r] # "none" /\ UNCHANGED <<creator, late>>
    BY <1>8 DEF CasesJoined, CaseRejected, AddUp, DecideGate, AddUpStopped, CancelRun, FailRun,
                Heard
  <2> QED
    BY <1>6, <2>1, <2>2
<1>9. ASSUME NEW r \in Runs, ScopeCancelled(r) \/ RunActivityFails(r) PROVE Rows'
  <2>1. \E pc \in WfPcs \ {"none"} : WfGoto(r, pc)
    BY <1>9 DEF ScopeCancelled, RunActivityFails, WfPcs
  <2>2. wf[r] # "none" /\ UNCHANGED creator
    BY <1>9 DEF ScopeCancelled, RunActivityFails, Heard
  <2>3. UNCHANGED late \/ \E name, c : Late(r, name, c)
    BY <1>9 DEF ScopeCancelled, RunActivityFails
  <2> QED
    BY <1>6, <2>1, <2>2, <2>3
<1>10. ASSUME NEW r \in Runs, NEW c \in Cases,
              CaseStep(r, c) \/ CaseActivityFails(r, c) \/ CaseTimesOut(r, c)
       PROVE  Rows'
  <2>1. UNCHANGED <<creator, wf>> /\ wf[r] # "none"
    BY <1>10 DEF CaseStep, PrepareCase, AgentEnds, WriteResult, CaseCancelled,
                 CaseActivityFails, CaseTimesOut, CaseUnchanged, Open
  <2>2. UNCHANGED late \/ \E name \in {"score", "record"} : Late(r, name, c)
    BY <1>10 DEF CaseStep, PrepareCase, AgentEnds, WriteResult, CaseCancelled,
                 CaseActivityFails, CaseTimesOut
  <2> QED
    BY <1>1, <2>1, <2>2 DEF Late, TypeOK
<1>11. CASE PublishPolicy \/ Override \/ OverrideExpires \/ Publish
  BY <1>1, <1>11 DEF PublishPolicy, Override, OverrideExpires, Publish, GateUnchanged
<1> QED
  BY <1>2, <1>3, <1>4, <1>5, <1>7, <1>8, <1>9, <1>10, <1>11 DEF Next, RunStep, CreatorStep

\* The workflow closes on what the call that reports the run returned.
LEMMA ClosedStep ==
  ASSUME TypeOK, Rows, ClosedRunReported, Next PROVE ClosedRunReported'
<1>1. ASSUME \A r \in Runs : wf'[r] = "closed" => wf[r] = "closed" \/ run'[r] \in Terminal
      PROVE  ClosedRunReported'
  BY <1>1, Final DEF ClosedRunReported
<1>2. ASSUME NEW r \in Runs, NEW pc, WfGoto(r, pc), pc # "closed" \/ run'[r] \in Terminal
      PROVE  ClosedRunReported'
  BY <1>1, <1>2 DEF WfGoto, TypeOK
<1>3. ASSUME NEW r \in Runs, CompleteRun(r) PROVE ClosedRunReported'
  <2>1. PICK pc : WfGoto(r, pc) /\ (pc = "closed" => run'[r] = "completed")
    BY <1>3 DEF CompleteRun
  <2> QED
    BY <1>2, <2>1 DEF Terminal
<1>4. ASSUME NEW r \in Runs, CancelRun(r) \/ FailRun(r) PROVE ClosedRunReported'
  <2>1. run[r] \in RunStatus /\ run[r] # "none"
    BY <1>4 DEF TypeOK, Rows, CancelRun, FailRun, Heard
  <2>2. run'[r] \in {Cancelled(run[r]), Failed(run[r])}
    BY <1>4 DEF TypeOK, CancelRun, FailRun, SetRun
  <2>3. run'[r] \in Terminal
    BY <2>1, <2>2 DEF Cancelled, Failed, RunStatus, Terminal
  <2> QED
    BY <1>2, <1>4, <2>3 DEF CancelRun, FailRun
<1>5. ASSUME NEW r \in Runs, MarkRunning(r) PROVE ClosedRunReported'
  <2>1. \E pc : WfGoto(r, pc) /\ pc # "closed"
    BY <1>5 DEF MarkRunning
  <2> QED
    BY <1>2, <2>1
<1>6. ASSUME NEW r \in Runs,
             \/ StartWorkflow(r) \/ CasesJoined(r) \/ CaseRejected(r) \/ AddUp(r)
             \/ DecideGate(r) \/ AddUpStopped(r) \/ ScopeCancelled(r) \/ RunActivityFails(r)
      PROVE  ClosedRunReported'
  <2>1. UNCHANGED wf \/ \E pc : WfGoto(r, pc) /\ pc # "closed"
    BY <1>6 DEF StartWorkflow, CasesJoined, CaseRejected, AddUp, DecideGate, AddUpStopped,
                ScopeCancelled, RunActivityFails, WfGoto
  <2> QED
    BY <1>1, <1>2, <2>1
<1>7. ASSUME NEW r \in Runs,
             \/ CreateRow(r) \/ FailStart(r) \/ CreatorDies(r) \/ RequestCancel(r)
             \/ AskTemporal(r) \/ StartBatch(r) \/ LateEffect(r)
      PROVE  ClosedRunReported'
  BY <1>1, <1>7 DEF CreateRow, FailStart, CreatorDies, RequestCancel, AskTemporal, StartBatch,
                    LateEffect
<1>8. ASSUME NEW r \in Runs, NEW c \in Cases,
             CaseStep(r, c) \/ CaseActivityFails(r, c) \/ CaseTimesOut(r, c)
      PROVE  ClosedRunReported'
  BY <1>1, <1>8 DEF CaseStep, PrepareCase, AgentEnds, WriteResult, CaseCancelled,
                    CaseActivityFails, CaseTimesOut, CaseUnchanged
<1>9. CASE PublishPolicy \/ Override \/ OverrideExpires \/ Publish
  BY <1>1, <1>9 DEF PublishPolicy, Override, OverrideExpires, Publish, GateUnchanged
<1> QED
  BY <1>3, <1>4, <1>5, <1>6, <1>7, <1>8, <1>9 DEF Next, RunStep, CreatorStep

-----------------------------------------------------------------------------
\* A case that is done stays done, and keeps a score.
DoneKept ==
  \A r \in Runs, c \in Cases :
    /\ case[r][c] = "done" => case'[r][c] = "done"
    /\ case'[r][c] = "done" => case[r][c] = "done" \/ result'[r][c] \in Scored
    /\ case[r][c] = "done" => result'[r][c] \in Scored \cup {result[r][c]}

LEMMA Closes ==
  ASSUME TypeOK, NEW r \in Runs, CloseCases(r), UNCHANGED result PROVE DoneKept
BY DEF TypeOK, CloseCases, CaseOver, DoneKept

LEMMA Goes ==
  ASSUME TypeOK, NEW r \in Runs, NEW c \in Cases, NEW pc, CaseGoto(r, c, pc),
         case[r][c] # "done",
         \/ pc # "done" /\ UNCHANGED result
         \/ \E v : /\ result' = [result EXCEPT ![r][c] = v]
                   /\ pc # "done" \/ v \in Scored
  PROVE  DoneKept
BY DEF TypeOK, CaseGoto, DoneKept

LEMMA DoneStep == ASSUME TypeOK, Next PROVE DoneKept
<1>1. ASSUME UNCHANGED <<case, result>> PROVE DoneKept
  BY <1>1 DEF DoneKept
<1>2. ASSUME NEW r \in Runs, StartBatch(r) PROVE DoneKept
  <2>1. PICK batch \in SUBSET {c \in Cases : case[r][c] = "idle"} :
          case' = [case EXCEPT ![r] = [c \in Cases |-> IF c \in batch THEN "setup" ELSE case[r][c]]]
    BY <1>2 DEF StartBatch
  <2> QED
    BY <1>2, <2>1 DEF StartBatch, rows, TypeOK, DoneKept
<1>3. ASSUME NEW r \in Runs, CancelRun(r) \/ FailRun(r) PROVE DoneKept
  BY <1>3, Closes DEF CancelRun, FailRun, rows
<1>4. ASSUME NEW r \in Runs, ScopeCancelled(r) \/ RunActivityFails(r) PROVE DoneKept
  <2>1. UNCHANGED case \/ CloseCases(r)
    BY <1>4 DEF ScopeCancelled, RunActivityFails
  <2>2. UNCHANGED result
    BY <1>4 DEF ScopeCancelled, RunActivityFails, rows
  <2> QED
    BY <1>1, <2>1, <2>2, Closes
<1>5. ASSUME NEW r \in Runs, NEW c \in Cases, WriteResult(r, c) PROVE DoneKept
  <2>1. PICK v, pc :
          /\ result' = [result EXCEPT ![r][c] = v] /\ CaseGoto(r, c, pc)
          /\ pc # "done" \/ v \in Scored
    <3>1. CASE case[r][c] = "score"
      BY <1>5, <3>1 DEF WriteResult
    <3>2. CASE case[r][c] = "record"
      BY <1>5, <3>2 DEF WriteResult, Scored
    <3>3. CASE case[r][c] = "recordCancel"
      BY <1>5, <3>3 DEF WriteResult
    <3> QED
      BY <1>5, <3>1, <3>2, <3>3 DEF WriteResult
  <2>2. case[r][c] # "done"
    BY <1>5 DEF WriteResult
  <2> QED
    BY <2>1, <2>2, Goes
<1>6. ASSUME NEW r \in Runs, NEW c \in Cases,
             PrepareCase(r, c) \/ AgentEnds(r, c) \/ CaseCancelled(r, c) \/ CaseTimesOut(r, c)
      PROVE  DoneKept
  <2>1. case[r][c] # "done" /\ UNCHANGED result /\ \E pc : CaseGoto(r, c, pc) /\ pc # "done"
    BY <1>6 DEF PrepareCase, AgentEnds, CaseCancelled, CaseTimesOut, CaseOver
  <2> QED
    BY <2>1, Goes
<1>7. ASSUME NEW r \in Runs, NEW c \in Cases, CaseActivityFails(r, c) PROVE DoneKept
  <2>1. UNCHANGED result
    BY <1>7 DEF CaseActivityFails
  <2>2. \/ UNCHANGED case
        \/ case[r][c] # "done" /\ \E pc : CaseGoto(r, c, pc) /\ pc # "done"
    BY <1>7 DEF CaseActivityFails, CaseGoto
  <2> QED
    BY <1>1, <2>1, <2>2, Goes
<1>8. ASSUME NEW r \in Runs, LateEffect(r) PROVE DoneKept
  <2>1. PICK call \in late[r] :
          /\ UNCHANGED case
          /\ CASE call.name = "score" ->
                    \E verdict \in Scored : result' = [result EXCEPT ![r][call.case] = verdict]
               [] call.name = "record" -> result' = [result EXCEPT ![r][call.case] = "violated"]
               [] OTHER -> UNCHANGED result
    BY <1>8 DEF LateEffect
  <2>2. UNCHANGED result \/ \E v \in Scored : result' = [result EXCEPT ![r][call.case] = v]
    BY <2>1 DEF Scored
  <2> QED
    BY <2>1, <2>2 DEF DoneKept, TypeOK
<1>9. ASSUME NEW r \in Runs,
             \/ CreateRow(r) \/ CreatorStep(r) \/ CreatorDies(r) \/ RequestCancel(r)
             \/ AskTemporal(r) \/ MarkRunning(r) \/ CasesJoined(r) \/ CaseRejected(r)
             \/ AddUp(r) \/ DecideGate(r) \/ CompleteRun(r) \/ AddUpStopped(r)
      PROVE  DoneKept
  BY <1>1, <1>9 DEF CreateRow, CreatorStep, StartWorkflow, FailStart, CreatorDies,
                    RequestCancel, AskTemporal, MarkRunning, CasesJoined, CaseRejected, AddUp,
                    DecideGate, CompleteRun, AddUpStopped, rows
<1>10. CASE PublishPolicy \/ Override \/ OverrideExpires \/ Publish
  BY <1>1, <1>10 DEF PublishPolicy, Override, OverrideExpires, Publish, GateUnchanged
<1>11. ASSUME NEW r \in Runs, RunStep(r) PROVE DoneKept
  BY <1>2, <1>3, <1>4, <1>9, <1>11 DEF RunStep
<1>12. ASSUME NEW r \in Runs, NEW c \in Cases, CaseStep(r, c) PROVE DoneKept
  BY <1>5, <1>6, <1>12 DEF CaseStep
<1> QED
  BY <1>4, <1>6, <1>7, <1>8, <1>9, <1>10, <1>11, <1>12 DEF Next

\* The workflow gets to the aggregate when the cases are joined, and only it, or an
\* attempt it made at that time, decides the gate.
Joined ==
  /\ \A r \in Runs :
       wf'[r] \in {"aggregate", "gate", "complete"} =>
         wf[r] \in {"aggregate", "gate", "complete"} \/ Whole(r)
  /\ \A r \in Runs : \A call \in late'[r] :
       call.name = "gate" => call \in late[r] \/ wf[r] = "gate"
  /\ \/ UNCHANGED decision
     \/ \E r \in Runs :
          /\ decision' = DecidedNow(r)
          /\ wf[r] = "gate" \/ \E call \in late[r] : call.name = "gate"

LEMMA LateAdded ==
  ASSUME TypeOK, NEW r \in Runs,
         UNCHANGED late \/ \E name, c : Late(r, name, c) /\ (name = "gate" => wf[r] = "gate")
  PROVE  \A q \in Runs : \A call \in late'[q] :
           call.name = "gate" => call \in late[q] \/ wf[q] = "gate"
<1>1. CASE UNCHANGED late
  BY <1>1
<1>2. CASE \E name, c : Late(r, name, c) /\ (name = "gate" => wf[r] = "gate")
  <2>1. PICK name, c : Late(r, name, c) /\ (name = "gate" => wf[r] = "gate")
    BY <1>2
  <2> DEFINE new == [name |-> name, case |-> c]
  <2>2. /\ late'[r] = late[r] \cup {new}
        /\ \A q \in Runs \ {r} : late'[q] = late[q]
    BY <2>1 DEF Late, TypeOK
  <2>3. new.name = name
    OBVIOUS
  <2> HIDE DEF new
  <2> QED
    BY <2>1, <2>2, <2>3
<1> QED
  BY <1>1, <1>2

LEMMA Moves ==
  ASSUME TypeOK, NEW r \in Runs, UNCHANGED decision, NEW pc, WfGoto(r, pc),
         pc \in {"aggregate", "gate", "complete"} =>
           wf[r] \in {"aggregate", "gate", "complete"} \/ Whole(r),
         UNCHANGED late \/ \E name, c : Late(r, name, c) /\ (name = "gate" => wf[r] = "gate")
  PROVE  Joined
<1>1. \A q \in Runs : wf'[q] = IF q = r THEN pc ELSE wf[q]
  BY DEF TypeOK, WfGoto
<1> QED
  BY <1>1, LateAdded DEF Joined

LEMMA JoinStep == ASSUME TypeOK, Next PROVE Joined
<1>1. ASSUME UNCHANGED <<wf, late, decision>> PROVE Joined
  BY <1>1 DEF Joined
<1>2. ASSUME NEW r \in Runs, StartWorkflow(r) PROVE Joined
  BY <1>1, <1>2, Moves DEF StartWorkflow, WfGoto, rows
<1>3. ASSUME NEW r \in Runs, MarkRunning(r) \/ CompleteRun(r) PROVE Joined
  <2>1. \E pc : WfGoto(r, pc) /\ pc \notin {"aggregate", "gate", "complete"}
    <3>1. CASE MarkRunning(r)
      BY <3>1 DEF MarkRunning
    <3>2. CASE CompleteRun(r)
      BY <3>2 DEF CompleteRun
    <3> QED
      BY <1>3, <3>1, <3>2
  <2> QED
    BY <1>3, <2>1, Moves DEF MarkRunning, CompleteRun, rows
<1>4. ASSUME NEW r \in Runs, CasesJoined(r) \/ CaseRejected(r) PROVE Joined
  BY <1>4, Moves DEF CasesJoined, CaseRejected, Whole, rows
<1>5. ASSUME NEW r \in Runs, AddUp(r) \/ AddUpStopped(r) PROVE Joined
  BY <1>5, Moves DEF AddUp, AddUpStopped, Heard, rows
<1>6. ASSUME NEW r \in Runs, DecideGate(r) PROVE Joined
  BY <1>6 DEF DecideGate, Heard, WfGoto, TypeOK, Joined
<1>7. ASSUME NEW r \in Runs, CancelRun(r) \/ FailRun(r) PROVE Joined
  BY <1>7, Moves DEF CancelRun, FailRun, rows
<1>8. ASSUME NEW r \in Runs, ScopeCancelled(r) \/ RunActivityFails(r) PROVE Joined
  <2>1. \E pc : WfGoto(r, pc) /\ pc \notin {"aggregate", "gate", "complete"}
    BY <1>8 DEF ScopeCancelled, RunActivityFails
  <2>2. UNCHANGED late \/ \E name, c : Late(r, name, c) /\ (name = "gate" => wf[r] = "gate")
    BY <1>8 DEF ScopeCancelled, RunActivityFails
  <2> QED
    BY <1>8, <2>1, <2>2, Moves DEF ScopeCancelled, RunActivityFails, rows
<1>9. ASSUME NEW r \in Runs, LateEffect(r) PROVE Joined
  <2>1. PICK call \in late[r] :
          /\ late' = [late EXCEPT ![r] = @ \ {call}]
          /\ decision' = IF call.name = "gate" THEN DecidedNow(r) ELSE decision
          /\ UNCHANGED wf
    BY <1>9 DEF LateEffect
  <2> QED
    BY <2>1 DEF Joined, TypeOK
<1>10. ASSUME NEW r \in Runs, NEW c \in Cases, CaseActivityFails(r, c) \/ CaseTimesOut(r, c)
       PROVE  Joined
  <2>1. UNCHANGED late \/ \E name \in {"score", "record"} : Late(r, name, c)
    BY <1>10 DEF CaseActivityFails, CaseTimesOut
  <2>2. UNCHANGED <<wf, decision>>
    BY <1>10 DEF CaseActivityFails, CaseTimesOut, CaseUnchanged
  <2> QED
    BY <2>1, <2>2, LateAdded DEF Joined
<1>11. ASSUME NEW r \in Runs, NEW c \in Cases, CaseStep(r, c) PROVE Joined
  BY <1>1, <1>11 DEF CaseStep, PrepareCase, AgentEnds, WriteResult, CaseCancelled, CaseUnchanged
<1>12. ASSUME NEW r \in Runs,
              \/ CreateRow(r) \/ FailStart(r) \/ CreatorDies(r) \/ RequestCancel(r)
              \/ AskTemporal(r) \/ StartBatch(r)
       PROVE  Joined
  BY <1>1, <1>12 DEF CreateRow, FailStart, CreatorDies, RequestCancel, AskTemporal, StartBatch,
                     rows
<1>13. CASE PublishPolicy \/ Override \/ OverrideExpires \/ Publish
  BY <1>1, <1>13 DEF PublishPolicy, Override, OverrideExpires, Publish, GateUnchanged
<1>14. ASSUME NEW r \in Runs, RunStep(r) PROVE Joined
  BY <1>3, <1>4, <1>5, <1>6, <1>7, <1>8, <1>12, <1>14 DEF RunStep
<1> QED
  BY <1>2, <1>8, <1>9, <1>10, <1>11, <1>12, <1>13, <1>14 DEF Next, CreatorStep

LEMMA EvidenceStep == ASSUME TypeOK, Evidence, Next PROVE Evidence'
<1>1. DoneKept /\ Joined
  BY DoneStep, JoinStep
<1>2. \A r \in Runs : Whole(r) => Whole(r)'
  BY <1>1 DEF DoneKept, Whole
<1>3. \A r \in Runs, c \in Cases : case'[r][c] = "done" => result'[r][c] \in Scored
  BY <1>1 DEF DoneKept, Evidence
<1> QED
  BY <1>1, <1>2, <1>3 DEF Joined, Evidence

\* The gate decides on a whole evaluation.
LEMMA DecidedStep ==
  ASSUME TypeOK, Evidence, Decided, Next
  PROVE  /\ Decided'
         /\ \A p \in 1..MaxPolicies : decision[p] # NoDecision => decision'[p] = decision[p]
<1>1. CASE UNCHANGED decision
  BY <1>1 DEF Decided
<1>2. ASSUME NEW r \in Runs, decision' = DecidedNow(r),
             wf[r] = "gate" \/ \E call \in late[r] : call.name = "gate"
      PROVE  /\ Decided'
             /\ \A p \in 1..MaxPolicies : decision[p] # NoDecision => decision'[p] = decision[p]
  <2>1. Aggregate(r).passed + Aggregate(r).failed = Cardinality(Cases)
    <3>1. \A c \in Cases : result[r][c] \in Scored
      BY <1>2 DEF Evidence, Whole
    <3> QED
      BY <3>1, WholeAggregate
  <2>2. CASE policy = 0 \/ decision[policy] # NoDecision
    BY <1>2, <2>2 DEF DecidedNow, Decided
  <2>3. CASE policy # 0 /\ decision[policy] = NoDecision
    <3> DEFINE d == [verdict |-> IF Passes(Aggregate(r)) THEN "passed" ELSE "failed",
                     run |-> r, basis |-> Aggregate(r)]
    <3>1. decision' = [decision EXCEPT ![policy] = d]
      BY <1>2, <2>3 DEF DecidedNow
    <3>2. /\ d.basis.passed + d.basis.failed = Cardinality(Cases)
          /\ d.verdict = "passed" => Passes(d.basis)
      BY <2>1
    <3> HIDE DEF d
    <3>3. \A p \in 1..MaxPolicies : decision'[p] = IF p = policy THEN d ELSE decision[p]
      BY <3>1 DEF TypeOK
    <3> QED
      BY <2>3, <3>2, <3>3 DEF Decided
  <2> QED
    BY <2>2, <2>3
<1> QED
  BY <1>1, <1>2, JoinStep DEF Joined

\* A release rests on the decision and the run it was published on: neither changes.
LEMMA ReleasedStep ==
  ASSUME TypeOK, Rows, Evidence, Decided, Released, Next PROVE Released'
<1>1. CASE UNCHANGED release
  <2> SUFFICES ASSUME release # Unreleased
               PROVE  /\ Fresh(release.policy)'
                      /\ release.overridden \/ decision'[release.policy].verdict = "passed"
    BY <1>1 DEF Released
  <2> DEFINE p == release.policy
  <2>1. p \in 1..MaxPolicies /\ decision[p] # NoDecision /\ run[decision[p].run] = "completed"
    BY DEF TypeOK, Released, Fresh
  <2>2. decision[p].run \in Runs
    BY <2>1 DEF TypeOK, Decisions
  <2>3. decision'[p] = decision[p]
    BY <2>1, DecidedStep
  <2>4. run'[decision[p].run] = "completed"
    BY <2>1, <2>2, Final DEF Terminal
  <2> QED
    BY <1>1, <2>1, <2>3, <2>4 DEF Released, Fresh
<1>2. CASE Publish
  BY <1>2 DEF Publish, GateUnchanged, Released, Fresh, TypeOK
<1>3. ASSUME NEW r \in Runs,
             \/ CreateRow(r) \/ CreatorStep(r) \/ CreatorDies(r) \/ RequestCancel(r)
             \/ AskTemporal(r) \/ RunActivityFails(r) \/ LateEffect(r)
      PROVE  UNCHANGED release
  BY <1>3 DEF CreateRow, CreatorStep, StartWorkflow, FailStart, CreatorDies, RequestCancel,
              AskTemporal, RunActivityFails, LateEffect, rows
<1>4. ASSUME NEW r \in Runs, NEW c \in Cases,
             CaseStep(r, c) \/ CaseActivityFails(r, c) \/ CaseTimesOut(r, c)
      PROVE  UNCHANGED release
  BY <1>4 DEF CaseStep, PrepareCase, AgentEnds, WriteResult, CaseCancelled, CaseActivityFails,
              CaseTimesOut, CaseUnchanged
<1>5. ASSUME NEW r \in Runs, RunStep(r) PROVE UNCHANGED release
  BY <1>5 DEF RunStep, MarkRunning, StartBatch, CasesJoined, CaseRejected, AddUp,
                    DecideGate, CompleteRun, AddUpStopped, CancelRun, FailRun, ScopeCancelled,
                    rows
<1>6. CASE PublishPolicy \/ Override \/ OverrideExpires
  BY <1>1, <1>6 DEF PublishPolicy, Override, OverrideExpires
<1> QED
  BY <1>1, <1>2, <1>3, <1>4, <1>5, <1>6 DEF Next

-----------------------------------------------------------------------------
\* The steps of one run are its own.
ActCase(r, c) == CaseStep(r, c) \/ CaseActivityFails(r, c) \/ CaseTimesOut(r, c)

Act(r) ==
  \/ CreateRow(r) \/ CreatorStep(r) \/ CreatorDies(r) \/ RequestCancel(r) \/ AskTemporal(r)
  \/ RunStep(r) \/ RunActivityFails(r) \/ LateEffect(r)
  \/ \E c \in Cases : ActCase(r, c)

Same(r) ==
  /\ run'[r] = run[r] /\ creator'[r] = creator[r] /\ canceller'[r] = canceller[r]
  /\ wf'[r] = wf[r] /\ asked'[r] = asked[r] /\ case'[r] = case[r]

LEMMA ActOrGate ==
  ASSUME Next
  PROVE  (\E r \in Runs : Act(r)) \/ PublishPolicy \/ Override \/ OverrideExpires \/ Publish
BY DEF Next, Act, ActCase

\* What one run does is no matter to another.
LEMMA OthersSame ==
  ASSUME TypeOK, NEW q \in Runs, Act(q), NEW r \in Runs, r # q
  PROVE  Same(r)
<1>1. run'[r] = run[r]
  <2>1. ASSUME LateEffect(q) PROVE run'[r] = run[r]
    <3>1. PICK call \in late[q] :
            run' = CASE call.name = "complete" -> [run EXCEPT ![q] = Completed(@)]
                     [] call.name = "fail"     -> [run EXCEPT ![q] = Failed(@)]
                     [] call.name = "stop"     -> [run EXCEPT ![q] = Cancelled(@)]
                     [] OTHER -> run
      BY <2>1 DEF LateEffect
    <3> QED
      BY <3>1 DEF TypeOK
  <2>2. ASSUME MarkRunning(q) \/ CompleteRun(q) PROVE run'[r] = run[r]
    BY <2>2 DEF MarkRunning, CompleteRun, SetRun, TypeOK
  <2> QED
    BY <2>1, <2>2
    DEF Act, ActCase, TypeOK, CreateRow, CreatorStep, StartWorkflow, FailStart, CreatorDies,
        RequestCancel, AskTemporal, RunStep, StartBatch, CasesJoined, CaseRejected, AddUp,
        DecideGate, AddUpStopped, CancelRun, FailRun, ScopeCancelled, RunActivityFails,
        CaseStep, PrepareCase, AgentEnds, WriteResult, CaseCancelled, CaseActivityFails,
        CaseTimesOut, CaseUnchanged, SetRun
<1>2. creator'[r] = creator[r] /\ canceller'[r] = canceller[r] /\ asked'[r] = asked[r]
  BY DEF Act, ActCase, TypeOK, CreateRow, CreatorStep, StartWorkflow, FailStart, CreatorDies,
         RequestCancel, AskTemporal, RunStep, StartBatch, CasesJoined, CaseRejected, AddUp,
         DecideGate, AddUpStopped, CancelRun, FailRun, ScopeCancelled, RunActivityFails,
         CaseStep, PrepareCase, AgentEnds, WriteResult, CaseCancelled, CaseActivityFails,
         CaseTimesOut, CaseUnchanged, CreatorGoto, CancellerGoto, MarkRunning, CompleteRun,
         LateEffect
<1>3. wf'[r] = wf[r]
  <2>1. UNCHANGED wf \/ \E pc : WfGoto(q, pc)
    <3>1. ASSUME MarkRunning(q) \/ CompleteRun(q) PROVE \E pc : WfGoto(q, pc)
      BY <3>1 DEF MarkRunning, CompleteRun
    <3>2. ASSUME StartWorkflow(q) PROVE UNCHANGED wf \/ \E pc : WfGoto(q, pc)
      BY <3>2 DEF StartWorkflow, WfGoto
    <3> QED
      BY <3>1, <3>2
      DEF Act, ActCase, CreateRow, CreatorStep, FailStart, CreatorDies, RequestCancel,
          AskTemporal, RunStep, StartBatch, CasesJoined, CaseRejected, AddUp, DecideGate,
          AddUpStopped, CancelRun, FailRun, ScopeCancelled, RunActivityFails, CaseStep,
          PrepareCase, AgentEnds, WriteResult, CaseCancelled, CaseActivityFails, CaseTimesOut,
          CaseUnchanged, LateEffect
  <2> QED
    BY <2>1 DEF WfGoto, TypeOK
<1>4. case'[r] = case[r]
  <2>1. \/ UNCHANGED case \/ CloseCases(q) \/ \E c \in Cases : \E pc : CaseGoto(q, c, pc)
        \/ StartBatch(q)
    BY DEF Act, ActCase, CreateRow, CreatorStep, StartWorkflow, FailStart, CreatorDies,
           RequestCancel, AskTemporal, RunStep, CasesJoined, CaseRejected, AddUp,
           DecideGate, AddUpStopped, CancelRun, FailRun, ScopeCancelled, RunActivityFails,
           CaseStep, PrepareCase, AgentEnds, WriteResult, CaseCancelled, CaseActivityFails,
           CaseTimesOut, MarkRunning, CompleteRun, LateEffect, CaseGoto
  <2> QED
    BY <2>1 DEF CloseCases, CaseGoto, StartBatch, TypeOK
<1> QED
  BY <1>1, <1>2, <1>3, <1>4 DEF Same

LEMMA GateSame ==
  ASSUME PublishPolicy \/ Override \/ OverrideExpires \/ Publish
  PROVE  (\A r \in Runs : Same(r)) /\ UNCHANGED <<faults, cancels>>
BY DEF PublishPolicy, Override, OverrideExpires, Publish, GateUnchanged, Same

\* Faults and cancellations are only counted up.
LEMMA Counts ==
  ASSUME TypeOK, Next
  PROVE  /\ faults \in Nat /\ cancels \in Nat
         /\ faults' = faults \/ faults' = faults + 1
         /\ cancels' = cancels \/ cancels' = cancels + 1
<1>1. faults \in Nat /\ cancels \in Nat
  BY EvaluationAssumption DEF TypeOK
<1>2. ASSUME NEW r \in Runs, Act(r)
      PROVE  /\ faults' = faults \/ faults' = faults + 1
             /\ cancels' = cancels \/ cancels' = cancels + 1
  BY <1>2
  DEF Act, ActCase, CreateRow, CreatorStep, StartWorkflow, FailStart, CreatorDies,
      RequestCancel, AskTemporal, RunStep, StartBatch, CasesJoined, CaseRejected, AddUp,
      DecideGate, AddUpStopped, CancelRun, FailRun, ScopeCancelled, RunActivityFails,
      CaseStep, PrepareCase, AgentEnds, WriteResult, CaseCancelled, CaseActivityFails,
      CaseTimesOut, CaseUnchanged, MarkRunning, CompleteRun, LateEffect, Fault
<1> QED
  BY <1>1, <1>2, ActOrGate, GateSame

\* Where the workflow of a run goes from each of its stages, besides staying there.
Succ(pc) ==
  CASE pc = "none"        -> {"mark"}
    [] pc = "mark"        -> {"cases", "stopTally", "fail", "shieldTally"}
    [] pc = "cases"       -> {"aggregate", "fail", "shieldTally"}
    [] pc = "aggregate"   -> {"gate", "fail", "shieldTally"}
    [] pc = "gate"        -> {"complete", "fail", "shieldTally"}
    [] pc = "complete"    -> {"closed", "stop", "fail", "shieldTally"}
    [] pc = "stopTally"   -> {"stop", "fail", "shieldTally"}
    [] pc = "stop"        -> {"closed", "fail", "shieldTally"}
    [] pc = "shieldTally" -> {"shield"}
    [] pc \in {"shield", "fail"} -> {"closed", "swallowed"}
    [] OTHER -> {}

LEMMA Succession ==
  /\ Succ("none") = {"mark"}
  /\ Succ("mark") = {"cases", "stopTally", "fail", "shieldTally"}
  /\ Succ("cases") = {"aggregate", "fail", "shieldTally"}
  /\ Succ("aggregate") = {"gate", "fail", "shieldTally"}
  /\ Succ("gate") = {"complete", "fail", "shieldTally"}
  /\ Succ("complete") = {"closed", "stop", "fail", "shieldTally"}
  /\ Succ("stopTally") = {"stop", "fail", "shieldTally"}
  /\ Succ("stop") = {"closed", "fail", "shieldTally"}
  /\ Succ("shieldTally") = {"shield"}
  /\ Succ("shield") = {"closed", "swallowed"}
  /\ Succ("fail") = {"closed", "swallowed"}
BY DEF Succ

LEMMA WfGoes ==
  ASSUME TypeOK, NEW r \in Runs, HandsOf(r), Act(r)
  PROVE  /\ wf'[r] = wf[r] \/ wf'[r] \in Succ(wf[r])
         /\ RunStep(r) /\ wf[r] # "cases" => wf'[r] # wf[r]
         /\ wf'[r] # wf[r] => StartWorkflow(r) \/ RunStep(r) \/ RunActivityFails(r)
<1>1. CASE StartWorkflow(r)
  <2>1. creator[r] = "start" /\ wf[r] = "none" /\ wf'[r] \in {"none", "mark"}
    BY <1>1 DEF StartWorkflow, HandsOf, WfGoto, TypeOK
  <2>2. ~RunStep(r)
    BY <2>1 DEF RunStep, MarkRunning, StartBatch, CasesJoined, CaseRejected, AddUp, DecideGate,
                CompleteRun, AddUpStopped, CancelRun, FailRun, ScopeCancelled, Heard
  <2> QED
    BY <1>1, <2>1, <2>2, Succession
<1>2. ASSUME MarkRunning(r) PROVE wf[r] = "mark" /\ wf'[r] \in {"cases", "stopTally", "fail"}
  <2>1. PICK pc \in {"cases", "stopTally", "fail"} : WfGoto(r, pc)
    BY <1>2 DEF MarkRunning
  <2> QED
    BY <1>2, <2>1 DEF MarkRunning, Heard, WfGoto, TypeOK
<1>3. ASSUME CompleteRun(r) PROVE wf[r] = "complete" /\ wf'[r] \in {"closed", "stop", "fail"}
  <2>1. PICK pc \in {"closed", "stop", "fail"} : WfGoto(r, pc)
    BY <1>3 DEF CompleteRun
  <2> QED
    BY <1>3, <2>1 DEF CompleteRun, Heard, WfGoto, TypeOK
<1>4. ASSUME StartBatch(r) PROVE wf[r] = "cases" /\ wf'[r] = "cases"
  BY <1>4 DEF StartBatch, Heard
<1>5. ASSUME CasesJoined(r) \/ CaseRejected(r)
      PROVE  wf[r] = "cases" /\ wf'[r] \in {"aggregate", "fail", "shieldTally"}
  BY <1>5 DEF CasesJoined, CaseRejected, Heard, WfGoto, TypeOK
<1>6. ASSUME AddUp(r) \/ DecideGate(r)
      PROVE  \/ wf[r] = "aggregate" /\ wf'[r] = "gate"
             \/ wf[r] = "gate" /\ wf'[r] = "complete"
  BY <1>6 DEF AddUp, DecideGate, Heard, WfGoto, TypeOK
<1>7. ASSUME AddUpStopped(r)
      PROVE  \/ wf[r] = "stopTally" /\ wf'[r] = "stop"
             \/ wf[r] = "shieldTally" /\ wf'[r] = "shield"
  BY <1>7 DEF AddUpStopped, WfGoto, TypeOK
<1>8. ASSUME CancelRun(r) \/ FailRun(r)
      PROVE  wf[r] \in {"stop", "shield", "fail"} /\ wf'[r] = "closed"
  BY <1>8 DEF CancelRun, FailRun, Heard, WfGoto, TypeOK
<1>9. ASSUME ScopeCancelled(r)
      PROVE  \/ /\ wf[r] \in {"mark", "cases", "aggregate", "gate", "complete", "stopTally", "stop"}
                /\ wf'[r] = "shieldTally"
             \/ wf[r] = "fail" /\ wf'[r] = "swallowed"
  BY <1>9 DEF ScopeCancelled, WfGoto, TypeOK
<1>10. ASSUME RunActivityFails(r)
       PROVE  \/ /\ wf[r] \in {"mark", "aggregate", "gate", "complete", "stopTally", "stop"}
                 /\ wf'[r] = "fail"
              \/ wf[r] = "shieldTally" /\ wf'[r] = "shield"
              \/ wf[r] \in {"shield", "fail"} /\ wf'[r] = "swallowed"
  BY <1>10 DEF RunActivityFails, Heard, WfGoto, TypeOK
<1>11. CASE RunStep(r)
  <2>1. /\ wf'[r] \in Succ(wf[r]) \/ (wf[r] = "cases" /\ wf'[r] = "cases")
        /\ wf[r] # "cases" => wf'[r] # wf[r]
    BY <1>2, <1>3, <1>4, <1>5, <1>6, <1>7, <1>8, <1>9, <1>11, Succession DEF RunStep
  <2> QED
    BY <1>11, <2>1
<1>12. CASE RunActivityFails(r) /\ ~RunStep(r)
  BY <1>10, <1>12, Succession
<1>13. CASE ~RunStep(r) /\ ~RunActivityFails(r) /\ ~StartWorkflow(r)
  BY <1>13
  DEF Act, ActCase, CreateRow, CreatorStep, FailStart, CreatorDies, RequestCancel, AskTemporal,
      CaseStep, PrepareCase, AgentEnds, WriteResult, CaseCancelled, CaseActivityFails,
      CaseTimesOut, CaseUnchanged, LateEffect
<1> QED
  BY <1>1, <1>11, <1>12, <1>13

\* What the request that creates the run does, and what it leaves.
LEMMA CreatorGoes ==
  ASSUME TypeOK, Rows, NEW r \in Runs, HandsOf(r), Act(r)
  PROVE  \/ creator'[r] = creator[r] /\ ~CreatorStep(r)
         \/ creator[r] = "idle" /\ creator'[r] = "start" /\ wf'[r] = wf[r]
         \/ CreatorStep(r) /\ creator'[r] = "done" /\ (wf'[r] = "mark" \/ run'[r] \in Terminal)
         \/ CreatorStep(r) /\ creator[r] = "start" /\ creator'[r] = "fail"
         \/ creator'[r] = "dead" /\ Fault
<1>1. CASE CreateRow(r) \/ CreatorDies(r)
  BY <1>1 DEF CreateRow, CreatorDies, CreatorGoto, TypeOK
<1>2. CASE StartWorkflow(r)
  <2>1. PICK pc \in {"done", "fail"} : CreatorGoto(r, pc) /\ (pc = "done" => WfGoto(r, "mark"))
    BY <1>2 DEF StartWorkflow
  <2> QED
    BY <1>2, <2>1 DEF CreatorStep, StartWorkflow, CreatorGoto, WfGoto, TypeOK
<1>3. CASE FailStart(r)
  <2>1. run[r] \in RunStatus \ {"none"}
    BY <1>3 DEF FailStart, Rows, TypeOK
  <2>2. run'[r] = Failed(run[r]) /\ creator'[r] = "done"
    BY <1>3 DEF FailStart, SetRun, CreatorGoto, TypeOK
  <2> QED
    BY <1>3, <2>1, <2>2 DEF CreatorStep, Failed, Terminal
<1>4. CASE ~CreateRow(r) /\ ~CreatorDies(r) /\ ~StartWorkflow(r) /\ ~FailStart(r)
  <2>1. UNCHANGED creator
    BY <1>4 DEF Act, ActCase, CreatorStep, RequestCancel, AskTemporal, RunStep, StartBatch,
         CasesJoined, CaseRejected, AddUp, DecideGate, AddUpStopped, CancelRun, FailRun,
         ScopeCancelled, RunActivityFails, CaseStep, PrepareCase, AgentEnds, WriteResult,
         CaseCancelled, CaseActivityFails, CaseTimesOut, CaseUnchanged, MarkRunning, CompleteRun,
         LateEffect
  <2> QED
    BY <1>4, <2>1 DEF CreatorStep
<1> QED
  BY <1>1, <1>2, <1>3, <1>4

\* Temporal is asked by a canceller, which was counted.
LEMMA CancelGoes ==
  ASSUME TypeOK, NEW r \in Runs, HandsOf(r), Act(r), Next
  PROVE  canceller'[r] = "ask" \/ asked'[r] => cancels' > 0
<1>1. CASE RequestCancel(r)
  BY <1>1, Counts DEF RequestCancel
<1>2. CASE AskTemporal(r)
  BY <1>2, Counts DEF AskTemporal, HandsOf, CancellerGoto, TypeOK
<1>3. CASE ~RequestCancel(r) /\ ~AskTemporal(r)
  <2>1. UNCHANGED <<canceller, asked>>
    BY <1>3 DEF Act, ActCase, CreateRow, CreatorStep, StartWorkflow, FailStart, CreatorDies,
         RunStep, StartBatch, CasesJoined, CaseRejected, AddUp, DecideGate, AddUpStopped,
         CancelRun, FailRun, ScopeCancelled, RunActivityFails, CaseStep, PrepareCase, AgentEnds,
         WriteResult, CaseCancelled, CaseActivityFails, CaseTimesOut, CaseUnchanged, MarkRunning,
         CompleteRun, LateEffect
  <2> QED
    BY <2>1, Counts DEF HandsOf
<1> QED
  BY <1>1, <1>2, <1>3

\* A case is started by the open workflow of its run, and closed with it.
LEMMA CasesClosed ==
  ASSUME TypeOK, Evidence, NEW r \in Runs, HandsOf(r), Act(r)
  PROVE  \A c \in Cases : CaseUnderWay(r, c)' => Open(r)'
<1>1. ASSUME wf'[r] # wf[r], wf'[r] \in {"closed", "swallowed"}
      PROVE  \A c \in Cases : ~CaseUnderWay(r, c)'
  <2>1. CASE CloseCases(r)
    BY <2>1 DEF CloseCases, CaseUnderWay, CaseOver, TypeOK
  <2>2. CASE CompleteRun(r)
    <3>1. case'[r] = case[r] /\ \A c \in Cases : case[r][c] = "done"
      BY <2>2 DEF CompleteRun, Heard, Evidence, Whole
    <3> QED
      BY <3>1 DEF CaseUnderWay, CaseOver
  <2>3. ASSUME StartWorkflow(r) \/ MarkRunning(r) PROVE FALSE
    <3>1. UNCHANGED wf \/ \E pc : WfGoto(r, pc) /\ pc \notin {"closed", "swallowed"}
      <4>1. CASE StartWorkflow(r)
        BY <4>1 DEF StartWorkflow, WfGoto
      <4>2. CASE MarkRunning(r)
        BY <4>2 DEF MarkRunning
      <4> QED
        BY <2>3, <4>1, <4>2
    <3> QED
      BY <1>1, <3>1 DEF WfGoto, TypeOK
  <2>4. CASE RunStep(r) /\ ~CompleteRun(r) /\ ~MarkRunning(r)
    BY <1>1, <2>1, <2>4
    DEF RunStep, StartBatch, CasesJoined, CaseRejected, AddUp, DecideGate, AddUpStopped,
        CancelRun, FailRun, ScopeCancelled, WfGoto, TypeOK
  <2>5. CASE RunActivityFails(r)
    BY <1>1, <2>1, <2>5 DEF RunActivityFails, WfGoto, TypeOK
  <2> QED
    BY <1>1, <2>2, <2>3, <2>4, <2>5, WfGoes
<1>2. CASE wf'[r] # wf[r] /\ wf'[r] \notin {"closed", "swallowed"}
  <2>1. wf'[r] # "none"
    BY <1>2, WfGoes DEF Succ
  <2> QED
    BY <1>2, <2>1 DEF Open
<1>3. ASSUME wf'[r] = wf[r], ~Open(r) PROVE case'[r] = case[r]
  <2>1. ~RunStep(r)
    BY <1>3 DEF Open, RunStep, MarkRunning, StartBatch, CasesJoined, CaseRejected, AddUp,
       DecideGate, CompleteRun, AddUpStopped, CancelRun, FailRun, ScopeCancelled, Heard
  <2>2. ~RunActivityFails(r)
    BY <1>3 DEF Open, RunActivityFails, Heard
  <2>3. UNCHANGED case
    BY <1>3, <2>1, <2>2
    DEF Act, ActCase, CreateRow, CreatorStep, StartWorkflow, FailStart, CreatorDies,
        RequestCancel, AskTemporal, CaseStep, PrepareCase, AgentEnds, WriteResult,
        CaseCancelled, CaseActivityFails, CaseTimesOut, LateEffect
  <2> QED
    BY <2>3
<1>4. CASE wf'[r] = wf[r]
  BY <1>3, <1>4 DEF HandsOf, CaseUnderWay, Open
<1> QED
  BY <1>1, <1>2, <1>4

LEMMA HandsStep ==
  ASSUME TypeOK, Rows, Evidence, Hands, Next PROVE Hands'
<1> SUFFICES ASSUME NEW r \in Runs PROVE HandsOf(r)'
  BY DEF Hands
<1>1. HandsOf(r)
  BY DEF Hands
<1>2. CASE Same(r)
  <2>1. /\ faults > 0 => faults' > 0
        /\ cancels > 0 => cancels' > 0
    BY Counts
  <2> QED
    BY <1>1, <1>2, <2>1 DEF HandsOf, Same, CaseUnderWay, Open
<1>3. CASE Act(r)
  <2>1. wf[r] # "none" => wf'[r] # "none"
    BY <1>1, <1>3, WfGoes DEF Succ
  <2>2. creator'[r] = "start" => wf'[r] = "none"
    <3>1. ASSUME ~CreatorStep(r), wf[r] = "none" PROVE wf'[r] = "none"
      <4>1. ~RunStep(r) /\ ~RunActivityFails(r)
        BY <3>1 DEF RunStep, MarkRunning, StartBatch, CasesJoined, CaseRejected, AddUp,
           DecideGate, CompleteRun, AddUpStopped, CancelRun, FailRun, ScopeCancelled,
           RunActivityFails, Heard
      <4> QED
        BY <1>1, <1>3, <3>1, <4>1, WfGoes DEF CreatorStep
    <3>2. creator[r] = "idle" /\ creator'[r] = "start" => wf[r] = "none" /\ wf'[r] = "none"
      BY <1>1, <1>3, CreatorGoes DEF Rows, CreatorStep, StartWorkflow, FailStart
    <3>3. creator[r] = "start" /\ creator'[r] = "start" => ~CreatorStep(r) /\ wf[r] = "none"
      BY <1>1, <1>3, CreatorGoes DEF HandsOf
    <3>4. creator'[r] = "start" => creator[r] \in {"idle", "start"}
      BY <1>1, <1>3, CreatorGoes
    <3> QED
      BY <3>1, <3>2, <3>3, <3>4
  <2>3. creator'[r] = "done" => wf'[r] # "none" \/ run'[r] \in Terminal
    BY <1>1, <1>3, <2>1, CreatorGoes, Final DEF HandsOf
  <2>4. creator'[r] = "dead" => faults' > 0
    BY <1>1, <1>3, CreatorGoes, Counts DEF HandsOf, Fault
  <2>5. canceller'[r] = "ask" \/ asked'[r] => cancels' > 0
    BY <1>1, <1>3, CancelGoes
  <2>6. wf'[r] = "swallowed" => faults' > 0 \/ cancels' > 0
    <3>1. CASE wf[r] = "swallowed"
      BY <1>1, <3>1, Counts DEF HandsOf
    <3>2. ASSUME wf[r] # "swallowed", wf'[r] = "swallowed" PROVE faults' > 0 \/ asked[r]
      <4>1. ASSUME StartWorkflow(r) \/ MarkRunning(r) \/ CompleteRun(r) PROVE FALSE
        <5>1. UNCHANGED wf \/ \E pc : WfGoto(r, pc) /\ pc # "swallowed"
          <6>1. CASE StartWorkflow(r)
            BY <6>1 DEF StartWorkflow, WfGoto
          <6>2. CASE MarkRunning(r)
            BY <6>2 DEF MarkRunning
          <6>3. CASE CompleteRun(r)
            BY <6>3 DEF CompleteRun
          <6> QED
            BY <4>1, <6>1, <6>2, <6>3
        <5> QED
          BY <3>2, <5>1 DEF WfGoto, TypeOK
      <4>2. CASE RunStep(r)
        BY <3>2, <4>1, <4>2
        DEF RunStep, StartBatch, CasesJoined, CaseRejected, AddUp, DecideGate, AddUpStopped,
            CancelRun, FailRun, ScopeCancelled, WfGoto, TypeOK
      <4>3. CASE RunActivityFails(r)
        BY <4>3, Counts DEF RunActivityFails, Fault
      <4> QED
        BY <1>1, <1>3, <3>2, <4>1, <4>2, <4>3, WfGoes
    <3> QED
      BY <1>1, <3>1, <3>2, Counts DEF HandsOf
  <2>7. \A c \in Cases : CaseUnderWay(r, c)' => Open(r)'
    BY <1>1, <1>3, CasesClosed
  <2> QED
    BY <2>2, <2>3, <2>4, <2>5, <2>6, <2>7 DEF HandsOf
<1> QED
  BY <1>2, <1>3, ActOrGate, GateSame, OthersSame

LEMMA InvStutter == ASSUME Inv, UNCHANGED vars PROVE Inv'
BY DEF Inv, TypeOK, Rows, Evidence, Whole, Decided, Released, Fresh, ClosedRunReported, Hands,
       HandsOf, CaseUnderWay, Open, vars, rows

LEMMA InvInvariant == Spec => []Inv
<1>1. Inv /\ [Next]_vars => Inv'
  BY TypeStep, RowsStep, EvidenceStep, DecidedStep, ReleasedStep, ClosedStep, HandsStep,
     InvStutter DEF Inv
<1> QED
  BY InitInv, <1>1, PTL DEF Spec

-----------------------------------------------------------------------------
\* The variables keep their types; no tally counts more cases than there are.
THEOREM EvaluationTypes == Spec => []TypeOK
<1>1. Inv => TypeOK
  BY DEF Inv
<1> QED
  BY InvInvariant, <1>1, PTL

\* Whatever is cancelled, times out or comes late, a candidate is published on a
\* completed run that scored every case, and, but for an override, on so many that
\* passed (assertPublishAllowed).
THEOREM PublishedOnEvidence == Spec => []PublishedOnWholeEvidence
<1>1. Inv => PublishedOnWholeEvidence
  <2> SUFFICES ASSUME Inv, release # Unreleased
               PROVE  LET d == decision[release.policy] IN
                      /\ d # NoDecision /\ run[d.run] = "completed"
                      /\ d.basis.passed + d.basis.failed = Cardinality(Cases)
                      /\ ~release.overridden => d.basis.passed * 100 >= MinPassed * Cardinality(Cases)
                      /\ ~release.overridden => d.basis.violated = 0
    BY DEF PublishedOnWholeEvidence
  <2> DEFINE d == decision[release.policy]
  <2>1. release.policy \in 1..MaxPolicies
    BY DEF Inv, TypeOK
  <2>2. d # NoDecision /\ run[d.run] = "completed"
    BY DEF Inv, Released, Fresh
  <2>3. d.basis.passed + d.basis.failed = Cardinality(Cases)
    BY <2>1, <2>2 DEF Inv, Decided
  <2>4. ~release.overridden => Passes(d.basis)
    BY <2>1, <2>2 DEF Inv, Decided, Released
  <2> QED
    BY <2>2, <2>3, <2>4 DEF Passes
<1> QED
  BY InvInvariant, <1>1, PTL

\* A workflow that closed has reported its run (the paths of evaluationRunWorkflow).
THEOREM ClosedReported == Spec => []ClosedRunReported
<1>1. Inv => ClosedRunReported
  BY DEF Inv
<1> QED
  BY InvInvariant, <1>1, PTL

\* What was reported is final, and a run being cancelled is never completed (the guards
\* of EvaluationRunRepository).
THEOREM ReportsAreFinal == Spec => ReportIsFinal
<1>1. Inv /\ [Next]_vars =>
        [\A r \in Runs : /\ run[r] \in Terminal => run'[r] = run[r]
                         /\ run[r] = "cancelling" => run'[r] # "completed"]_vars
  BY Final DEF Inv
<1> QED
  BY InvInvariant, <1>1, PTL DEF Spec, ReportIsFinal

\* A row that is not reported is in somebody's hands, or one of the faults and
\* cancellations that the property names took it out of them.
THEOREM RunsAreAttended == Spec /\ []RunKeepersGoOn => []UnreportedRunIsAttended
<1>1. Inv /\ RunKeepersGoOn => UnreportedRunIsAttended
  <2> SUFFICES ASSUME Inv, NEW r \in Runs, run[r] \notin Terminal \cup {"none"},
                      creator[r] \notin {"start", "fail"}, ~Open(r)
               PROVE  \/ creator[r] = "dead" /\ faults > 0
                      \/ wf[r] = "swallowed" /\ faults + cancels > 0
    BY DEF UnreportedRunIsAttended
  <2>1. HandsOf(r) /\ faults \in Nat /\ cancels \in Nat
    BY EvaluationAssumption DEF Inv, Hands, TypeOK
  <2>2. creator[r] \in {"done", "dead"}
    BY DEF Inv, TypeOK, Rows
  <2>3. wf[r] \in {"none", "swallowed"}
    BY DEF Inv, ClosedRunReported, Open
  <2> QED
    BY <2>1, <2>2, <2>3 DEF HandsOf
<1> QED
  BY <1>1, InvInvariant, PTL

-----------------------------------------------------------------------------
(***************************************************************************)
(* Liveness. The workflow of a run goes through its stages in one          *)
(* direction (Succ), so that each stage is left for a later one, and the   *)
(* last ones for the end. Only the batches are a loop, over the cases that *)
(* are left; that it ends, which takes an induction over them, is a        *)
(* hypothesis here.                                                        *)
(***************************************************************************)
Over(r) == run[r] \in Terminal \/ creator[r] = "dead" \/ wf[r] = "swallowed"

\* The workflow of an existing run is in one of the stages S.
At(r, S) == run[r] # "none" /\ wf[r] \in S

\* The request that creates the run is at step pc, and the workflow not started.
Starts(r, pc) == run[r] # "none" /\ wf[r] = "none" /\ creator[r] = pc

\* What the stages leave open: the cases of a run are over some time. RunEnds implies
\* it, so that where TLC checks RunEnds it checks this.
InBatches(r)  == wf[r] = "cases"
BatchesEnd(r) == (InBatches(r) /\ ~Over(r)) ~> (~InBatches(r) \/ Over(r))

Going(r)      == []Inv /\ [][Next]_vars /\ []RunKeepersGoOn /\ FairRun(r)
Leaves(r, S)  == At(r, S) ~> Over(r)

LEMMA RunMoves ==
  ASSUME Inv, [Next]_vars, NEW r \in Runs
  PROVE  /\ run[r] # "none" => run'[r] # "none"
         /\ \/ wf'[r] = wf[r] /\ (RunStep(r) => wf[r] = "cases")
            \/ wf'[r] \in Succ(wf[r])
         /\ wf[r] = "closed" => Over(r)
<1>0. HandsOf(r) /\ TypeOK /\ Rows
  BY DEF Inv, Hands
<1>1. wf[r] = "closed" => Over(r)
  BY DEF Inv, ClosedRunReported, Over
<1>2. CASE UNCHANGED vars
  <2>1. RunStep(r) => wf[r] = "cases"
    <3>1. ASSUME RunStep(r), wf[r] # "cases" PROVE FALSE
      <4>1. Act(r)
        BY <3>1 DEF Act
      <4> QED
        BY <1>0, <1>2, <3>1, <4>1, WfGoes DEF vars
    <3> QED
      BY <3>1
  <2> QED
    BY <1>1, <1>2, <2>1 DEF vars
<1>3. CASE Next
  <2>1. run[r] # "none" => run'[r] # "none"
    BY <1>0, <1>3, Final
  <2>2. CASE Act(r)
    BY <1>0, <1>1, <2>1, <2>2, WfGoes
  <2>3. CASE Same(r)
    <3>1. ASSUME RunStep(r), wf[r] # "cases" PROVE FALSE
      <4>1. Act(r)
        BY <3>1 DEF Act
      <4> QED
        BY <1>0, <2>3, <3>1, <4>1, WfGoes DEF Same
    <3> QED
      BY <1>1, <2>1, <2>3, <3>1 DEF Same
  <2> QED
    BY <1>0, <1>3, <2>2, <2>3, ActOrGate, GateSame, OthersSame
<1> QED
  BY <1>1, <1>2, <1>3

\* A stage is left for one of those that come after it.
LEMMA StageEnds ==
  ASSUME NEW r \in Runs, NEW pc \in WfPcs \ {"none", "cases", "closed", "swallowed"},
         NEW S, Succ(pc) \subseteq S \cup {"closed", "swallowed"}
  PROVE  Going(r) /\ Leaves(r, S) => Leaves(r, S \cup {pc})
<1>1. At(r, S \cup {pc}) => At(r, S) \/ At(r, {pc})
  BY DEF At
<1>2. Inv /\ Inv' /\ [Next]_vars /\ At(r, {pc})
        => \/ At(r, S)' \/ Over(r)'
           \/ At(r, {pc})' /\ ~RunStep(r)
  <2> SUFFICES ASSUME Inv, Inv', [Next]_vars, At(r, {pc})
               PROVE  \/ At(r, S)' \/ Over(r)'
                      \/ At(r, {pc})' /\ ~RunStep(r)
    OBVIOUS
  <2>1. \/ wf'[r] = pc /\ ~RunStep(r)
        \/ wf'[r] \in S \cup {"closed", "swallowed"}
    BY RunMoves DEF At
  <2>2. wf'[r] = "closed" => run'[r] \in Terminal
    BY DEF Inv, ClosedRunReported
  <2> QED
    BY <2>1, <2>2, RunMoves DEF At, Over
<1>3. RunKeepersGoOn /\ At(r, {pc}) => ENABLED <<RunStep(r)>>_vars
  BY DEF RunKeepersGoOn, At, Open, WfPcs
<1> QED
  BY <1>1, <1>2, <1>3, PTL DEF FairRun, Going, Leaves

\* The batches are left, by hypothesis, for a later stage too.
LEMMA BatchesLeft ==
  ASSUME NEW r \in Runs, NEW S, Succ("cases") \subseteq S
  PROVE  Going(r) /\ BatchesEnd(r) /\ Leaves(r, S) => Leaves(r, S \cup {"cases"})
<1>1. At(r, S \cup {"cases"}) => At(r, S) \/ At(r, {"cases"})
  BY DEF At
<1>2. Inv /\ [Next]_vars /\ At(r, {"cases"}) => At(r, S)' \/ At(r, {"cases"})'
  BY RunMoves DEF At
<1>3. At(r, {"cases"}) => InBatches(r)
  BY DEF At, InBatches
<1> QED
  BY <1>1, <1>2, <1>3, PTL DEF BatchesEnd, Going, Leaves

\* From the end backwards: each stage and all that come after it.
Ended    == {}
Last     == Ended \cup {"shield"}
Shielded == Last \cup {"shieldTally"}
Failing  == Shielded \cup {"fail"}
Stops    == Failing \cup {"stop"}
Stopped  == Stops \cup {"stopTally"}
Reports  == Stopped \cup {"complete"}
Gates    == Reports \cup {"gate"}
Adds     == Gates \cup {"aggregate"}
Batches  == Adds \cup {"cases"}
Marked   == Batches \cup {"mark"}

LEMMA WorkflowEnds ==
  ASSUME NEW r \in Runs
  PROVE  Going(r) /\ BatchesEnd(r) => Leaves(r, Marked)
<1> DEFINE Stage == WfPcs \ {"none", "cases", "closed", "swallowed"}
           Out   == {"closed", "swallowed"}
<1>1. Going(r) /\ BatchesEnd(r) => Leaves(r, Ended)
  <2>1. ~At(r, Ended)
    BY DEF At, Ended
  <2> QED
    BY <2>1, PTL DEF Leaves
<1>2. Going(r) /\ BatchesEnd(r) => Leaves(r, Last)
  <2>1. "shield" \in Stage /\ Succ("shield") \subseteq Ended \cup Out
    BY Succession DEF WfPcs, Ended
  <2> QED
    BY <1>1, <2>1, StageEnds DEF Last
<1>3. Going(r) /\ BatchesEnd(r) => Leaves(r, Shielded)
  <2>1. "shieldTally" \in Stage /\ Succ("shieldTally") \subseteq Last \cup Out
    BY Succession DEF WfPcs, Last, Ended
  <2> QED
    BY <1>2, <2>1, StageEnds DEF Shielded
<1>4. Going(r) /\ BatchesEnd(r) => Leaves(r, Failing)
  <2>1. "fail" \in Stage /\ Succ("fail") \subseteq Shielded \cup Out
    BY Succession DEF WfPcs, Shielded, Last, Ended
  <2> QED
    BY <1>3, <2>1, StageEnds DEF Failing
<1>5. Going(r) /\ BatchesEnd(r) => Leaves(r, Stops)
  <2>1. "stop" \in Stage /\ Succ("stop") \subseteq Failing \cup Out
    BY Succession DEF WfPcs, Failing, Shielded, Last, Ended
  <2> QED
    BY <1>4, <2>1, StageEnds DEF Stops
<1>6. Going(r) /\ BatchesEnd(r) => Leaves(r, Stopped)
  <2>1. "stopTally" \in Stage /\ Succ("stopTally") \subseteq Stops \cup Out
    BY Succession DEF WfPcs, Stops, Failing, Shielded, Last, Ended
  <2> QED
    BY <1>5, <2>1, StageEnds DEF Stopped
<1>7. Going(r) /\ BatchesEnd(r) => Leaves(r, Reports)
  <2>1. "complete" \in Stage /\ Succ("complete") \subseteq Stopped \cup Out
    BY Succession DEF WfPcs, Stopped, Stops, Failing, Shielded, Last, Ended
  <2> QED
    BY <1>6, <2>1, StageEnds DEF Reports
<1>8. Going(r) /\ BatchesEnd(r) => Leaves(r, Gates)
  <2>1. "gate" \in Stage /\ Succ("gate") \subseteq Reports \cup Out
    BY Succession DEF WfPcs, Reports, Stopped, Stops, Failing, Shielded, Last, Ended
  <2> QED
    BY <1>7, <2>1, StageEnds DEF Gates
<1>9. Going(r) /\ BatchesEnd(r) => Leaves(r, Adds)
  <2>1. "aggregate" \in Stage /\ Succ("aggregate") \subseteq Gates \cup Out
    BY Succession DEF WfPcs, Gates, Reports, Stopped, Stops, Failing, Shielded, Last, Ended
  <2> QED
    BY <1>8, <2>1, StageEnds DEF Adds
<1>10. Going(r) /\ BatchesEnd(r) => Leaves(r, Batches)
  <2>1. Succ("cases") \subseteq Adds
    BY Succession DEF Adds, Gates, Reports, Stopped, Stops, Failing, Shielded
  <2> QED
    BY <1>9, <2>1, BatchesLeft DEF Batches
<1> QED
  <2>1. "mark" \in Stage /\ Succ("mark") \subseteq Batches \cup Out
    BY Succession DEF WfPcs, Batches, Adds, Gates, Reports, Stopped, Stops, Failing, Shielded
  <2> QED
    BY <1>10, <2>1, StageEnds DEF Marked

\* The request starts the workflow, or reports the run itself, or dies.
LEMMA CreatorMoves ==
  ASSUME Inv, [Next]_vars, NEW r \in Runs
  PROVE  /\ Starts(r, "start") => \/ At(r, Marked)' \/ Starts(r, "fail")' \/ Over(r)'
                                  \/ Starts(r, "start")' /\ ~CreatorStep(r)
         /\ Starts(r, "fail") => \/ At(r, Marked)' \/ Over(r)'
                                 \/ Starts(r, "fail")' /\ ~CreatorStep(r)
<1>0. HandsOf(r) /\ TypeOK /\ Rows
  BY DEF Inv, Hands
<1>1. wf[r] = "none" => wf'[r] \in {"none", "mark"}
  BY RunMoves, Succession
<1>2. run[r] # "none" => run'[r] # "none"
  BY RunMoves
<1>3. "mark" \in Marked
  BY DEF Marked
<1>4. CASE Act(r)
  BY <1>0, <1>1, <1>2, <1>3, <1>4, CreatorGoes DEF Starts, At, Over
<1>5. CASE Same(r)
  <2>1. creator[r] \in {"start", "fail"} => ~CreatorStep(r)
    <3>1. ASSUME creator[r] \in {"start", "fail"}, CreatorStep(r) PROVE FALSE
      <4>1. Act(r)
        BY <3>1 DEF Act
      <4> QED
        BY <1>0, <1>5, <3>1, <4>1, CreatorGoes DEF Same, HandsOf
    <3> QED
      BY <3>1
  <2> QED
    BY <1>2, <1>5, <2>1 DEF Same, Starts
<1>6. UNCHANGED vars => Same(r)
  BY DEF vars, Same
<1> QED
  BY <1>0, <1>4, <1>5, <1>6, ActOrGate, GateSame, OthersSame

\* Every run that was created is reported, but for those that were lost on the way, if
\* its cases come to an end (see the head of this part) and whoever has a next step
\* can take it (RunKeepersGoOn, about ENABLED, is left to TLC).
THEOREM RunsEnd ==
  /\ Spec /\ Fairness /\ []RunKeepersGoOn
  /\ \A r \in Runs : BatchesEnd(r)
  => RunEnds
<1>1. ASSUME NEW r \in Runs
      PROVE  /\ Going(r) /\ FairCreator(r) /\ Leaves(r, Marked)
             => ((run[r] # "none")
                   ~> (run[r] \in Terminal \/ creator[r] = "dead" \/ wf[r] = "swallowed"))
  <2>1. Inv /\ run[r] # "none"
          => \/ At(r, Marked) \/ Over(r) \/ Starts(r, "start") \/ Starts(r, "fail")
    BY DEF Inv, TypeOK, WfPcs, Rows, Hands, HandsOf, ClosedRunReported, At, Over, Starts, Marked,
           Batches, Adds, Gates, Reports, Stopped, Stops, Failing, Shielded, Last, Ended
  <2>2. Inv /\ [Next]_vars /\ Starts(r, "start")
          => \/ At(r, Marked)' \/ Starts(r, "fail")' \/ Over(r)'
             \/ Starts(r, "start")' /\ ~CreatorStep(r)
    BY CreatorMoves
  <2>3. Inv /\ [Next]_vars /\ Starts(r, "fail")
          => \/ At(r, Marked)' \/ Over(r)'
             \/ Starts(r, "fail")' /\ ~CreatorStep(r)
    BY CreatorMoves
  <2>4. RunKeepersGoOn /\ (Starts(r, "start") \/ Starts(r, "fail"))
          => ENABLED <<CreatorStep(r)>>_vars
    BY DEF RunKeepersGoOn, Starts
  <2>5. Over(r) => run[r] \in Terminal \/ creator[r] = "dead" \/ wf[r] = "swallowed"
    BY DEF Over
  <2> QED
    BY <2>1, <2>2, <2>3, <2>4, <2>5, PTL DEF Going, Leaves, FairCreator
<1>2. ASSUME NEW r \in Runs
      PROVE  /\ Spec /\ FairRun(r) /\ FairCreator(r) /\ []RunKeepersGoOn /\ BatchesEnd(r)
             => ((run[r] # "none")
                   ~> (run[r] \in Terminal \/ creator[r] = "dead" \/ wf[r] = "swallowed"))
  <2>1. Spec /\ FairRun(r) /\ []RunKeepersGoOn => Going(r)
    BY InvInvariant, PTL DEF Spec, Going
  <2> QED
    BY <1>1, <2>1, WorkflowEnds
<1> QED
  BY <1>2 DEF Fairness, RunEnds

-----------------------------------------------------------------------------
\* Where a case goes from each of its stages, besides staying there.
CaseSucc(pc) ==
  CASE pc = "setup"        -> {"agent"} \cup CaseOver
    [] pc = "agent"        -> {"score", "record", "recordCancel"} \cup CaseOver
    [] pc = "score"        -> {"record", "recordCancel"} \cup CaseOver
    [] pc \in {"record", "recordCancel"} -> CaseOver
    [] OTHER -> {}

LEMMA CaseSteps ==
  ASSUME TypeOK, NEW r \in Runs, NEW c \in Cases,
         CaseStep(r, c) \/ CaseActivityFails(r, c) \/ CaseTimesOut(r, c)
  PROVE  /\ \/ case'[r][c] \in CaseSucc(case[r][c])
            \/ case'[r][c] = case[r][c] /\ ~CaseStep(r, c)
         /\ \A d \in Cases \ {c} : case'[r][d] = case[r][d]
<1> DEFINE Moved(pc) == case'[r][c] = pc /\ \A d \in Cases \ {c} : case'[r][d] = case[r][d]
<1>1. ASSUME NEW pc, CaseGoto(r, c, pc) PROVE Moved(pc)
  BY <1>1 DEF CaseGoto, TypeOK
<1>2. CASE PrepareCase(r, c) \/ AgentEnds(r, c) \/ CaseCancelled(r, c)
  <2>1. \E pc \in CaseSucc(case[r][c]) : CaseGoto(r, c, pc)
    BY <1>2 DEF PrepareCase, AgentEnds, CaseCancelled, CaseSucc, CaseOver
  <2> QED
    BY <1>1, <2>1
<1>3. CASE WriteResult(r, c)
  <2>1. \E pc \in CaseSucc(case[r][c]) : CaseGoto(r, c, pc)
    <3>1. CASE case[r][c] = "score"
      BY <1>3, <3>1 DEF WriteResult, CaseSucc, CaseOver
    <3>2. CASE case[r][c] = "record"
      BY <1>3, <3>2 DEF WriteResult, CaseSucc, CaseOver
    <3>3. CASE case[r][c] = "recordCancel"
      BY <1>3, <3>3 DEF WriteResult, CaseSucc, CaseOver
    <3> QED
      BY <1>3, <3>1, <3>2, <3>3 DEF WriteResult
  <2> QED
    BY <1>1, <2>1
<1>4. CASE CaseTimesOut(r, c)
  <2>1. CaseGoto(r, c, "error") /\ case[r][c] \in CasePcs \ (CaseOver \cup {"idle"})
    BY <1>4 DEF CaseTimesOut, TypeOK
  <2>2. "error" \in CaseSucc(case[r][c])
    BY <2>1 DEF CaseSucc, CaseOver, CasePcs
  <2> QED
    BY <1>1, <2>1, <2>2
<1>5. CASE CaseActivityFails(r, c) /\ ~CaseStep(r, c)
  <2>1. \/ UNCHANGED case
        \/ \E pc \in CaseSucc(case[r][c]) : CaseGoto(r, c, pc)
    BY <1>5 DEF CaseActivityFails, CaseGoto, CaseSucc, CaseOver
  <2> QED
    BY <1>1, <1>5, <2>1
<1> QED
  BY <1>2, <1>3, <1>4, <1>5 DEF CaseStep

LEMMA CaseMovesOn ==
  ASSUME Inv, [Next]_vars, NEW r \in Runs, NEW c \in Cases, CaseUnderWay(r, c)
  PROVE  \/ case'[r][c] \in CaseSucc(case[r][c]) \cup CaseOver
         \/ case'[r][c] = case[r][c] /\ ~CaseStep(r, c)
<1>0. TypeOK
  BY DEF Inv
<1>1. CaseStep(r, c) => case'[r][c] \in CaseSucc(case[r][c])
  BY <1>0, CaseSteps
<1>2. ASSUME NEW d \in Cases, ActCase(r, d)
      PROVE  case'[r][c] \in CaseSucc(case[r][c]) \cup {case[r][c]}
  BY <1>0, <1>2, CaseSteps DEF ActCase
<1>3. CASE Act(r)
  <2>1. ~StartBatch(r)
    BY DEF StartBatch, CaseUnderWay, CaseOver
  <2>2. CASE CloseCases(r)
    BY <1>0, <2>2 DEF CloseCases, CaseUnderWay, CaseOver, TypeOK
  <2>3. \/ UNCHANGED case \/ CloseCases(r) \/ \E d \in Cases : ActCase(r, d)
    BY <1>3, <2>1
    DEF Act, CreateRow, CreatorStep, StartWorkflow, FailStart, CreatorDies, RequestCancel,
        AskTemporal, RunStep, MarkRunning, CasesJoined, CaseRejected, AddUp, DecideGate,
        CompleteRun, AddUpStopped, CancelRun, FailRun, ScopeCancelled, RunActivityFails,
        LateEffect
  <2> QED
    BY <1>1, <1>2, <2>2, <2>3
<1>4. CASE Same(r)
  BY <1>1, <1>4 DEF Same
<1>5. UNCHANGED vars => Same(r)
  BY DEF vars, Same
<1> QED
  BY <1>0, <1>3, <1>4, <1>5, ActOrGate, GateSame, OthersSame

CaseAt(r, c, pc) == case[r][c] = pc
CaseIsOver(r, c) == case[r][c] \in CaseOver

\* Every case that was started is over some time, with its workflow or with the run's
\* (evaluationCaseWorkflow; nothing in it waits for the other cases).
THEOREM CasesEnd ==
  Spec /\ Fairness /\ []RunKeepersGoOn =>
    \A r \in Runs, c \in Cases : CaseUnderWay(r, c) ~> CaseIsOver(r, c)
<1>1. ASSUME NEW r \in Runs, NEW c \in Cases
      PROVE  Spec /\ FairCase(r, c) /\ []RunKeepersGoOn => (CaseUnderWay(r, c) ~> CaseIsOver(r, c))
  <2> USE DEF CaseAt, CaseIsOver
  <2>1. Inv /\ CaseUnderWay(r, c)
          => \/ CaseAt(r, c, "setup") \/ CaseAt(r, c, "agent") \/ CaseAt(r, c, "score")
             \/ CaseAt(r, c, "record") \/ CaseAt(r, c, "recordCancel")
    BY DEF Inv, TypeOK, CasePcs, CaseUnderWay, CaseOver
  <2>2. ASSUME NEW pc \in {"setup", "agent", "score", "record", "recordCancel"}
        PROVE  CaseAt(r, c, pc) => CaseUnderWay(r, c)
    BY DEF CaseUnderWay, CaseOver
  <2>3. Inv /\ [Next]_vars /\ CaseAt(r, c, "setup")
          => \/ CaseAt(r, c, "agent")' \/ CaseIsOver(r, c)'
             \/ CaseAt(r, c, "setup")' /\ ~CaseStep(r, c)
    BY <2>2, CaseMovesOn DEF CaseSucc
  <2>4. Inv /\ [Next]_vars /\ CaseAt(r, c, "agent")
          => \/ CaseAt(r, c, "score")' \/ CaseAt(r, c, "record")'
             \/ CaseAt(r, c, "recordCancel")' \/ CaseIsOver(r, c)'
             \/ CaseAt(r, c, "agent")' /\ ~CaseStep(r, c)
    BY <2>2, CaseMovesOn DEF CaseSucc
  <2>5. Inv /\ [Next]_vars /\ CaseAt(r, c, "score")
          => \/ CaseAt(r, c, "record")' \/ CaseAt(r, c, "recordCancel")'
             \/ CaseIsOver(r, c)'
             \/ CaseAt(r, c, "score")' /\ ~CaseStep(r, c)
    BY <2>2, CaseMovesOn DEF CaseSucc
  <2>6. Inv /\ [Next]_vars /\ CaseAt(r, c, "record")
          => CaseIsOver(r, c)' \/ (CaseAt(r, c, "record")' /\ ~CaseStep(r, c))
    BY <2>2, CaseMovesOn DEF CaseSucc
  <2>7. Inv /\ [Next]_vars /\ CaseAt(r, c, "recordCancel")
          => CaseIsOver(r, c)' \/ (CaseAt(r, c, "recordCancel")' /\ ~CaseStep(r, c))
    BY <2>2, CaseMovesOn DEF CaseSucc
  <2>8. RunKeepersGoOn
        /\ \/ CaseAt(r, c, "setup") \/ CaseAt(r, c, "agent") \/ CaseAt(r, c, "score")
           \/ CaseAt(r, c, "record") \/ CaseAt(r, c, "recordCancel")
          => ENABLED <<CaseStep(r, c)>>_vars
    BY <2>2 DEF RunKeepersGoOn
  <2> HIDE DEF CaseAt, CaseIsOver
  <2> QED
    BY <2>1, <2>3, <2>4, <2>5, <2>6, <2>7, <2>8, InvInvariant, PTL DEF Spec, FairCase
<1> QED
  BY <1>1 DEF Fairness
=============================================================================
