---------------------------- MODULE EvaluationRun ----------------------------
(***************************************************************************)
(* Evaluation runs of one release candidate, and the publish gate they     *)
(* decide.                                                                 *)
(*                                                                         *)
(* A request creates the evaluation_run row and starts the workflow. The   *)
(* workflow evaluates the cases of the dataset in batches of child         *)
(* workflows, each leaving one evaluation_case_result row, adds them up,   *)
(* writes the gate decision and reports the run. Another request may       *)
(* cancel it at any time: it marks the row first and asks Temporal after.  *)
(* The registry publishes the candidate when the gate lets it.             *)
(***************************************************************************)
EXTENDS Naturals, FiniteSets

CONSTANTS
  Runs, Cases,
  Width,        \* [Runs -> EVALUATION_MAX_CONCURRENT_CASES the run was loaded with]
  MinPassed,    \* thresholds.minimum_pass_rate, in percent
  AllowOverride,\* allow_override of the gate policy
  MaxPolicies,  \* bound: versions of the gate policy
  MaxCancels,   \* bound: cancel requests
  MaxFaults     \* bound: activities that give up, attempts that outlive their
                \*   timeout, processes that die

ASSUME EvaluationAssumption ==
  /\ Width \in [Runs -> Nat \ {0}]
  /\ IsFiniteSet(Cases)
  /\ {MinPassed, MaxPolicies, MaxCancels, MaxFaults} \subseteq Nat
  /\ AllowOverride \in BOOLEAN

VARIABLES
  run,       \* evaluation_run.status, "none" without a row
  result,    \* evaluation_case_result.status of each run and case
  creator,   \* program counter of the request that creates the run
  canceller, \* program counter of the request that cancels it
  wf,        \* program counter of evaluationRunWorkflow
  asked,     \* whether Temporal was asked to cancel the workflow
  tally,     \* the aggregate the workflow holds
  case,      \* program counter of each evaluationCaseWorkflow
  late,      \* activities whose result nobody waits for any more
  policy,    \* latest published version of the gate policy, 0 for none
  decision,  \* evaluation_gate_decision of the candidate, by policy version
  override,  \* policy versions whose decision has an active override
  release,   \* how the candidate was published
  cancels, faults

rows == <<result, policy, decision, override, release>>
vars == <<run, creator, canceller, wf, asked, tally, case, late, cancels, faults, rows>>

Terminal  == {"completed", "failed", "cancelled"}
RunStatus == {"none", "queued", "running", "cancelling"} \cup Terminal
\* "violated" is a failed hard gate, a failed or system_error row the aggregate
\* counts as failed.
Scored   == {"passed", "failed", "violated"}
Verdicts == Scored \cup {"cancelled"}
WfPcs    == {"none", "mark", "cases", "aggregate", "gate", "complete", "stopTally", "stop",
             "shieldTally", "shield", "fail", "closed", "swallowed"}
CasePcs  == {"idle", "setup", "agent", "score", "record", "recordCancel",
             "done", "cancelled", "error", "terminated"}
CaseOver == {"done", "cancelled", "error", "terminated"}
LateCalls == [name : {"gate", "complete", "fail", "stop"}, case : {"-"}]
               \cup [name : {"score", "record"}, case : Cases]

NoTally    == [passed |-> 0, failed |-> 0, skipped |-> 0, violated |-> 0]
NoDecision == [verdict |-> "none"]
Unreleased == [status |-> "draft"]

Init ==
  /\ run       = [r \in Runs |-> "none"]
  /\ result    = [r \in Runs |-> [c \in Cases |-> "none"]]
  /\ creator   = [r \in Runs |-> "idle"]
  /\ canceller = [r \in Runs |-> "idle"]
  /\ wf        = [r \in Runs |-> "none"]
  /\ asked     = [r \in Runs |-> FALSE]
  /\ tally     = [r \in Runs |-> NoTally]
  /\ case      = [r \in Runs |-> [c \in Cases |-> "idle"]]
  /\ late      = [r \in Runs |-> {}]
  /\ policy    = 0
  /\ decision  = [p \in 1..MaxPolicies |-> NoDecision]
  /\ override  = {}
  /\ release   = Unreleased
  /\ cancels   = 0
  /\ faults    = 0

Fault == faults < MaxFaults /\ faults' = faults + 1
Open(r) == wf[r] \notin {"none", "closed", "swallowed"}
WfGoto(r, pc) == wf' = [wf EXCEPT ![r] = pc]
CaseGoto(r, c, pc) == case' = [case EXCEPT ![r][c] = pc]
SetRun(r, status) == run' = [run EXCEPT ![r] = status]
Late(r, name, c) == late' = [late EXCEPT ![r] = @ \cup {[name |-> name, case |-> c]}]

-----------------------------------------------------------------------------
\* EvaluationRunRepository: what each call leaves in the row, and returns.
MarkedRunning(s) == IF s \in {"queued", "running"} THEN "running" ELSE s
Requested(s) == IF s \in Terminal THEN s ELSE "cancelling"

\* Variant: without WHERE status IN ('running', 'completed').
CompletedAlways(s) == "completed"

Completed(s) == IF s \in {"running", "completed"} THEN "completed" ELSE s

Failed(s) == IF s \in {"completed", "cancelled"} THEN s ELSE "failed"

\* Variant: a run that is not marked yet is left alone.
CancelledIfRunning(s) == IF s = "running" THEN "cancelled" ELSE s

Cancelled(s) == IF s \in {"queued", "running", "cancelling"} THEN "cancelled" ELSE s

-----------------------------------------------------------------------------
With(r, statuses) == Cardinality({c \in Cases : result[r][c] \in statuses})

\* EvaluationScoringEngine.aggregate: a case without a row, and a cancelled one,
\* is skipped and in no denominator.
Aggregate(r) ==
  [passed   |-> With(r, {"passed"}),
   failed   |-> With(r, {"failed", "violated"}),
   skipped  |-> With(r, {"none", "cancelled"}),
   violated |-> With(r, {"violated"})]

\* decideGate. The weighted score is a second threshold of the same kind.
Passes(t) ==
  /\ t.passed * 100 >= MinPassed * (t.passed + t.failed)
  /\ t.passed + t.failed = 0 => MinPassed = 0
  /\ t.violated = 0

\* EvaluationGateDecisionRepository.create for the decision of run r: on conflict
\* of candidate and policy it does nothing.
DecidedNow(r) ==
  IF policy = 0 \/ decision[policy] # NoDecision THEN decision
  ELSE [decision EXCEPT ![policy] =
         [verdict |-> IF Passes(Aggregate(r)) THEN "passed" ELSE "failed",
          run |-> r, basis |-> Aggregate(r)]]

\* EvaluationGateFreshnessService.check: the run of the decision is completed.
Fresh(p) == decision[p] # NoDecision /\ run[decision[p].run] = "completed"

-----------------------------------------------------------------------------
\* EvaluationRunService.create: the row, then the workflow. The start may throw
\* although Temporal started it, and attaching the workflow may throw after it.
CreatorGoto(r, pc) == creator' = [creator EXCEPT ![r] = pc]

CreateRow(r) ==
  /\ creator[r] = "idle"
  /\ SetRun(r, "queued") /\ CreatorGoto(r, "start")
  /\ UNCHANGED <<canceller, wf, asked, tally, case, late, cancels, faults, rows>>

StartWorkflow(r) ==
  /\ creator[r] = "start"
  /\ \/ WfGoto(r, "mark") /\ CreatorGoto(r, "done") /\ UNCHANGED faults
     \/ Fault /\ CreatorGoto(r, "fail") /\ wf' \in {wf, [wf EXCEPT ![r] = "mark"]}
  /\ UNCHANGED <<run, canceller, asked, tally, case, late, cancels, rows>>

FailStart(r) ==
  /\ creator[r] = "fail"
  /\ SetRun(r, Failed(run[r])) /\ CreatorGoto(r, "done")
  /\ UNCHANGED <<canceller, wf, asked, tally, case, late, cancels, faults, rows>>

CreatorDies(r) ==
  /\ creator[r] \in {"start", "fail"} /\ Fault
  /\ CreatorGoto(r, "dead")
  /\ UNCHANGED <<run, canceller, wf, asked, tally, case, late, cancels, rows>>

\* EvaluationRunService.cancel: the row, then Temporal, in two steps. The second
\* does nothing when there is no open workflow, and may never come.
CancellerGoto(r, pc) == canceller' = [canceller EXCEPT ![r] = pc]

RequestCancel(r) ==
  /\ canceller[r] = "idle" /\ run[r] # "none" /\ cancels < MaxCancels
  /\ SetRun(r, Requested(run[r]))
  /\ CancellerGoto(r, IF run[r] \in Terminal THEN "idle" ELSE "ask")
  /\ cancels' = cancels + 1
  /\ UNCHANGED <<creator, wf, asked, tally, case, late, faults, rows>>

AskTemporal(r) ==
  /\ canceller[r] = "ask"
  /\ CancellerGoto(r, "idle")
  /\ \/ asked' = [asked EXCEPT ![r] = Open(r)] /\ UNCHANGED faults
     \/ Fault /\ UNCHANGED asked
  /\ UNCHANGED <<run, creator, wf, tally, case, late, cancels, rows>>

-----------------------------------------------------------------------------
\* evaluationRunWorkflow. Under a cancelled scope an activity is not scheduled: the
\* call throws. One that was scheduled goes on, its result unheard (TRY_CANCEL).
Heard(r, pc) == wf[r] = pc /\ ~asked[r]

\* loadEvaluationRunPlan, then markEvaluationRunRunning.
MarkRunning(r) ==
  /\ Heard(r, "mark")
  /\ SetRun(r, MarkedRunning(run[r]))
  /\ WfGoto(r, CASE run'[r] = "running" -> "cases"
                 [] run'[r] \in {"cancelling", "cancelled"} -> "stopTally"
                 [] OTHER -> "fail")
  /\ UNCHANGED <<creator, canceller, asked, tally, case, late, cancels, faults, rows>>

\* The next batch: so many of the cases left as the width allows.
StartBatch(r) ==
  /\ Heard(r, "cases")
  /\ \A c \in Cases : case[r][c] \in {"idle", "done"}
  /\ LET left == {c \in Cases : case[r][c] = "idle"} IN
     \E batch \in SUBSET left :
       /\ batch # {}
       /\ Cardinality(batch) = Width[r] \/ (batch = left /\ Cardinality(left) < Width[r])
       /\ case' = [case EXCEPT ![r] =
                    [c \in Cases |-> IF c \in batch THEN "setup" ELSE case[r][c]]]
  /\ UNCHANGED <<run, creator, canceller, wf, asked, tally, late, cancels, faults, rows>>

\* Variant: the batches that have not started are not waited for.
CasesJoinedEarly(r) ==
  /\ Heard(r, "cases")
  /\ \A c \in Cases : case[r][c] \in {"idle", "done"}
  /\ \E c \in Cases : case[r][c] = "done"
  /\ WfGoto(r, "aggregate")
  /\ UNCHANGED <<run, creator, canceller, asked, tally, case, late, cancels, faults, rows>>

CasesJoined(r) ==
  /\ Heard(r, "cases")
  /\ \A c \in Cases : case[r][c] = "done"
  /\ WfGoto(r, "aggregate")
  /\ UNCHANGED <<run, creator, canceller, asked, tally, case, late, cancels, faults, rows>>

\* Promise.all rejects with the first case that does not return.
CaseRejected(r) ==
  /\ wf[r] = "cases"
  /\ \/ \E c \in Cases : case[r][c] = "cancelled" /\ WfGoto(r, "shieldTally")
     \/ \E c \in Cases : case[r][c] = "error" /\ WfGoto(r, "fail")
  /\ UNCHANGED <<run, creator, canceller, asked, tally, case, late, cancels, faults, rows>>

AddUp(r) ==
  /\ Heard(r, "aggregate")
  /\ tally' = [tally EXCEPT ![r] = Aggregate(r)]
  /\ WfGoto(r, "gate")
  /\ UNCHANGED <<run, creator, canceller, asked, case, late, cancels, faults, rows>>

\* compareEvaluationRun, which only adds a row of its own, then
\* generateEvaluationGateDecision, which adds the results up again.
DecideGate(r) ==
  /\ Heard(r, "gate")
  /\ decision' = DecidedNow(r)
  /\ WfGoto(r, "complete")
  /\ UNCHANGED <<run, creator, canceller, asked, tally, case, late, cancels, faults,
                 result, policy, override, release>>

\* Variant: the returned row is not looked at.
CompleteRunBlindly(r) ==
  /\ Heard(r, "complete")
  /\ SetRun(r, Completed(run[r]))
  /\ WfGoto(r, "closed")
  /\ UNCHANGED <<creator, canceller, asked, tally, case, late, cancels, faults, rows>>

\* A completed run that is being cancelled keeps the aggregate it has.
CompleteRun(r) ==
  /\ Heard(r, "complete")
  /\ SetRun(r, Completed(run[r]))
  /\ WfGoto(r, CASE run'[r] = "completed" -> "closed"
                 [] run'[r] \in {"cancelling", "cancelled"} -> "stop"
                 [] OTHER -> "fail")
  /\ UNCHANGED <<creator, canceller, asked, tally, case, late, cancels, faults, rows>>

\* The run was found cancelling: aggregate, then cancelEvaluationRun. Both are
\* shielded from cancellation only in the catch block, where an aggregate that
\* cannot be had is left out.
Stopping(r) == wf[r] \in {"shieldTally", "shield"} \/ Heard(r, "stopTally") \/ Heard(r, "stop")

AddUpStopped(r) ==
  /\ Stopping(r) /\ wf[r] \in {"stopTally", "shieldTally"}
  /\ tally' = [tally EXCEPT ![r] = Aggregate(r)]
  /\ WfGoto(r, IF wf[r] = "stopTally" THEN "stop" ELSE "shield")
  /\ UNCHANGED <<run, creator, canceller, asked, case, late, cancels, faults, rows>>

\* Closing the workflow terminates the cases that are still open.
CloseCases(r) ==
  case' = [case EXCEPT ![r] =
    [c \in Cases |-> IF case[r][c] \in CaseOver \cup {"idle"} THEN case[r][c] ELSE "terminated"]]

CancelRun(r) ==
  /\ Stopping(r) /\ wf[r] \in {"stop", "shield"}
  /\ SetRun(r, Cancelled(run[r]))
  /\ WfGoto(r, "closed") /\ CloseCases(r)
  /\ UNCHANGED <<creator, canceller, asked, tally, late, cancels, faults, rows>>

FailRun(r) ==
  /\ Heard(r, "fail")
  /\ SetRun(r, Failed(run[r]))
  /\ WfGoto(r, "closed") /\ CloseCases(r)
  /\ UNCHANGED <<creator, canceller, asked, tally, late, cancels, faults, rows>>

\* The call throws because the scope was cancelled: into the catch block, and out of
\* it when it was there already. What was scheduled before goes on.
ScopeCancelled(r) ==
  /\ asked[r]
  /\ \/ /\ wf[r] \in {"mark", "aggregate", "gate", "complete", "stopTally", "stop"}
        /\ WfGoto(r, "shieldTally")
        /\ \/ UNCHANGED late
           \/ wf[r] \in {"gate", "complete", "stop"} /\ Late(r, wf[r], "-")
        /\ UNCHANGED case
     \/ /\ wf[r] = "cases" /\ \A c \in Cases : case[r][c] \in {"idle", "done"}
        /\ WfGoto(r, "shieldTally") /\ UNCHANGED <<case, late>>
     \/ /\ wf[r] = "fail"
        /\ WfGoto(r, "swallowed") /\ CloseCases(r)
        /\ \/ UNCHANGED late
           \/ Late(r, "fail", "-")
  /\ UNCHANGED <<run, creator, canceller, asked, tally, cancels, faults, rows>>

\* An activity gives up after its attempts, and may still take effect.
RunActivityFails(r) ==
  /\ Fault
  /\ \/ /\ Heard(r, "mark") \/ Heard(r, "aggregate") \/ Heard(r, "gate") \/ Heard(r, "complete")
          \/ Heard(r, "stopTally") \/ Heard(r, "stop")
        /\ WfGoto(r, "fail") /\ UNCHANGED case
     \/ wf[r] = "shieldTally" /\ WfGoto(r, "shield") /\ UNCHANGED case
     \/ wf[r] = "shield" /\ WfGoto(r, "swallowed") /\ CloseCases(r)
     \/ Heard(r, "fail") /\ WfGoto(r, "swallowed") /\ CloseCases(r)
  /\ \/ UNCHANGED late
     \/ wf[r] \in {"gate", "complete", "fail", "stop"} /\ Late(r, wf[r], "-")
     \/ wf[r] = "shield" /\ Late(r, "stop", "-")
  /\ UNCHANGED <<run, creator, canceller, asked, tally, cancels, rows>>

-----------------------------------------------------------------------------
\* evaluationCaseWorkflow. The cancellation of the run reaches a case some time
\* later, so that a case may go on, and even return, after it was asked for.
CaseUnchanged == UNCHANGED <<run, creator, canceller, wf, asked, tally, cancels,
                             policy, decision, override, release>>

\* verifyEvaluationCandidateFidelity and prepareEvaluationCase are outside the try
\* block: their error is the case's.
PrepareCase(r, c) ==
  /\ Open(r) /\ case[r][c] = "setup"
  /\ \/ CaseGoto(r, c, "agent") /\ UNCHANGED faults
     \/ Fault /\ CaseGoto(r, c, "error")
     \/ asked[r] /\ CaseGoto(r, c, "cancelled") /\ UNCHANGED faults
  /\ UNCHANGED <<result, late>> /\ CaseUnchanged

\* The agent returns, or fails, or is cancelled.
AgentEnds(r, c) ==
  /\ Open(r) /\ case[r][c] = "agent"
  /\ \/ CaseGoto(r, c, "score")
     \/ CaseGoto(r, c, "record")
     \/ asked[r] /\ CaseGoto(r, c, "recordCancel")
  /\ UNCHANGED <<faults, result, late>> /\ CaseUnchanged

\* collectAndScoreEvaluationCase and recordEvaluationCaseSystemError upsert the row
\* of the case, whatever it holds.
WriteResult(r, c) ==
  /\ Open(r) /\ case[r][c] \in {"score", "record", "recordCancel"}
  /\ CASE case[r][c] = "score" ->
            \E verdict \in Scored :
              result' = [result EXCEPT ![r][c] = verdict] /\ CaseGoto(r, c, "done")
       [] case[r][c] = "record" ->
            result' = [result EXCEPT ![r][c] = "violated"] /\ CaseGoto(r, c, "done")
       [] case[r][c] = "recordCancel" ->
            result' = [result EXCEPT ![r][c] = "cancelled"] /\ CaseGoto(r, c, "cancelled")
  /\ UNCHANGED <<faults, late>> /\ CaseUnchanged

\* Cancelled before the activity ran: the score is given up for a record, shielded;
\* the record of an error is not shielded, and not written.
CaseCancelled(r, c) ==
  /\ Open(r) /\ asked[r]
  /\ \/ case[r][c] = "score" /\ CaseGoto(r, c, "recordCancel")
     \/ case[r][c] = "record" /\ CaseGoto(r, c, "cancelled")
  /\ UNCHANGED <<faults, result, late>> /\ CaseUnchanged

\* An attempt outlives its timeout: it is tried again, or given up, while the first
\* one may still write.
CaseActivityFails(r, c) ==
  /\ Open(r) /\ Fault
  /\ \/ case[r][c] = "score" /\ case' \in {case, [case EXCEPT ![r][c] = "record"]}
     \/ case[r][c] \in {"record", "recordCancel"} /\ CaseGoto(r, c, "error")
  /\ \/ case[r][c] \in {"score", "record"} /\ Late(r, case[r][c], c)
     \/ case' # case /\ UNCHANGED late
  /\ UNCHANGED result /\ CaseUnchanged

\* workflowExecutionTimeout of the case, the same as its agent's, which starts later:
\* the case is closed as it stands, and so is its agent.
CaseTimesOut(r, c) ==
  /\ Open(r) /\ case[r][c] \notin CaseOver \cup {"idle"}
  /\ CaseGoto(r, c, "error")
  /\ \/ case[r][c] \in {"score", "record"} /\ Late(r, case[r][c], c)
     \/ UNCHANGED late
  /\ UNCHANGED <<faults, result>> /\ CaseUnchanged

\* An attempt nobody waits for any more takes effect.
LateEffect(r) ==
  \E call \in late[r] :
    /\ late' = [late EXCEPT ![r] = @ \ {call}]
    /\ run' = CASE call.name = "complete" -> [run EXCEPT ![r] = Completed(@)]
                [] call.name = "fail"     -> [run EXCEPT ![r] = Failed(@)]
                [] call.name = "stop"     -> [run EXCEPT ![r] = Cancelled(@)]
                [] OTHER -> run
    /\ decision' = IF call.name = "gate" THEN DecidedNow(r) ELSE decision
    /\ CASE call.name = "score" ->
              \E verdict \in Scored : result' = [result EXCEPT ![r][call.case] = verdict]
         [] call.name = "record" -> result' = [result EXCEPT ![r][call.case] = "violated"]
         [] OTHER -> UNCHANGED result
    /\ UNCHANGED <<creator, canceller, wf, asked, tally, case, policy, override, release,
                   cancels, faults>>

-----------------------------------------------------------------------------
\* The gate, in mode required.
GateUnchanged == UNCHANGED <<run, creator, canceller, wf, asked, tally, case, late, cancels,
                             faults, result, decision>>

PublishPolicy ==
  /\ policy < MaxPolicies
  /\ policy' = policy + 1
  /\ UNCHANGED <<override, release>> /\ GateUnchanged

\* createEvaluationOverride, by a platform_admin, until it expires.
Override ==
  /\ AllowOverride
  /\ \E p \in 1..MaxPolicies : Fresh(p) /\ override' = override \cup {p}
  /\ UNCHANGED <<policy, release>> /\ GateUnchanged

OverrideExpires ==
  /\ \E p \in override : override' = override \ {p}
  /\ UNCHANGED <<policy, release>> /\ GateUnchanged

\* assertPublishAllowed. The decision of a policy, the run of a decision once it is
\* completed, and the policies already published do not change any more.
Publish ==
  /\ release = Unreleased /\ policy # 0 /\ Fresh(policy)
  /\ decision[policy].verdict = "passed" \/ policy \in override
  /\ release' = [status |-> "published", policy |-> policy,
                 overridden |-> decision[policy].verdict # "passed"]
  /\ UNCHANGED <<policy, override>> /\ GateUnchanged

-----------------------------------------------------------------------------
CaseStep(r, c) == PrepareCase(r, c) \/ AgentEnds(r, c) \/ WriteResult(r, c) \/ CaseCancelled(r, c)

RunStep(r) ==
  \/ MarkRunning(r) \/ StartBatch(r) \/ CasesJoined(r) \/ CaseRejected(r) \/ AddUp(r)
  \/ DecideGate(r) \/ CompleteRun(r) \/ AddUpStopped(r) \/ CancelRun(r) \/ FailRun(r)
  \/ ScopeCancelled(r)

CreatorStep(r) == StartWorkflow(r) \/ FailStart(r)

Next ==
  \/ \E r \in Runs :
       \/ CreateRow(r) \/ CreatorStep(r) \/ CreatorDies(r)
       \/ RequestCancel(r) \/ AskTemporal(r)
       \/ RunStep(r) \/ RunActivityFails(r) \/ LateEffect(r)
       \/ \E c \in Cases : CaseStep(r, c) \/ CaseActivityFails(r, c) \/ CaseTimesOut(r, c)
  \/ PublishPolicy \/ Override \/ OverrideExpires \/ Publish

Spec == Init /\ [][Next]_vars

\* Temporal goes on with every open workflow, the run's and each case's, which time
\* out otherwise, and a live request with its next step.
FairRun(r)     == WF_vars(RunStep(r))
FairCase(r, c) == WF_vars(CaseStep(r, c))
FairCreator(r) == WF_vars(CreatorStep(r))
Fairness ==
  \A r \in Runs : FairRun(r) /\ FairCreator(r) /\ \A c \in Cases : FairCase(r, c)
FairSpec == Spec /\ Fairness

-----------------------------------------------------------------------------
Tallies == [passed : 0..Cardinality(Cases), failed : 0..Cardinality(Cases),
            skipped : 0..Cardinality(Cases), violated : 0..Cardinality(Cases)]
Decisions == {NoDecision} \cup [verdict : {"passed", "failed"}, run : Runs, basis : Tallies]

\* The states of the rows, of the workflows and of the requests.
TypeOK ==
  /\ run \in [Runs -> RunStatus]
  /\ result \in [Runs -> [Cases -> Verdicts \cup {"none"}]]
  /\ creator \in [Runs -> {"idle", "start", "fail", "done", "dead"}]
  /\ canceller \in [Runs -> {"idle", "ask"}]
  /\ wf \in [Runs -> WfPcs]
  /\ asked \in [Runs -> BOOLEAN]
  /\ tally \in [Runs -> Tallies]
  /\ case \in [Runs -> [Cases -> CasePcs]]
  /\ late \in [Runs -> SUBSET LateCalls]
  /\ policy \in 0..MaxPolicies
  /\ decision \in [1..MaxPolicies -> Decisions]
  /\ override \subseteq 1..MaxPolicies
  /\ release = Unreleased \/ release \in [status : {"published"}, policy : 1..MaxPolicies,
                                          overridden : BOOLEAN]
  /\ cancels \in 0..MaxCancels
  /\ faults \in 0..MaxFaults

\* Whoever may publish the candidate did so on a whole evaluation: the run behind the
\* decision is completed, with every case scored in what the verdict was computed
\* from, and the threshold met by the cases that passed unless an override was given
\* (assertPublishAllowed, and the order of the workflow's steps).
PublishedOnWholeEvidence ==
  release # Unreleased =>
    LET d == decision[release.policy] IN
    /\ d # NoDecision /\ run[d.run] = "completed"
    /\ d.basis.passed + d.basis.failed = Cardinality(Cases)
    /\ ~release.overridden => d.basis.passed * 100 >= MinPassed * Cardinality(Cases)
    /\ ~release.overridden => d.basis.violated = 0

\* A workflow that closes, except by an error of its catch block, has reported its
\* run: no row is left running or cancelling by a cancellation, a case that fails or
\* a request that overtakes it.
ClosedRunReported == \A r \in Runs : wf[r] = "closed" => run[r] \in Terminal

\* A reported run stays as it was reported, whoever calls late, and a run somebody
\* asked to cancel is never reported completed (the guards of complete, fail and
\* cancel).
ReportIsFinal ==
  [][\A r \in Runs :
       /\ run[r] \in Terminal => run'[r] = run[r]
       /\ run[r] = "cancelling" => run'[r] # "completed"]_vars

CaseUnderWay(r, c) == case[r][c] \notin CaseOver \cup {"idle"}

\* Whoever has a next step can take it: a request that creates a run, a case that was
\* started, and the workflow of the run, but for waiting for its cases.
RunKeepersGoOn ==
  \A r \in Runs :
    /\ creator[r] \in {"start", "fail"} => ENABLED <<CreatorStep(r)>>_vars
    /\ \A c \in Cases : CaseUnderWay(r, c) => ENABLED <<CaseStep(r, c)>>_vars
    /\ Open(r) => \/ ENABLED <<RunStep(r)>>_vars
                  \/ wf[r] = "cases" /\ \E c \in Cases : CaseUnderWay(r, c)

\* A row that is not reported yet is in the hands of the request that creates it or
\* of an open workflow that can go on, whatever is cancelled, fails or is late: but
\* for a request that died, and a workflow that was cancelled, or failed again, while
\* its catch block reported a failure.
UnreportedRunIsAttended ==
  /\ \A r \in Runs :
       run[r] \notin Terminal \cup {"none"} =>
         \/ creator[r] \in {"start", "fail"} \/ Open(r)
         \/ creator[r] = "dead" /\ faults > 0
         \/ wf[r] = "swallowed" /\ faults + cancels > 0
  /\ RunKeepersGoOn

\* Every run is reported some time, a cancelled one too, though its row is marked
\* before Temporal is asked and the second may never happen: except when its workflow
\* was never started or was lost in its own catch block (evaluationRunWorkflow).
RunEnds ==
  \A r \in Runs :
    run[r] # "none" ~>
      (run[r] \in Terminal \/ creator[r] = "dead" \/ wf[r] = "swallowed")
=============================================================================
