\* Two tasks that may share one tool call, two HTTP calls of any kind, one of
\* which may be lost. A liveness property is checked, so no symmetry.
CONSTANTS
  Tasks = {t1, t2}
  ToolCalls = {k1}
  Calls = {c1, c2}
  Responses = {r1, r2}
  None = None
  MaxFaults = 1
  CrossKind = TRUE
SPECIFICATION FairSpec
INVARIANTS
  UntoldDecisionIsAttended
  SignalFollowsDecision
  SoleDeciderStands
  UnopposedVerdictStands
  RivalAnswersOverlapped
PROPERTY DecisionReachesWorkflow
\* Every task may be decided and every call answered.
CHECK_DEADLOCK FALSE
