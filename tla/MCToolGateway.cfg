\* Three requests out of many kinds: preview, approve, commit and commit again;
\* overlapping commits; two invokes of one evaluation case.
CONSTANTS
  Requests = {r1, r2, r3}
  Contents <- MCContents
  ToolCalls = {k1, k2, k3}
  Tools <- MCTools
  Cases = {e1}
  None = None
  Risk <- MCRisk
  EvalMode <- MCEvalMode
  EvalLimit <- MCEvalLimit
  Unlimited = {http}
  Mock = {write, read}
  Refused = {gone}
  MaxFaults = 1
  write = write
  read = read
  http = http
  danger = danger
  gone = gone
  e1 = e1
  b1 = b1
  b2 = b2
SPECIFICATION Spec
SYMMETRY Interchangeable
INVARIANTS
  EffectOnlyAfterApproval
  AnsweredKeyIsFinal
  OneResultPerKey
  EvaluationWithinLimit
  CommittedMeansExecuted
CHECK_DEADLOCK FALSE
