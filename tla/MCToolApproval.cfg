\* A step of a mock tool, of one that cannot commit or of one that is refused;
\* two clicks, and one failure of every kind.
CONSTANTS
  HumanTasks = {t1, t2}
  ToolCalls = {k1, k2}
  HttpCalls = {c1, c2}
  Requests = {r1, r2, r3}
  Tools = {write, http, gone}
  Mock = {write}
  Refused = {gone}
  None = None
  MaxAttempts = 2
  MaxTimeouts = 1
  MaxLostCalls = 1
  MaxLostRequests = 1
SPECIFICATION Spec
SYMMETRY Interchangeable
PROPERTIES
  GatewaySpec
INVARIANTS
  CompletedMeansEffect
  SoleApprovalStaysCommitted
  EffectNeedsBothConsents
CHECK_DEADLOCK FALSE
