\* A step of a mock tool, one click that may be lost, one attempt that may time
\* out. Liveness, so no symmetry; requests for every attempt there can be. The row
\* that a retried createHumanTask leaves behind is in MCToolApproval.cfg.
CONSTANTS
  HumanTasks = {t1}
  ToolCalls = {k1, k2}
  HttpCalls = {c1}
  Requests = {r1, r2, r3, r4}
  Tools = {write}
  Mock = {write}
  Refused = {}
  None = None
  MaxAttempts = 2
  MaxTimeouts = 1
  MaxLostCalls = 1
  MaxLostRequests = 0
SPECIFICATION FairSpec
PROPERTY DecisionEndsStep
CHECK_DEADLOCK FALSE
