\* A step of a tool that cannot commit. Nothing is lost and nothing times out;
\* one request for the preview and three for the commit.
CONSTANTS
  HumanTasks = {t1}
  ToolCalls = {k1}
  HttpCalls = {c1}
  Requests = {r1, r2, r3, r4}
  Tools = {http}
  Mock = {}
  Refused = {}
  None = None
  MaxAttempts = 2
  MaxTimeouts = 0
  MaxLostCalls = 0
  MaxLostRequests = 0
SPECIFICATION Spec
SYMMETRY Interchangeable
INVARIANT CommitsAreLimited
CHECK_DEADLOCK FALSE
