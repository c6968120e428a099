\* The same agent, evaluated, with nothing going wrong.
CONSTANTS
  Max <- SmallBudget
  Threshold = 2
  Owner = TRUE
  Evaluation = TRUE
  Targets = {t1}
  NoTarget = none
  MaxTurns = 2
  MaxProposals = 2
  MaxFaults = 0
SPECIFICATION Spec
PROPERTY EvaluationStaysSandboxed
CHECK_DEADLOCK FALSE
