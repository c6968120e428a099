\* Four segments of up to two turns and two proposals, so that every budget runs out
\* first in some run; the workflow continues as new after two segments.
CONSTANTS
  Max <- SmallBudget
  Threshold = 2
  Owner = TRUE
  Evaluation = FALSE
  Targets = {t1}
  NoTarget = none
  MaxTurns = 2
  MaxProposals = 2
  MaxFaults = 1
SPECIFICATION FairSpec
INVARIANT
  LedgerIsExact
PROPERTIES
  KeepsToBudget
  AgentReports
\* An agent ends.
CHECK_DEADLOCK FALSE
