\* Two turns whose first answer may differ, two attempts, a second target and a second
\* call; two faults: a timeout or a crash, and a call or write that fails.
CONSTANTS
  Answers = {stop, more1, more2}
  More = {more1, more2}
  MaxAttempts = 2
  Targets = 2
  MaxTries = 2
  MaxTurns = 2
  MaxFaults = 2
SPECIFICATION Spec
INVARIANTS
  HistoriesAgree
  ToldIsRecorded
  StepDescribesSegment
  AttemptsAreCounted
PROPERTY
  RecordedAnswerStays
SYMMETRY Symmetry
\* The segment ends.
CHECK_DEADLOCK FALSE
