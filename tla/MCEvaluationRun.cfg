\* One run of three cases, two at a time, so that the last batch is a short one; it
\* may be cancelled once, and one activity may give up or take effect late.
CONSTANTS
  Runs = {r1}
  Cases = {c1, c2, c3}
  Width <- Pairs
  MinPassed = 100
  AllowOverride = TRUE
  MaxPolicies = 1
  MaxCancels = 1
  MaxFaults = 1
SPECIFICATION FairSpec
INVARIANTS
  PublishedOnWholeEvidence
  UnreportedRunIsAttended
PROPERTIES
  ReportIsFinal
  RunEnds
\* An evaluation is over some time, and nothing publishes the candidate twice.
CHECK_DEADLOCK FALSE
