\* Two messages and three requests, so that one message is sent twice while the other's
\* turn is created and answered; one call may be lost.
CONSTANTS
  Msgs = {m1, m2}
  Reqs = {q1, q2, q3}
  NoMsg = none
  MaxFaults = 1
SPECIFICATION FairSpec
INVARIANTS
  OneTurnAtATime
  ContextHolds
  ReplyMatchesTask
  QueuedReplyIsAttended
PROPERTY
  TurnEnds
\* Requests and workflows end.
CHECK_DEADLOCK FALSE
