\* Two tasks that compete for one slot, and one fault of any kind.
CONSTANTS
  Tasks = {t1, t2}
  Limit <- OneSlot
  MaxFaults = 1
SPECIFICATION FairSpec
INVARIANTS
  StrandedSlotsCostFaults
  HeldWithinLimit
  ReconciledWorkIsOver
  RunningHoldsSlot
  AcknowledgedSlotIsAttended
PROPERTIES
  SlotNeverRevived
  AcknowledgedSlotReturns
CHECK_DEADLOCK FALSE
