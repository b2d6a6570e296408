SPECIFICATION FairSpec
CONSTANTS
  m1 = m1
  m2 = m2
  Preds <- FourPreds
  Models <- TwoModels
  ModelOf <- Authors
  Raises = {4}
  Interval = 2
  MaxClock = 5
  MaxFaults = 1
INVARIANTS
  CountedOnce
  PaidOnce
  NothingSkipped
  OnlyInterruptedDropped
  RecordsAgree
PROPERTIES
  ImplementsLedger
  EventuallyScored
CHECK_DEADLOCK FALSE
