SPECIFICATION Spec
CONSTANTS
  m1 = m1
  m2 = m2
  Preds <- TwoPreds
  Models <- TwoModels
  ModelOf <- TwoAuthors
  Raises = {2}
  Interval = 2
  MaxClock = 4
  MaxFaults = 0
INVARIANTS
  EveryScoreInSnapshot
CHECK_DEADLOCK FALSE
