SPECIFICATION Spec
CONSTANTS
  m1 = m1
  m2 = m2
  a1 = a1
  a2 = a2
  Models <- TwoModels
  Assets <- TwoAssets
  Worthless = {}
  Batches <- TwoBatches
  Signals <- SomeSignals
  Modes = {"target"}
  MaxPosition = 2
  MaxPortfolio = 3
  MaxClock = 2
  MaxFaults = 1
INVARIANTS
  CarryOnce
CHECK_DEADLOCK FALSE
