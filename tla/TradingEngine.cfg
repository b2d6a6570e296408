SPECIFICATION Spec
CONSTANTS
  m1 = m1
  m2 = m2
  a1 = a1
  a2 = a2
  Models <- TwoModels
  Assets <- TwoAssets
  Worthless <- SecondAsset
  Batches <- TwoBatches
  Signals <- SomeSignals
  Modes <- TwoModes
  MaxPosition = 2
  MaxPortfolio = 3
  MaxClock = 2
  MaxFaults = 1
INVARIANTS
  WithinCaps
  FeesMatchTrades
  SavedBetweenTicks
PROPERTIES
  TowardsTarget
CHECK_DEADLOCK FALSE
