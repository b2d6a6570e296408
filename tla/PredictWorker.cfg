SPECIFICATION Spec
CONSTANTS
  m1 = m1
  m2 = m2
  Models <- TwoModels
  Configs <- TwoConfigs
  PredictInterval <- Intervals
  WindowSize = 2
  BackfillLimit = 2
  BackfillSpan = 2
  Ttl = 3
  MaxClock = 7
  MaxFaults = 1
SYMMETRY Symmetry
INVARIANTS
  RefsExist
  RunsSaved
  ScheduleKept
  InputsStored
CHECK_DEADLOCK FALSE
