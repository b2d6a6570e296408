SPECIFICATION PublishedSpec
CONSTANTS
  Batches <- OneAndFive
  a = a
  b = b
  raises = raises
  Summaries <- AB
  Feed <- SomeRecords
  Price <- SomePrices
  DayLength = 4
  WindowSize = 2
  StepSeconds = 2
  Horizon = 2
  Outputs <- SomeOutputs
  Raises = raises
  Hours = {1, 3, 9}
  MaxCalls = 3
  MaxFailures = 1
  RoundModels = {1}
  Interval = 1
  PageLimit = 8
  MaxClock = 3
  MaxFaults = 1
  MaxRewrites = 1
INVARIANTS
  ReplayIsSound
  ChangeIsSeen
  RootsBindCycles
SYMMETRY SummariesAlike
CHECK_DEADLOCK FALSE
