SPECIFICATION Spec
CONSTANTS
  steady = steady
  flaky = flaky
  r1 = r1
  r2 = r2
  Models <- TwoModels
  Rounds <- TwoRounds
  Matches <- Wildcard
  Outcomes <- Reactions
  Samples = 2
  MaxRequests = 2
  Limits <- Cases
INVARIANTS
  OwnTruth
  CountedOnce
  OneRunner
CHECK_DEADLOCK FALSE
