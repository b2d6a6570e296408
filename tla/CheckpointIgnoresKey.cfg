SPECIFICATION RewardsSpec
CONSTANTS
  m1 = m1
  m2 = m2
  m3 = m3
  none = none
  Models <- ThreeModels
  Results <- SomeResults
  RankingKeys = {"score_recent"}
  Directions <- BothWays
  Hours = 0
  MaxCycles = 2
  Ensembles <- OneEnsemble
  Week = 1
  Lag = 0
  OverviewLimit = 5
  TotalPrizes <- SomePrizes
  DefaultSizes = {}
  Blends = {}
  RankWeight = 5
  ContributionWeight = 3
  DiversityWeight = 2
  Members <- TwoMembers
  Values = {1, 4}
  NoValue = none
  ScoreOf <- SomeScores
  Configs <- TwoConfigs
  Registries <- SomeRegistries
  EnsembleCycles = 2
  MaxFaults = 1
INVARIANTS
  UniformlyBetterRanksAhead
CHECK_DEADLOCK FALSE
