SPECIFICATION RewardsSpec
CONSTANTS
  m1 = m1
  m2 = m2
  m3 = m3
  none = none
  Models <- ThreeModels
  Results <- SomeResults
  RankingKeys <- BothKeys
  Directions <- BothWays
  Hours = 0
  MaxCycles = 2
  Ensembles <- OneEnsemble
  Week = 1
  Lag = 0
  OverviewLimit = 5
  TotalPrizes <- SomePrizes
  DefaultSizes = {0, 1, 2, 3, 4, 5, 6, 7, 8, 9, 10, 11, 12}
  Blends <- SomeBlends
  RankWeight = 5
  ContributionWeight = 3
  DiversityWeight = 2
  Members <- TwoMembers
  Values = {1, 4}
  NoValue = none
  ScoreOf <- SomeScores
  Configs <- TwoConfigs
  Registries <- SomeRegistries
  EnsembleCycles = 2
  MaxFaults = 1
INVARIANTS
  SumIsWhole
  ShareOrderKept
  PredictionsWeighEqually
  UniformlyBetterLeads
  ReportsAgree
  EnsemblesFollowMembers
CHECK_DEADLOCK FALSE
