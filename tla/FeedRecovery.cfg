SPECIFICATION FeedsSpec
CONSTANTS
  Sides = {"poll"}
  c1 = c1
  c2 = c2
  j1 = j1
  j2 = j2
  j3 = j3
  Clients <- TwoClients
  Jobs <- ThreeJobs
  Ranges <- Overlapping
  Feed <- SomeFeed
  PageSize = 2
  DayLength = 4
  MaxJobFaults = 2
  Subjects = {1, 2}
  Providers = {"candles", "now", "pyth"}
  FetchLimit = 2
  Span = 1
  Bucket = 2
  Ttl = 1
  MaxConsecutiveErrors = 2
  Windows <- OneWindow
  Margin = 1
  Staleness = 50
  MaxClock = 4
  InLoop = {TRUE}
  MaxFaults <- NoFaults
  Modes = {"poll", "changestream"}
  Lookbacks = {0, 2}
  Times = {0, 1, 2, 3}
  BaseBatch = 1
  MaxBatch = 3
  MaxSeenIds = 4
  QueueSize = 1
  MaxMongoErrors = 2
  MaxDocs = 3
  MaxMongoFaults = 2
PROPERTIES
  RecoversIfNeeded
CHECK_DEADLOCK FALSE
