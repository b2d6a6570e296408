SPECIFICATION CheckpointsSpec
CONSTANTS
  c1 = c1
  t1 = t1
  t2 = t2
  h1 = h1
  h2 = h2
  h3 = h3
  NoTx = NoTx
  scoreWorker = scoreWorker
  checkpointWorker = checkpointWorker
  m1 = m1
  Checkpoints <- OneCheckpoint
  Txs <- TwoTxs
  Handlers <- ThreeHandlers
  MaxRequests = 5
  Creators <- BothWorkers
  Scorer <- scoreWorker
  Models <- OneModel
  MaxClock = 8
SYMMETRY Symmetry
INVARIANTS
  PredecessorStored
  ConfirmedTxKeptAlone
  PaidOncePerCreator
  OnlyLateSkipped
PROPERTIES
  RootKept
  StatusAdvancesAlone
CHECK_DEADLOCK FALSE
