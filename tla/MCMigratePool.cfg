CONSTANTS
  r1 = r1
  r2 = r2
  Runners <- MCRunners
  Versions <- TwoVersions
  NoTx <- MCNoTx
  HasDown <- TwoVersions
  Steps <- OneStep
  Ops <- UpOnly
  UseLock = TRUE
  Timeout = FALSE
  PoolOf <- SharedPool
  MaxOpen = 2
  NoRunner = NoRunner
SPECIFICATION FairSpec
PROPERTIES RunReturns
