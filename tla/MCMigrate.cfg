CONSTANTS
  r1 = r1
  r2 = r2
  Runners <- MCRunners
  Versions <- ThreeVersions
  NoTx <- MCNoTx
  HasDown <- MCHasDown
  Steps <- MCSteps
  Ops <- UpDown
  UseLock = TRUE
  Timeout = TRUE
  PoolOf <- OwnPool
  MaxOpen = 2
  NoRunner = NoRunner
SPECIFICATION FairSpec
INVARIANTS MutualExclusion SnapshotFresh NoTxExactUnlessTorn
PROPERTIES ImplementsSchemaVersion RunReturns
