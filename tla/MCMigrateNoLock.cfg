CONSTANTS
  r1 = r1
  r2 = r2
  Runners <- MCRunners
  Versions <- ThreeVersions
  NoTx <- MCNoTx
  HasDown <- MCHasDown
  Steps <- OneStep
  Ops <- UpOnly
  UseLock = FALSE
  Timeout = FALSE
  PoolOf <- OwnPool
  MaxOpen = 2
  NoRunner = NoRunner
SPECIFICATION Spec
INVARIANTS TxAtomic
