SPECIFICATION Spec
CONSTANTS
  MaxTick = 2
  MaxRuns = 1
  MaxActions = 2
  BatchSize = 2
  WarehouseOn = TRUE
  Horizons <- HorizonOrNone
  MaxExtend = 1
  LoopMayFail = TRUE
  CancelMayStall = TRUE
  Pipelined = TRUE
INVARIANTS
  TypeOK
  HorizonNeverPassed
  HaltedWithoutBacklog
PROPERTIES
  HaltIsHardBoundary
  StaleLoopNeverTicks
  CompletedUntilResumed
  ImplementsLifecycle
  ImplementsWarehouse
