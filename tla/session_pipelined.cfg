SPECIFICATION Spec
CONSTANTS
  MaxTick = 3
  MaxRuns = 0
  MaxActions = 3
  BatchSize = 2
  WarehouseOn = FALSE
  Horizons <- HorizonOrNone
  MaxExtend = 1
  LoopMayFail = FALSE
  CancelMayStall = FALSE
  Pipelined = TRUE
INVARIANTS
  RunningHasLoop
