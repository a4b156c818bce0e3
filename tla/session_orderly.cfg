SPECIFICATION FairSpec
CONSTANTS
  MaxTick = 3
  MaxRuns = 0
  MaxActions = 3
  BatchSize = 2
  WarehouseOn = FALSE
  Horizons <- HorizonOrNone
  MaxExtend = 1
  LoopMayFail = FALSE
  CancelMayStall = FALSE
  Pipelined = FALSE
PROPERTIES
  PolicyNeverRollsBack
  HaltAnswered
  RunningProgresses
  QueueDrains
