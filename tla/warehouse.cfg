SPECIFICATION MCSpec
CONSTANTS
  MaxTick = 2
  MaxRuns = 2
  MaxActions = 1
  BatchSize = 2
  WarehouseOn = TRUE
INVARIANTS
  ReadyRunComplete
  WatermarkCovers
PROPERTIES
  EndedRunsFrozen
