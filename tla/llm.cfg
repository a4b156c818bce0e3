SPECIFICATION Spec
CONSTANTS
  MaxWeek = 5
  StartWeek = 1
  Interval = 2
  MaxQueue = 3
INVARIANTS
  TypeOK
  CutNeverApplied
PROPERTIES
  OffMeansOff
  QueuedConfigWins
  InFlightKept
