SPECIFICATION Spec
CONSTANTS
  MaxWeek = 5
  StartWeek = 1
  Interval = 2
  MaxQueue = 2
PROPERTIES
  ResultsCollected
