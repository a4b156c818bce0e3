SPECIFICATION Spec
CONSTANTS
  Patients = {1, 2}
  Doctors = {1}
  Provider = 1
  Prices = {1, 2}
  Means <- TillMeans
  MinSlots = 0
  MaxSlots = 2
  MaxBudget = 2
  MaxCash = 3
  Subsidy = 1
  MaxVisits = 2
  MaxGap = 2
  Rotation = 2
  NoQuote = NoQuote
INVARIANTS
  QueueMatchesPatients
  CommitNeverRefused
PROPERTIES
  EpisodeKept
  ChargesKeepToQuotes
