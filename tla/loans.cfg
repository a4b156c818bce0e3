SPECIFICATION Spec
CONSTANTS
  Households = {1}
  Firms = {11}
  Housing = {11}
  Baseline = {}
  Installment <- Annuities
  Bearing = 2
  Quote = 2
  Capacities = {3}
  Misses = 2
  Cooldown = 1
  MaxClaims = 2
  MaxDirect = 1
  MaxIncome = 1
  OpeningCash = 0
  OpeningReserve = 2
  OpeningRest = 0
  NoIndex = NoIndex
INVARIANTS
  MoneyConserved
  LedgerMatchesMirrors
PROPERTIES
  ServiceWithinIncome
  CollectionIsExact
