SPECIFICATION Spec
CONSTANTS
  Households = {1, 2}
  Firms = {1, 2, 3}
  Baseline = {1}
  Funded = {2}
  Providers = {1, 2}
  Wage <- Wages
  Owner <- Owners
  Ceo <- Heads
  CeoCap = 1
  Benefit = 1
  Quote = 1
  Seed = 1
  ZeroCashMax = 1
  MaxClaim = 2
  MaxOutlay = 1
  OpeningCash = 0
  OpeningTreasury = 2
  OpeningRest = 1
  NoOne = NoOne
  NoProject = NoProject
INVARIANTS
  MoneyConserved
  PromisesCovered
  NothingStranded
PROPERTIES
  SettlementIsExact
