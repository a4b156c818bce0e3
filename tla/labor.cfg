SPECIFICATION Spec
CONSTANTS
  Households = {1, 2, 3, 4}
  Firms = {1, 2, 3}
  Healthcare = {3}
  GenericServices = {1}
  Housing = {}
  Baseline = {3}
  Doctors = {4}
  Skill <- MCSkill
  Asks = {2, 3}
  Offers = {2, 3, 5}
  Single <- MCSingle
  MayBeIll = {2}
  MaxHires = 2
  SwitcherCap = 1
  None = None
INVARIANTS
  RostersAgree
  OneJobPerWorker
  FastMatchesLegacy
  EventsAreMoves
PROPERTIES
  IncumbentsBeforeHires
