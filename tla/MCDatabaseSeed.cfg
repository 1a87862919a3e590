SPECIFICATION SeedSpec
CONSTANTS
  None = None
  Users <- MCUsers
  Role <- MCRole
  Threshold = 25000
  ClaimIds <- MCClaimIds
  ItemIds = {1, 2}
  Amounts = {}
  MaxMoney = 100000
  MaxCycle = 2
  Boots = {b1, b2}
  NewIds = {"c_new"}
  Edits = {"Travel"}
  MaxStarts = 3
SYMMETRY ContainerSymmetry
INVARIANTS
  SeedIsLegal
  UsageSurvives
CHECK_DEADLOCK FALSE
