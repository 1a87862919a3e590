SPECIFICATION Spec
CONSTANTS
  claimant = claimant
  k1 = k1
  k2 = k2
  None = None
  Users <- MCUsers
  Role <- MCRole
  Threshold = 0
  Requests = {p1, p2}
  CatIds = {k1, k2}
  Names <- MCNames
  Fold <- MCFold
  Limits = {1, 2}
  ItemIds = {i1}
  Legacy <- MCLegacy
  MaxRounds = 1
INVARIANTS
  ItemsHaveCategory
PROPERTIES
  LateChangesSpareReview
SYMMETRY Interchangeable
CHECK_DEADLOCK FALSE
