SPECIFICATION Spec
CONSTANTS
  c1 = c1
  c2 = c2
  c3 = c3
  None = None
  Claims <- MCClaims
  Approvers = {1, 2, 3}
  Leavers = {2}
  MaxTime = 3
  MaxChanges = 4
INVARIANTS
  LoadsStayLevel
PROPERTIES
  TurnsRotate
SYMMETRY Interchangeable
CHECK_DEADLOCK FALSE
