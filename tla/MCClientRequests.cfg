SPECIFICATION Spec
CONSTANTS
  claimant = claimant
  approver1 = approver1
  approver2 = approver2
  finance = finance
  None = None
  Users <- MCUsers
  Role <- MCRole
  Claimant = claimant
  Starts <- MCStarts
  Threshold = 1
  Tabs = {t1}
  Handlers = {h1, h2}
  MaxClicks = 2
INVARIANTS
  OfferedIsAccepted
  OwnChangesShown
SYMMETRY Symmetry
CHECK_DEADLOCK FALSE
