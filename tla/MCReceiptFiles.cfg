SPECIFICATION Spec
CONSTANTS
  claimant = claimant
  None = None
  Users <- MCUsers
  Role <- MCRole
  Threshold = 0
  Requests = {r1, r2}
  Files = {f1, f2}
  ItemIds = {i1, i2}
INVARIANTS
  RowsHaveFiles
  FilesHaveRows
  ReceiptsAttachToItems
PROPERTIES
  EvidenceLocked
  OrphansAreTransient
CHECK_DEADLOCK FALSE
