SPECIFICATION Spec
CONSTANTS
  claimant = claimant
  approver1 = approver1
  approver2 = approver2
  former = former
  finance = finance
  None = None
  i1 = i1
  i2 = i2
  Users <- MCUsers
  Active <- MCActive
  Role <- MCRole
  Threshold = 1
  Claims = {1, 2}
  ItemIds = {i1, i2}
  Requests = {r1, r2}
  Operations <- MCOperations
  InitRows <- MCInitRows
INVARIANTS
  CommittedTotalIsSum
  CountsAreFresh
PROPERTIES
  CommitsFollowWorkflow
  AuditTrailIsContinuous
  OnlyTheHolderHandsOver
  RequestsEnd
CHECK_DEADLOCK FALSE
