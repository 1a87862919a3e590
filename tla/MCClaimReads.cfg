SPECIFICATION Spec
CONSTANTS
  claimant = claimant
  approver1 = approver1
  approver2 = approver2
  finance = finance
  None = None
  Users <- MCUsers
  Role <- MCRole
  Threshold = 0
  Claims = {1, 2, 3}
  Created <- MCCreated
  MaxOps = 2
  Viewers = {approver1, finance}
  Views <- MCViews
  PageSize = 1
  MaxBulk = 2
  MaxPage = 2
  MaxMoves = 2
  MaxSteps = 3
  Exporter = finance
  BatchSize = 2
  Tables <- MCTables
INVARIANTS
  HandoverFailsForCause
  HandoverIsShown
  ExportErrsForCause
  UnfilteredExportIsComplete
CHECK_DEADLOCK FALSE
