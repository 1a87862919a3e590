SPECIFICATION Spec
CONSTANTS
  claimant = claimant
  approver1 = approver1
  approver2 = approver2
  finance = finance
  None = None
  Users <- MCUsers
  Role <- MCRole
  Amounts <- MCAmounts
  Threshold = 150
  MaxMoney = 350
  MaxCycle = 2
  ClaimIds = {k1}
  ItemIds = {i1, i2}
INVARIANTS
  TypeOK
  TotalIsSumOfItems
  FinanceDecidesAboveThreshold
  ReviewIsSound
  DecisionIsOfThisRound
  ClockRunsForHolder
  OwnDecisionsStayInScope
  ReviewIsOnOneDashboard
PROPERTIES
  ClosedForGood
  OnlyHolderMovesReview
  ImplementsWorkflow
CHECK_DEADLOCK TRUE
