SPECIFICATION Spec
CONSTANTS
  Claims = {c1}
  Approvers = {a1, a2}
  Finance = {f1, f2}
  Runs = {r1, r2}
  FirstAfter = 2
  RepeatEvery = 1
  MaxCount = 1
  MaxCrashes = 1
  MaxLost = 1
  None = None
INVARIANTS
  BookkeepingAgrees
  OneReminderPerWindow
  AuditMatchesMail
SYMMETRY Interchangeable
