SPECIFICATION Spec
CONSTANTS
  Claims = {c1, c2}
  Approvers = {a1}
  Finance = {f1}
  Runs = {r1}
  FirstAfter = 1
  RepeatEvery = 1
  MaxCount = 1
  MaxCrashes = 1
  MaxLost = 0
  None = None
PROPERTIES
  WaitingIsReminded
