SPECIFICATION SessionSpec
CONSTANTS
  tab1 = tab1
  tab2 = tab2
  slot1 = slot1
  slot2 = slot2
  user1 = user1
  user2 = user2
  None = None
  BrowserTabs = {tab1, tab2}
  Readers = {tab1}
  Slots = {slot1, slot2}
  Users <- MCUsers
  Role <- MCRole
  Threshold = 0
  MaxSignIns <- MCMaxSignIns
SYMMETRY Symmetry
INVARIANTS
  CacheIsOfThisSignIn
  OwnAnswersOnly
CHECK_DEADLOCK FALSE
