SPECIFICATION PersistentSpec
CONSTANTS
  Conflicts = {e1, e2}
  Handlers = {h1}
  EvidenceMayFail = FALSE
  MaxBreaks = 0
PROPERTIES
  StaleApprovalsAreRetaken
CHECK_DEADLOCK FALSE
