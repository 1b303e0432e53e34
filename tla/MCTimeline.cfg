SPECIFICATION Spec
CONSTANTS
  MaxRows = 4
  MaxTotal = 4
  MaxEpoch = 2
  PageSize = 1
  MaxFaults = 2
  Disturbances = {"rewind", "reload", "fail", "link", "restart", "foreground", "older", "membership"}
  Lapses = {}
INVARIANTS TypeOK HeldIsWhole SettledIsCurrent DetachedIsCatchingUp
PROPERTIES EndOnlyAdvances
CHECK_DEADLOCK FALSE
