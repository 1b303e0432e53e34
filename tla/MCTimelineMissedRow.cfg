SPECIFICATION Spec
CONSTANTS
  MaxRows = 3
  MaxTotal = 3
  MaxEpoch = 1
  PageSize = 1
  MaxFaults = 1
  Disturbances = {"membership"}
  Lapses = {"resubscribe"}
INVARIANTS SettledIsCurrent
CHECK_DEADLOCK FALSE
