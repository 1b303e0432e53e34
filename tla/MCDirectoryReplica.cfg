SPECIFICATION Spec
CONSTANTS
  Ids = {w1, w2}
  Contents = {a, b}
  None = None
  MaxTombstones = 1
  Quiet = {}
  MaxChanges = 2
  MaxFaults = 2
  MaxEvents = 3
  Disturbances = {"cut", "crash", "kill", "other", "fail", "force", "drop"}
  Lapses = {}
INVARIANTS TypeOK CursorHidesNothing SettledHoldsAll DemandIsServed
SYMMETRY Symmetry
CHECK_DEADLOCK FALSE
