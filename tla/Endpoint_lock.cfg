SPECIFICATION Spec
CONSTANTS
  Daemon = {d1, d2, d3}
  None = None
  LockTries = 2
  LongPauses = FALSE
  MaxKills = 0
  MaxStops = 1
INVARIANTS
  LiveSocketKept
CHECK_DEADLOCK FALSE
