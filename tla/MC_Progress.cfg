SPECIFICATION ProgressSpec
CONSTANTS
  Daemon = {d1, d2}
  None = None
  LockTries = 2
  LongPauses = TRUE
  MaxKills = 1
  MaxStops = 2
  Protocols <- BothProtocols
  Blocks = 6
  MaxRetries = 3
  Wrap = 5
  RestMax = 2
  Interval = 3
  BatchSize = 4
  LinesPerRead = 2
  Base = 1
  MaxBackoff = 2
  AttemptCap = 3
  MaxAttempts = 5
  MaxBare = 2
  Settings = {s1}
  KeptLines = 1
  MaxPrinted = 1
  MaxUses = 3
  MaxOthers = 1
  MaxPieces = 3
INVARIANTS
  FilesArrive
  LateByReads
PROPERTIES
  ImplementsDelivery
  StartSettles
  SendsEnd
  LinkSettles
CHECK_DEADLOCK FALSE
