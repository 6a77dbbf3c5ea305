SPECIFICATION ClientsSpec
CONSTANTS
  Daemon = {d1, d2, d3}
  None = None
  LockTries = 2
  LongPauses = TRUE
  MaxKills = 1
  MaxStops = 1
  Processes = {c1, c2}
  Asks = {"list", "read --follow", "send", "serial_break", "serial_open",
          "serial_esp_info"}
  MaxEnds = 2
  MaxCalls = 3
  PageSize = 2
  MaxScan = 4
  MaxLimit = 2
  MaxId = 5
  MaxRemovals = 2
  Alphabet <- Typeable
  MaxTyped = 3
  Payloads <- ShortPayloads
  MaxRecords = 2
  MaxEvents = 4
  MaxDowns = 1
SYMMETRY Symmetry
INVARIANTS
  StartsExclude
  ServerKnown
  CommandsTrue
  ContentTrue
PROPERTIES
  HintsTrue
CHECK_DEADLOCK FALSE
