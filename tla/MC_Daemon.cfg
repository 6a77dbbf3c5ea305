SPECIFICATION DaemonSpec
CONSTANTS
  Port = {p1}
  Client = {c1, c2}
  Value = {9600, 115200}
  Default = 115200
  None = None
  Kinds = {"open", "reconfigure", "close", "write", "transfer", "esp"}
  Exclusive = FALSE
  MaxOpens = 4
  MaxRequests = 3
  MaxUnplugs = 1
  MaxRestarts = 1
  Holder = {h1, h2}
  Periods = {0, 2}
  FirstPeriod = 2
  Check = 1
  Renew = 1
  Ttl = 3
  MaxTime = 5
  MaxData = 1
  MaxTrims = 1
  MaxAsked = 2
  MaxEvents = 4
SYMMETRY Symmetry
INVARIANTS
  OneReader
  RecordTrue
  SettingsTrue
  NeverStuck
  StopsInTime
PROPERTIES
  NotUnderAnybody
CHECK_DEADLOCK FALSE
