SPECIFICATION SurfacesSpec
CONSTANTS
  Settings = {s1, s2}
  KeptLines = 2
  MaxPrinted = 3
  MaxUses = 4
  MaxOthers = 1
  LineTexts = {a, b}
  MaxShown = 3
  FetchLimit = 2
  MaxExport = 2
  MaxRows = 3
  MaxViews = 3
  Texts = {a, b}
  Paths = {path}
  MaxHistory = 2
  MaxKeys = 8
  MaxRequests = 4
  MaxChanges = 3
  MaxFields = 4
  Ports = {p1, p2}
  MaxCommands = 2
  MaxClicks = 3
  Devices = {p1, p2}
  MaxProcesses = 3
  Place = {p1, p2}
  MaxEvents = 3
  Saver = {c1, c2}
  Typed <- Periods
  MaxPeriod = 100000
  MaxSaves = 2
  MaxEdits = 1
INVARIANTS
  FlashTold
  FlagTrue
  FilterTrue
  RestPanelFresh
  WindowsAccounted
PROPERTIES
  AnswersHold
CHECK_DEADLOCK FALSE
