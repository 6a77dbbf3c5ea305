SPECIFICATION SessionSpec
CONSTANTS
  Settings = {s1}
  KeptLines = 1
  MaxPrinted = 1
  MaxUses = 4
  MaxOthers = 1
PROPERTIES
  FlashPortReturns
CHECK_DEADLOCK FALSE
