SPECIFICATION FairSpec
CONSTANTS
  BatchSize = 2
  ChannelCapacity = 1
  BatchesPerTrim = 2
  MaxBufferLines = 1
  ReadSize = 2
  MaxAttempts = 2
  MaxBytes = 4
  MaxUnplugs = 1
  MaxCrashes = 1
  MaxDbErrors = 1
INVARIANTS
  LogFaithful
  EndsCleanly
PROPERTIES
  ImplementsLog
  EveryLineSettled
  ShutdownEnds
  Reconnects
CHECK_DEADLOCK FALSE
