SPECIFICATION Spec
CONSTANTS
  Scenes <- WhoMeets
  MaxBufferLines = 2
  BatchesPerTrim = 2
  FetchLimit = 2
  DisplayLimit = 2
  FollowBatch = 2
  TailCount = 2
  MaxBatch = 2
  MaxId = 4
  MaxNotes = 1
  OldBatches = 1
INVARIANTS
  FollowerFaithful
  DeletionTrue
PROPERTIES
  ScreenFollowsLog
CHECK_DEADLOCK FALSE
