SPECIFICATION OrderedSpec
CONSTANTS
  c1 = c1
  c2 = c2
  Client <- TwoClients
  Kinds <- AllKinds
  MaxDaemons = 3
  MaxCrashes = 1
INVARIANTS
  NotLost
PROPERTIES
  ImplementsRequests
  RequestsSettle
CHECK_DEADLOCK FALSE
