SPECIFICATION Spec
CONSTANTS
  LoopbackIps = {"lo"}
  NetworkIps = {"lan"}
  WildcardIp = "any"
  NoIp = "name"
  PortNumbers = {1, 2}
  AnyPort = 0
  Tokens = {t1, t2}
  None = None
  ConfigPort = 1
  ConfigToken = None
  MaxListeners = 2
  NumJobs = 2
  Followers = {f1}
  JobsKept = 1
  MaxLines = 2
  PageSize = 2
  MaxBreaks = 1
  MaxReplaced = 1
INVARIANTS GuardsHold StreamsFaithful
PROPERTIES SwitchTrue ImplementsFeeds StreamEnds
CHECK_DEADLOCK FALSE
