SPECIFICATION Spec
CONSTANTS
  Port = {p1}
  Client = {c1}
  Value = {9600, 115200}
  Default = 9600
  None = None
  Kinds = {"open", "reconfigure"}
  Exclusive = FALSE
  MaxOpens = 4
  MaxRequests = 3
  MaxUnplugs = 1
  MaxRestarts = 0
INVARIANTS
  TableIsEffective
CHECK_DEADLOCK FALSE
