SPECIFICATION TextSpec
CONSTANTS
  Alphabet <- Digits
  MaxTyped = 4
  Payloads <- NoPayloads
  MaxRecords = 0
INVARIANT SameBytes
CHECK_DEADLOCK FALSE
