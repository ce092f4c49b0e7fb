SPECIFICATION Spec
CONSTANTS
  Calls <- MCCalls
  MinBuffer = 1
  MaxRows = 3
  Lengths = {0, 1, 3, 4}
  FreeResult = {TRUE}
  FetchColumnFails = FALSE
INVARIANTS RowsFaithful
CHECK_DEADLOCK FALSE
