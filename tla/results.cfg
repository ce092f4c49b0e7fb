SPECIFICATION Spec
CONSTANTS
  Object = {o1, o2, o3}
  Res = {r1, r2, r3, r4}
  None = None
  MaxRows = 2
  MaxCalls = 4
  ReuseFailed = TRUE
  MoveFailed = FALSE
  OutOfMemory = FALSE
SYMMETRY Interchangeable
INVARIANTS TypeOK RawOwnedOnce ViewsValid ResultConsistent FailureReported StoredResultsFreed
