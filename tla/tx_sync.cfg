SPECIFICATION Spec
CONSTANTS
  Handles = {h1, h2}
  Executor = {e1, e2}
  None = None
  MaxStmts = 1
  Api = "sync"
  Stmts = {"text", "prepared"}
  Faults = {"sql", "drop", "replylost"}
  ReuseEnded = TRUE
SYMMETRY Interchangeable
INVARIANTS TypeOK PooledClean ExclusiveExecutor
