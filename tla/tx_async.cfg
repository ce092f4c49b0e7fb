SPECIFICATION Spec
CONSTANTS
  Handles = {h1, h2}
  Executor = {e1, e2, e3}
  None = None
  MaxStmts = 2
  Api = "async"
  Stmts = {"text"}
  Faults = {"filter", "timeout", "sql", "drop"}
  ReuseEnded = TRUE
SYMMETRY Interchangeable
INVARIANTS CommittedDurable RolledBackInvisible StartedInvisible PooledClean ExclusiveExecutor
PROPERTY OutcomeStable
