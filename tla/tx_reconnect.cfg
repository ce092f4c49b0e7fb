SPECIFICATION Spec
CONSTANTS
  Handles = {h1, h2}
  Executor = {e1, e2}
  None = None
  MaxStmts = 3
  Api = "async"
  Stmts = {"text", "prepared"}
  Faults = {"drop"}
  ReuseEnded = FALSE
SYMMETRY Interchangeable
INVARIANT CommittedDurable
