SPECIFICATION Spec
CONSTANTS
  Uses <- MCUses
  Callers = {c1, c2}
  Workers = {w1, w2}
  Nesting = {c1}
  Transacting = {c2}
  Executor = {e1, e2, e3}
  None = None
  MaxConfigs = 1
  StopDrains = TRUE
  BusyConfig = FALSE
INVARIANTS TypeOK  ManagerOutlivesTasks ConfigApplied NoExecutorLost
PROPERTY CallReturns
CHECK_DEADLOCK FALSE
