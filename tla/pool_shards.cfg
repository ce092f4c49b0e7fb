SPECIFICATION Spec
CONSTANTS
  Threads = {t1, t2}
  Executor = {e1, e2, e3, e4, e5}
  None = None
  MaxSize = 2
  MaxIdleTime = 1
  NumShards = 3
  RetryNum = 3
  UintMod = 4
  Rets = {0, 1}
  JoinBeforeStop = TRUE
  MaxCalls = 5
SYMMETRY Interchangeable
INVARIANTS TypeOK ExclusiveOwnership PoolBounded DestructorSafe NoSessionLeaked
