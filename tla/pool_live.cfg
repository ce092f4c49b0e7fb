SPECIFICATION FairSpec
CONSTANTS
  Threads = {t1, t2}
  Executor = {e1, e2, e3, e4}
  None = None
  MaxSize = 2
  MaxIdleTime = 1
  NumShards = 1
  RetryNum = 1
  UintMod = 1000
  Rets = {0, 1}
  JoinBeforeStop = TRUE
  MaxCalls = 4

PROPERTIES GetReturns ShutdownDrains ImplementsPool
