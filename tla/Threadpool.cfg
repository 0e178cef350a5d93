SPECIFICATION PoolFairSpec
CONSTANTS
  Threads = {w1, w2, c1, c2}
  Workers = {w1, w2}
  Puts <- PoolPuts
  Gets <- PoolGets
  Modes <- PoolModes
  Priorities <- OnePriority
  Limits = {1, 2}
  Controls <- PoolControls
  MaxItems = 2
  InitialWorkers = 1
  InitialLimit = 1
  Changes <- OneMoreOrLess
  MaxCalls = 3
CHECK_DEADLOCK FALSE
INVARIANTS PoolTypeOK DrainedIsDone
PROPERTIES ImplementsTaskPool AcceptedRuns StopReturns
