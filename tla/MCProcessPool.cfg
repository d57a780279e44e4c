\* Three tasks, a retry each, three pools.
CONSTANTS
  a = a
  b = b
  c = c
  ProcessTasks <- MCTasks
  Retries = 1
  MaxPools = 3
  NoPool = NoPool
SPECIFICATION ProcessFairSpec
INVARIANTS ResetHolds ShutdownStopsAll
PROPERTY DispatchesEnd
CHECK_DEADLOCK FALSE
