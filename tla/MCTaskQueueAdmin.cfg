\* An operator reconfigures a queue fed from the event loop and from pool
\* threads.
CONSTANTS
  t1 = t1
  t2 = t2
  t3 = t3
  t4 = t4
  t5 = t5
  NoLimit = NoLimit
  NoTask = NoTask
  Tasks <- MCThreeTasks
  LoopTasks <- MCMixed
  Rank <- MCThreeRank
  Concurrency = 2
  MaxSize = 1
  NewConfigs <- MCConfigs
SPECIFICATION AdminSpec
INVARIANTS DispatchOrder
CHECK_DEADLOCK FALSE
