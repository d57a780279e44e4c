\* Handlers on the event loop, two slots, a heap with room for one of the
\* five tasks.
CONSTANTS
  t1 = t1
  t2 = t2
  t3 = t3
  t4 = t4
  t5 = t5
  NoLimit = NoLimit
  NoTask = NoTask
  Tasks <- MCTasks
  LoopTasks <- MCTasks
  Rank <- MCRank
  Concurrency = 2
  MaxSize = 1
  NewConfigs <- MCNoConfigs
SPECIFICATION FairSpec
INVARIANTS ConcurrencyCap BackpressureCap NoIdleSlot NoLostWakeup
PROPERTY KeepsPromise AcceptedTaskRuns
CHECK_DEADLOCK FALSE
