\* Two tasks under one key and one submitted from a pool thread.
CONSTANTS
  a = a
  b = b
  p = p
  k = k
  NoKey = NoKey
  NoTask = NoTask
  Tasks <- MCTasks
  Retries <- MCRetries
  RequeueSafe <- MCProcess
  ProcessTasks <- MCProcess
  ThreadTasks <- MCThread
  Key <- MCKey
  RequeuePending = TRUE
SPECIFICATION FairSpec
INVARIANTS FailedMeansExhausted OneCompletionPerKey NothingUnfinishedLost
PROPERTY ShutdownVerdictStands TasksSettle
CHECK_DEADLOCK FALSE
