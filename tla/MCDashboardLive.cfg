\* Two streams at the cache and the store, deletions, a peer's flush.
CONSTANTS
  a = a
  n1 = n1
  s1 = s1
  s2 = s2
  r1 = r1
  Nobody = Nobody
  Tasks <- MCTasks
  Retries = {}
  Streams <- MCTwoStreams
  Requests = {}
  Replaces = TRUE
SPECIFICATION FairSpec
PROPERTIES StreamsEnd DashboardCatchesUp
CHECK_DEADLOCK FALSE
