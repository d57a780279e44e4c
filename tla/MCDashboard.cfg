\* One dashboard, one request that retries, deletions and a peer's flush.
CONSTANTS
  a = a
  n1 = n1
  s1 = s1
  s2 = s2
  r1 = r1
  Nobody = Nobody
  Tasks <- MCTasks
  Retries <- MCRetries
  Streams <- MCStreams
  Requests <- MCRequests
  Replaces = TRUE
SPECIFICATION Spec
INVARIANTS TypeOK RetryKeepsWork UnfinishedStays CacheNotBehind
CHECK_DEADLOCK FALSE
