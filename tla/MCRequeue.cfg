\* Two instances, two tasks, three startups in all, crashes at any point.
CONSTANTS
  i1 = i1
  i2 = i2
  a = a
  b = b
  Instances <- MCInstances
  Tasks <- MCTasks
  RequeueSafe <- MCSafe
  Registered <- MCTasks
  MaxStarts = 3
SPECIFICATION Spec
INVARIANTS OneRunner NoRerunOfCompleted
PROPERTIES OwnershipKept
CHECK_DEADLOCK FALSE
