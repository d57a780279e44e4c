\* Two instances of one schedule with phases, delays and restarts of their own.
CONSTANTS
  i1 = i1
  i2 = i2
  NoTime = NoTime
  Instances <- MCInstances
  Setups <- MCSetups
  Second = 2
  CronLock = 4
  MaxLate = 1
  QueueMax = 1
  MaxTime = 11
SYMMETRY MCSymmetry
SPECIFICATION Spec
INVARIANTS ScheduleIsServed
PROPERTY FiringsApart
CHECK_DEADLOCK FALSE
