\* Two schedules of the key, a window of one tick, one crash or failed claim.
CONSTANTS
  i1 = i1
  i2 = i2
  Instances <- MCInstances
  Servers <- MCOneServer
  Horizon = 1
  MaxTime = 2
  MaxSchedules = 2
  MaxFaults = 1
SPECIFICATION OnceFairSpec
INVARIANTS NoExtraFiring
PROPERTIES CancelHolds StoredScheduleIsServed
