\* Two instances that start, beat, stop and crash.
SPECIFICATION Spec
CONSTANTS
    p = p
    q = q
    Instances <- MCInstances
    Interval = 2
    Delay = 1
    Ttl = 6
    NoEntry = NoEntry
INVARIANTS GoneAreForgotten UpAreListed
CHECK_DEADLOCK FALSE
