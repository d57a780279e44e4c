------------------------------ MODULE Periodic ------------------------------
(* What the schedules of periodic.py have in common: the instances that    *)
(* run a PeriodicScheduler, and the time they read.                        *)
EXTENDS Integers

CONSTANTS
    Instances,   \* processes with the same schedules
    MaxTime      \* bound: the clock stops here

ASSUME ClockAssumption == MaxTime \in Nat

VARIABLE now     \* the clock

Times == 0 .. MaxTime
=============================================================================
