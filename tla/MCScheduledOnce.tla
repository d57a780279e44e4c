--------------------------- MODULE MCScheduledOnce ---------------------------
(* Two instances that share the row of one key, of which one is asked to   *)
(* schedule and to cancel it; the function may be unknown to either.       *)
EXTENDS ScheduledOnce

CONSTANTS i1, i2

MCInstances == {i1, i2}
MCOneServer == {i1}
=============================================================================
