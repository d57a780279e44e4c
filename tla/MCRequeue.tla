------------------------------ MODULE MCRequeue ------------------------------
(* Two instances that start and stop, a task that may be requeued when     *)
(* interrupted and one that may not.                                       *)
EXTENDS Requeue

CONSTANTS i1, i2, a, b

MCInstances == {i1, i2}
MCTasks == {a, b}
MCSafe == {a}
=============================================================================
