---------------------------- MODULE MCExecutors -----------------------------
(* Three coroutines with one slot, or three functions with two threads;    *)
(* one of the tasks is added by a handler in a thread.                     *)
EXTENDS Executors

CONSTANTS a, b, c

MCTasks == {a, b, c}
MCKinds == {[t \in {a, b, c} |-> k] : k \in {"async", "thread"}}
MCPriority == [t \in {a, b, c} |-> IF t = c THEN 1 ELSE 0]
MCFromThread == {b}
=============================================================================
