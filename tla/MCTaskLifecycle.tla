--------------------------- MODULE MCTaskLifecycle ---------------------------
(* A coroutine and a process task under one idempotency key, of which the  *)
(* latter is retried and may be requeued, and a task of its own that is    *)
(* submitted from a pool thread.                                           *)
EXTENDS TaskLifecycle

CONSTANTS a, b, p, k

MCTasks == {a, b, p}
MCRetries == [t \in {a, b, p} |-> IF t = p THEN 1 ELSE 0]
MCKey == [t \in {a, b, p} |-> IF t = b THEN NoKey ELSE k]
MCProcess == {p}
MCThread == {b}
=============================================================================
