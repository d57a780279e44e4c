---------------------------- MODULE MCProcessPool ----------------------------
(* Three tasks with a retry each, and pools enough for two deaths.         *)
EXTENDS ProcessPool

CONSTANTS a, b, c

MCTasks == {a, b, c}
=============================================================================
