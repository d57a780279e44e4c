----------------------------- MODULE MCTaskQueue -----------------------------
(* Small instances of TaskQueue: urgent and bulk tasks from the event loop *)
(* and from pool threads, one or two slots, room for one or two.           *)
EXTENDS TaskQueue

CONSTANTS t1, t2, t3, t4, t5

MCTasks == {t1, t2, t3, t4, t5}
MCThreeTasks == {t1, t2, t3}
MCRank == [t \in MCTasks |-> IF t = t3 THEN 9 ELSE IF t = t2 THEN 1 ELSE 0]
MCThreeRank == [t \in {t1, t2, t3} |-> IF t = t3 THEN 9 ELSE 0]
MCMixed == {t1, t3}
MCNoConfigs == {}
MCConfigs == {[concurrency |-> 1, maxSize |-> 2],
              [concurrency |-> 2, maxSize |-> NoLimit],
              [concurrency |-> NoLimit, maxSize |-> 1]}
=============================================================================
