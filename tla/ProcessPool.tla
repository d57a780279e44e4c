----------------------------- MODULE ProcessPool -----------------------------
(* ProcessExecutor (executors/process_executor.py): the pool of worker     *)
(* processes that is made at the first dispatch, its reset when a worker   *)
(* dies, its shutdown, and the retries of the tasks around it.             *)
(*                                                                         *)
(* concurrent.futures.ProcessPoolExecutor is external: the death of a      *)
(* worker breaks its pool, every future of the pool that is not done gets  *)
(* BrokenProcessPool, and submit() to a broken pool raises.                *)
EXTENDS Naturals

CONSTANTS
    ProcessTasks, \* tasks whose functions run in worker processes
    Retries,      \* retries of a task after its first attempt
    MaxPools,     \* bound: pools that are made
    NoPool        \* None

ASSUME PoolAssumption == /\ Retries \in Nat
                         /\ MaxPools \in Nat \ {0}
                         /\ NoPool \notin Nat

Pools == 1 .. MaxPools

VARIABLES
    pool,      \* _pool
    made,      \* pools made so far
    broken,    \* pools of which a worker has died
    shut,      \* _shutdown_called and where shutdown() is
    closing,   \* the pool that shutdown() has taken
    swept,     \* whether its waiting calls have been cancelled
    stage,     \* where each task's dispatch is
    home,      \* the pool it was submitted to
    left,      \* attempts after this one
    ghost,     \* tasks whose dispatch was cancelled and whose function runs on
    reported,  \* history: pools that a dispatch has said to be reset
    abandoned  \* history: pools that were given up without a worker's death

processVars == <<pool, made, broken, shut, closing, swept, stage, home,
                 left, ghost, reported, abandoned>>
pools == <<pool, made, broken, reported, abandoned>>
closure == <<shut, closing, swept>>

InPool == {"queued", "running"}
Ended == {"done", "failed", "cancelled"}

ProcessTypeOK ==
    /\ pool \in Pools \cup {NoPool}
    /\ made \in 0 .. MaxPools
    /\ {broken, reported, abandoned} \subseteq SUBSET (1 .. made)
    /\ shut \in {"up", "draining", "drained", "forced"}
    /\ closing \in Pools \cup {NoPool}
    /\ swept \in BOOLEAN
    /\ shut # "up" => pool = NoPool
    /\ stage \in [ProcessTasks -> {"idle", "returned", "raised", "lost"} \cup InPool \cup Ended]
    /\ home \in [ProcessTasks -> Pools \cup {NoPool}]
    /\ left \in [ProcessTasks -> 0 .. Retries]
    /\ ghost \subseteq ProcessTasks

ProcessInit ==
    /\ pool = NoPool /\ made = 0 /\ broken = {}
    /\ shut = "up" /\ closing = NoPool /\ swept = FALSE
    /\ stage = [t \in ProcessTasks |-> "idle"]
    /\ home = [t \in ProcessTasks |-> NoPool]
    /\ left = [t \in ProcessTasks |-> Retries]
    /\ ghost = {} /\ reported = {} /\ abandoned = {}

-----------------------------------------------------------------------------
(* dispatch() raises: the retry loop counts the attempt.                   *)
AttemptFails(t) ==
    /\ stage' = [stage EXCEPT ![t] = IF left[t] = 0 THEN "failed" ELSE "idle"]
    /\ left' = [left EXCEPT ![t] = IF left[t] = 0 THEN 0 ELSE left[t] - 1]
    /\ home' = [home EXCEPT ![t] = NoPool]

(* _ensure_pool().                                                         *)
EnsurePool ==
    /\ shut = "up"
    /\ \/ pool # NoPool /\ pool' = pool /\ made' = made
       \/ pool = NoPool /\ made < MaxPools /\ made' = made + 1 /\ pool' = made'

(* dispatch() up to its await.                                             *)
DispatchToPool(t) ==
    /\ stage[t] = "idle"
    /\ EnsurePool
    /\ pool' \notin broken
    /\ stage' = [stage EXCEPT ![t] = "queued"]
    /\ home' = [home EXCEPT ![t] = pool']
    /\ UNCHANGED <<broken, closure, left, ghost, reported, abandoned>>

(* _ensure_pool() raises after the shutdown, and submit() of a broken pool *)
(* raises before dispatch() looks for that: the pool stays.                *)
DispatchRefused(t) ==
    /\ stage[t] = "idle"
    /\ shut # "up" \/ pool \in broken
    /\ AttemptFails(t)
    /\ UNCHANGED <<pools, closure, ghost>>

(* A worker takes the call: its future cannot be cancelled any more.       *)
Begin(t) ==
    /\ stage[t] = "queued" /\ home[t] \notin broken
    /\ stage' = [stage EXCEPT ![t] = "running"]
    /\ UNCHANGED <<pools, closure, home, left, ghost>>

(* The function returns or raises and the future has its outcome.          *)
Finish(t, outcome) ==
    /\ stage[t] = "running"
    /\ stage' = [stage EXCEPT ![t] = outcome]
    /\ UNCHANGED <<pools, closure, home, left, ghost>>

GhostEnds(t) ==
    /\ t \in ghost
    /\ ghost' = ghost \ {t}
    /\ home' = [home EXCEPT ![t] = NoPool]
    /\ UNCHANGED <<pools, closure, stage, left>>

\* Mutant: the calls that no worker has taken yet are forgotten.
WorkerDiesAlone(p) ==
    /\ p \notin broken
    /\ p = pool \/ \E t \in ProcessTasks : home[t] = p
    /\ p <= made
    /\ broken' = broken \cup {p}
    /\ stage' = [t \in ProcessTasks |-> IF home[t] = p /\ stage[t] = "running" THEN "lost" ELSE stage[t]]
    /\ ghost' = {t \in ghost : home[t] # p}
    /\ UNCHANGED <<pool, made, reported, abandoned, closure, home, left>>

(* A worker dies, idle or not.  A pool that nobody refers to is gone when  *)
(* its last call has ended.                                                *)
WorkerDies(p) ==
    /\ p \notin broken
    /\ p = pool \/ \E t \in ProcessTasks : home[t] = p
    /\ p <= made
    /\ broken' = broken \cup {p}
    /\ stage' = [t \in ProcessTasks |-> IF home[t] = p /\ stage[t] \in InPool THEN "lost" ELSE stage[t]]
    /\ ghost' = {t \in ghost : home[t] # p}
    /\ UNCHANGED <<pool, made, reported, abandoned, closure, home, left>>

-----------------------------------------------------------------------------
(* The event loop gets to the outcome of a future.                         *)
Return(t) ==
    /\ stage[t] = "returned"
    /\ stage' = [stage EXCEPT ![t] = "done"]
    /\ home' = [home EXCEPT ![t] = NoPool]
    /\ UNCHANGED <<pools, closure, left, ghost>>

Raise(t) ==
    /\ stage[t] = "raised"
    /\ AttemptFails(t)
    /\ UNCHANGED <<pools, closure, ghost>>

\* Mutant: the message without the reset.
ReportWithoutReset(t) ==
    /\ stage[t] = "lost"
    /\ reported' = reported \cup {home[t]}
    /\ AttemptFails(t)
    /\ UNCHANGED <<pool, made, broken, abandoned, closure, ghost>>

(* BrokenExecutor: whatever pool there is by now is given up.              *)
ReportBroken(t) ==
    /\ stage[t] = "lost"
    /\ pool' = NoPool
    /\ reported' = reported \cup {home[t]}
    /\ abandoned' = abandoned \cup ({pool} \ (broken \cup {NoPool}))
    /\ AttemptFails(t)
    /\ UNCHANGED <<made, broken, closure, ghost>>

(* The dispatch is cancelled.  A call that has begun goes on, and an       *)
(* outcome that has come in just before is lost.                           *)
CancelDispatch(t) ==
    /\ stage[t] \in InPool \cup {"returned", "raised", "lost"}
    /\ stage' = [stage EXCEPT ![t] = "cancelled"]
    /\ IF stage[t] = "running"
       THEN ghost' = ghost \cup {t} /\ home' = home
       ELSE ghost' = ghost /\ home' = [home EXCEPT ![t] = NoPool]
    /\ UNCHANGED <<pools, closure, left>>

-----------------------------------------------------------------------------
Busy(p) == \E t \in ProcessTasks : home[t] = p /\ (stage[t] = "running" \/ t \in ghost)

(* shutdown() up to its await: the pool is taken away, and nothing else.   *)
Shutdown ==
    /\ shut = "up"
    /\ shut' = IF pool = NoPool THEN "drained" ELSE "draining"
    /\ closing' = pool
    /\ pool' = NoPool
    /\ UNCHANGED <<made, broken, swept, stage, home, left, ghost, reported, abandoned>>

(* A thread of the default pool has got to one of the two lambdas, the     *)
(* second of which comes after the timeout: cancel_futures makes the       *)
(* manager thread of the pool cancel what no worker has taken by then.     *)
CutQueued ==
    /\ shut \in {"draining", "forced"} /\ ~swept
    /\ swept' = TRUE
    /\ LET cut(t) == home[t] = closing /\ stage[t] = "queued"
       IN  /\ stage' = [t \in ProcessTasks |-> IF cut(t) THEN "cancelled" ELSE stage[t]]
           /\ home' = [t \in ProcessTasks |-> IF cut(t) THEN NoPool ELSE home[t]]
    /\ UNCHANGED <<pools, shut, closing, left, ghost>>

\* Mutant: wait=False.
DrainedAtOnce ==
    /\ shut = "draining" /\ swept
    /\ shut' = "drained"
    /\ UNCHANGED <<pools, closing, swept, stage, home, left, ghost>>

(* The manager thread ends, when nothing waits or runs or its pool is      *)
(* broken: pool.shutdown(wait=True) comes back.                            *)
Drained ==
    /\ shut = "draining"
    /\ (swept /\ ~Busy(closing)) \/ closing \in broken
    /\ shut' = "drained"
    /\ UNCHANGED <<pools, closing, swept, stage, home, left, ghost>>

(* The timeout, also of a lambda that no thread has got to:                *)
(* pool.shutdown(wait=False) stops no worker.                              *)
Forced ==
    /\ shut = "draining"
    /\ shut' = "forced"
    /\ UNCHANGED <<pools, closing, swept, stage, home, left, ghost>>

-----------------------------------------------------------------------------
ProcessNext ==
    \/ \E t \in ProcessTasks :
         \/ DispatchToPool(t) \/ DispatchRefused(t) \/ Begin(t)
         \/ \E outcome \in {"returned", "raised"} : Finish(t, outcome)
         \/ GhostEnds(t)
         \/ Return(t) \/ Raise(t) \/ ReportBroken(t) \/ CancelDispatch(t)
    \/ \E p \in Pools : WorkerDies(p)
    \/ Shutdown \/ CutQueued \/ Drained \/ Forced

ProcessSpec == ProcessInit /\ [][ProcessNext]_processVars

(* Workers take the calls of a pool, functions end, the loop goes on.      *)
ProcessFairness ==
    \A t \in ProcessTasks :
        /\ WF_processVars(Begin(t) \/ \E outcome \in {"returned", "raised"} : Finish(t, outcome))
        /\ WF_processVars(Return(t) \/ Raise(t) \/ ReportBroken(t))
        /\ WF_processVars(DispatchRefused(t))

ProcessFairSpec == ProcessSpec /\ ProcessFairness

-----------------------------------------------------------------------------
(* "The process pool has been reset" (process_executor.py:583): from then  *)
(* on no dispatch is given that pool, whichever other pools break.         *)
ResetHolds == pool \notin reported

(* When shutdown() has drained the pool, no call of it waits or runs, and  *)
(* none waits once the waiting ones were cancelled, though workers go on   *)
(* taking them until then (process_executor.py:626).  Nobody waits for a   *)
(* pool that a late report of another pool's death has dropped.            *)
ShutdownStopsAll ==
    \A t \in ProcessTasks :
        /\ swept /\ stage[t] = "queued" => home[t] \in abandoned
        /\ shut = "drained" /\ (stage[t] \in InPool \/ t \in ghost) => home[t] \in abandoned

(* Whatever dies, is dropped or shut down, a dispatch that has been        *)
(* accepted comes back to the retry loop.                                  *)
DispatchesEnd ==
    \A t \in ProcessTasks : stage[t] = "queued" ~> stage[t] \in Ended \cup {"idle"}
=============================================================================
