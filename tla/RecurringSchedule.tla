-------------------------- MODULE RecurringSchedule --------------------------
(* One schedule registered with @task_manager.schedule(), driven by the    *)
(* scheduling loops of several instances that share a schedule lock in the *)
(* backend (periodic.py).                                                  *)
(*                                                                         *)
(* Time is counted in ticks.  A step of a loop takes no time of its own,   *)
(* but may come up to MaxLate ticks after it became possible: the event    *)
(* loop is busy, the thread pool of the backend is, the network is slow.   *)
EXTENDS Periodic

CONSTANTS
    Setups,      \* the ways the schedule may be registered, see Setup
    Second,      \* ticks per second
    CronLock,    \* ticks the lock of a cron entry lasts: a minute
    MaxLate,     \* ticks a step may be late
    QueueMax,    \* max_size of the schedule's named queue
    NoTime       \* not a time

\* every: ticks between runs, or between cron slots.  live: registered while
\* the scheduler already ran.  shared: a backend with a schedule lock.
Setup == [every: Nat \ {0}, cron: BOOLEAN, onStartup: BOOLEAN,
          live: BOOLEAN, shared: BOOLEAN]

ASSUME SetupsAssumption == Setups \subseteq Setup
ASSUME TicksAssumption ==
    /\ Second \in Nat \ {0}
    /\ CronLock \in Nat \ {0}
    /\ MaxLate \in Nat
    /\ QueueMax \in Nat \ {0}
    /\ NoTime \notin Nat

VARIABLES
    setup,     \* how the schedule is registered, the same in every instance
    loop,      \* where _run() is
    queuesUp,  \* TaskManager._queues is not empty
    queued,    \* firings that wait in the named queue
    nextRun,   \* ScheduledEntry.next_run
    since,     \* when the loop began to wait for the lock, then when it got it
    lockUntil, \* expires_at of the lock, at or before now when it is free
    upSince,   \* history: when the instance started, or NoTime
    served,    \* history: when the latest firing was decided, or NoTime
    latest     \* history: the latest firing, [by, at], or NoTime

vars == <<setup, now, loop, queuesUp, queued, nextRun, since, lockUntil,
          upSince, served, latest>>
clocks == <<nextRun, since>>

TypeOK ==
    /\ setup \in Setups
    /\ now \in Times
    /\ loop \in [Instances -> {"down", "asleep", "locking", "firing", "dead"}]
    /\ queuesUp \in [Instances -> BOOLEAN]
    /\ queued \in [Instances -> 0 .. QueueMax]
    /\ nextRun \in [Instances -> Nat]
    /\ since \in [Instances -> Times]
    /\ lockUntil \in Nat
    /\ upSince \in [Instances -> Times \cup {NoTime}]
    /\ served \in Times \cup {NoTime}
    /\ latest \in [by: Instances, at: Times] \cup {NoTime}

-----------------------------------------------------------------------------
(* ScheduledEntry.compute_next(): an interval counts from the time it is   *)
(* given, a cron expression names the next slot of a fixed grid.           *)
ComputeNext(t) == IF setup.cron THEN ((t \div setup.every) + 1) * setup.every
                                ELSE t + setup.every

(* The lifetime of the lock: int() drops a fraction of a second, and a     *)
(* cron entry has a minute whatever its expression.                        *)
WholeSeconds(t) == (t \div Second) * Second
LockTtl == IF setup.cron THEN CronLock
           ELSE IF WholeSeconds(setup.every) < Second THEN Second
           ELSE WholeSeconds(setup.every)

Init ==
    /\ setup \in Setups
    /\ now = 0
    /\ loop = [i \in Instances |-> "down"]
    /\ queuesUp = [i \in Instances |-> FALSE]
    /\ queued = [i \in Instances |-> 0]
    /\ nextRun = [i \in Instances |-> 0]
    /\ since = [i \in Instances |-> 0]
    /\ lockUntil = 0
    /\ upSince = [i \in Instances |-> NoTime]
    /\ served = NoTime
    /\ latest = NoTime

-----------------------------------------------------------------------------
(* TaskManager.startup() and PeriodicScheduler.start(); _add_entry() for a *)
(* live registration, whose next_run is the time it was made.              *)
Start(i) ==
    /\ loop[i] = "down"
    /\ loop' = [loop EXCEPT ![i] = "asleep"]
    /\ nextRun' = [nextRun EXCEPT ![i] =
                      IF setup.onStartup \/ setup.live THEN now ELSE ComputeNext(now)]
    /\ upSince' = [upSince EXCEPT ![i] = now]
    /\ UNCHANGED <<setup, now, queuesUp, queued, since, lockUntil, served, latest>>

(* The end of startup(), some awaits later.                                *)
CreateQueues(i) ==
    /\ loop[i] # "down"
    /\ ~queuesUp[i]
    /\ queuesUp' = [queuesUp EXCEPT ![i] = TRUE]
    /\ UNCHANGED <<setup, now, loop, queued, clocks, lockUntil,
                   upSince, served, latest>>

(* The drainer takes a firing out of the heap.                             *)
Drain(i) ==
    /\ queued[i] > 0
    /\ queued' = [queued EXCEPT ![i] = @ - 1]
    /\ UNCHANGED <<setup, now, loop, queuesUp, clocks, lockUntil,
                   upSince, served, latest>>

-----------------------------------------------------------------------------
(* _dispatch(): into the named queue when there are queues, else straight  *)
(* onto the event loop.                                                    *)
Refused(i) == queuesUp[i] /\ queued[i] = QueueMax

Dispatch(i) ==
    /\ latest' = [by |-> i, at |-> now]
    /\ queued' = IF queuesUp[i] THEN [queued EXCEPT ![i] = @ + 1] ELSE queued
    /\ loop' = [loop EXCEPT ![i] = "asleep"]

(* QueueFullError leaves _run(): the loop's task is over.                  *)
Die(i) ==
    /\ loop' = [loop EXCEPT ![i] = "dead"]
    /\ UNCHANGED <<queued, latest>>

(* The loop wakes, pops the entry and moves next_run.  With a backend it   *)
(* then asks for the lock; without one it fires in the same step.          *)
PopDue(i) ==
    /\ loop[i] = "asleep"
    /\ nextRun[i] <= now
    /\ nextRun' = [nextRun EXCEPT ![i] = ComputeNext(now)]
    /\ IF setup.shared
       THEN /\ loop' = [loop EXCEPT ![i] = "locking"]
            /\ since' = [since EXCEPT ![i] = now]
            /\ UNCHANGED <<queued, latest, served>>
       ELSE /\ \/ ~Refused(i) /\ Dispatch(i)
               \/ Refused(i) /\ Die(i)
            /\ served' = now
            /\ UNCHANGED since
    /\ UNCHANGED <<setup, now, queuesUp, lockUntil, upSince>>

\* Mutant: an expired lock is not needed.
TakeAnyLock(i) ==
    /\ loop[i] = "locking"
    /\ lockUntil' = now + LockTtl
    /\ since' = [since EXCEPT ![i] = now]
    /\ served' = now
    /\ loop' = [loop EXCEPT ![i] = "firing"]
    /\ UNCHANGED <<setup, now, queuesUp, queued, nextRun, upSince, latest>>

\* Mutant: the lock is taken for two intervals.
TakeLongLock(i) ==
    /\ loop[i] = "locking"
    /\ lockUntil <= now
    /\ lockUntil' = now + 2 * LockTtl
    /\ since' = [since EXCEPT ![i] = now]
    /\ served' = now
    /\ loop' = [loop EXCEPT ![i] = "firing"]
    /\ UNCHANGED <<setup, now, queuesUp, queued, nextRun, upSince, latest>>

(* acquire_schedule_lock() in the backend: an expired lock is replaced in  *)
(* one transaction.                                                        *)
TakeLock(i) ==
    /\ loop[i] = "locking"
    /\ lockUntil <= now
    /\ lockUntil' = now + LockTtl
    /\ since' = [since EXCEPT ![i] = now]
    /\ served' = now
    /\ loop' = [loop EXCEPT ![i] = "firing"]
    /\ UNCHANGED <<setup, now, queuesUp, queued, nextRun, upSince, latest>>

(* Another instance holds the lock: this one skips the firing.             *)
SkipFiring(i) ==
    /\ loop[i] = "locking"
    /\ lockUntil > now
    /\ loop' = [loop EXCEPT ![i] = "asleep"]
    /\ UNCHANGED <<setup, now, queuesUp, queued, clocks, lockUntil,
                   upSince, served, latest>>

(* The rest of _fire(), once the loop hears that it has the lock.          *)
Fire(i) ==
    /\ loop[i] = "firing"
    /\ ~Refused(i)
    /\ Dispatch(i)
    /\ since' = [since EXCEPT ![i] = 0]
    /\ UNCHANGED <<setup, now, queuesUp, nextRun, lockUntil, upSince, served>>

FireRefused(i) ==
    /\ loop[i] = "firing"
    /\ Refused(i)
    /\ Die(i)
    /\ since' = [since EXCEPT ![i] = 0]
    /\ UNCHANGED <<setup, now, queuesUp, nextRun, lockUntil, upSince, served>>

-----------------------------------------------------------------------------
(* PeriodicScheduler.stop() in a shutdown, or a crash.  A request for the  *)
(* lock that is under way is still carried out by the backend's thread;    *)
(* nobody fires under that lock.                                           *)
Leave(i) ==
    /\ loop[i] # "down"
    /\ loop' = [loop EXCEPT ![i] = "down"]
    /\ queuesUp' = [queuesUp EXCEPT ![i] = FALSE]
    /\ queued' = [queued EXCEPT ![i] = 0]
    /\ upSince' = [upSince EXCEPT ![i] = NoTime]
    /\ nextRun' = [nextRun EXCEPT ![i] = 0]
    /\ since' = [since EXCEPT ![i] = 0]
    /\ \/ UNCHANGED <<lockUntil, served>>
       \/ /\ loop[i] = "locking"
          /\ lockUntil <= now
          /\ lockUntil' = now + LockTtl
          /\ served' = now
    /\ UNCHANGED <<setup, now, latest>>

-----------------------------------------------------------------------------
(* A loop that has been able to take its next step for MaxLate ticks takes *)
(* it before the clock goes on.                                            *)
Overdue(i) ==
    \/ loop[i] = "asleep" /\ now >= nextRun[i] + MaxLate
    \/ loop[i] \in {"locking", "firing"} /\ now >= since[i] + MaxLate

Tick ==
    /\ now < MaxTime
    /\ \A i \in Instances : ~Overdue(i)
    /\ now' = now + 1
    /\ UNCHANGED <<setup, loop, queuesUp, queued, clocks, lockUntil,
                   upSince, served, latest>>

Step(i) ==
    \/ Start(i) \/ CreateQueues(i) \/ Drain(i)
    \/ PopDue(i) \/ TakeLock(i) \/ SkipFiring(i) \/ Fire(i) \/ FireRefused(i)
    \/ Leave(i)

Next == Tick \/ \E i \in Instances : Step(i)

Spec == Init /\ [][Next]_vars

-----------------------------------------------------------------------------
(* With a backend, two tasks are never created less than one lifetime of   *)
(* the lock apart, less the delay of the first one's firing: however long  *)
(* that may be, whatever the phases of the instances and their restarts.   *)
(* "Only one instance acquires the lock per interval"                      *)
(* (docs/guide/scheduled-tasks.md:151), for an interval of whole seconds.  *)
FiringsApart ==
    [][setup.shared /\ latest # NoTime /\ latest' # latest
          => latest.at + LockTtl <= latest'.at + MaxLate]_vars

(* While some instance's loop lives, the schedule is never left alone for  *)
(* more than the lock's lifetime, an interval and the delays of a wake and *)
(* an acquisition: the interval that is skipped because the lock of the    *)
(* firing before had not expired is followed by one that is not.           *)
CoveredSince(i) == IF served # NoTime /\ served >= upSince[i] THEN served ELSE upSince[i]

ScheduleIsServed ==
    \A i \in Instances : loop[i] \notin {"down", "dead"} =>
        now <= CoveredSince(i) + LockTtl + setup.every + 2 * MaxLate
=============================================================================
