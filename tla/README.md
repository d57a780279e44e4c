# fastapi-taskflow: TLA+ models and proofs

This directory holds a verification development of fastapi-taskflow: TLA+
modules translated from the source, configurations that check them with TLC on
small instances, and TLAPS proofs of the properties that matter most for every
value of the constants. `PROJECT.json` lists the components, the runs, which
lines each definition models, the hazards and the theorems.

Source paths below are relative to `src/fastapi_taskflow/` unless they start
with `docs/`.

## 1. The system

fastapi-taskflow turns FastAPI's background tasks into managed ones: every
`add_task()` creates a record that a pipeline moves through a life cycle, that a
backend keeps across restarts, and that a dashboard shows.

| Component | State | Operations | Properties that make it correct |
|---|---|---|---|
| Named queues (`manager.py` 65-210, 976-1043) | heap, `has_work` event, semaphore, drainer coroutine, two limits | `enqueue`, `_drainer`, `_run_slot`, shutdown, `update_queue_config` | both limits hold; no wake-up is lost; order by priority, then arrival; an accepted task is started |
| Task lifecycle (`wrapper.py`, `executor.py`, `middleware.py`, `store.py`, `router.py`) | record status, attempts, idempotency keys, coroutine handles | `add_task`, middleware pipeline, cancel endpoint, graceful shutdown | every task settles; FAILED means all attempts were used; one completion per key; the shutdown's verdict stands |
| Snapshot scheduler and requeue (`snapshot.py`, `backends/sqlite.py`) | history table, pending table, in-memory store | load, requeue and claim at startup; periodic flush; `flush_one`; `flush_pending` at shutdown | one owner per task; no rerun of what succeeded; saved tasks come back |
| One-off schedules (`periodic.py`, `manager.py` 1356-1488) | rows by `run_key`, armed entries, heap | `schedule_once`, `cancel_scheduled`, refill, pop, claim, fire | no extra firing; a cancel is final; a stored schedule is served while a loop lives that can fire it |
| Recurring schedules (`periodic.py` 337-430) | heap, lock with a TTL | `_run`, `_fire` | firings keep the length of the lock apart, less a delay; the schedule is served while a loop lives |
| Store notifications and SSE (`store.py` 40-120, `dashboard/sse.py`) | a queue of one place per subscriber | fan-out, shutdown sentinel, stream | a change is not left unseen; streams end at shutdown |
| Merged view and peers (`manager.py` 1551-1612, `instance_registry.py`, `fan_out.py`) | cache with a TTL, shared registry entry | `merged_list`, heartbeat, HTTP fan-out | a fresh cache is not behind the table; a live instance stays listed, one that is gone is forgotten |
| Retry, bulk retry, history, retention (`router.py`, `snapshot.py` 377-393) | store and backend records | endpoints, pruning | a retry loses no work; nothing unfinished is deleted |
| Executors (`executors/`) | process pool, pool threads, semaphore | dispatch, cancellation, reset after a dead worker, shutdown with a timeout | no slot is lost or made; a pool that was reset is not used again; every dispatch comes back; a closed pool begins nothing |
| Legacy priority worker (`manager.py` 1045-1088) | an `asyncio.PriorityQueue` | enqueue, worker | order by priority |
| Backends (`backends/`) | tables or keys | load, save, claim, replace, locks, idempotency keys, metadata | each row is claimed once; a load gives back what is there; a row can be found |
| Loggers, auth, admin, registry, dashboard pages | output, wiring | | |

**How they interact.** A request handler calls `add_task()`, which creates the
record in the store and hands a wrapped coroutine to a named queue, to the
priority worker or to Starlette. The queue's drainer starts it when a slot is
free; the pipeline (idempotency, logging, retry) dispatches the function to an
executor and writes the record. The store wakes SSE streams on each change. The
snapshot scheduler copies final records to the backend and, at shutdown, sorts
the rest; at startup it reads both tables and re-dispatches. The periodic
scheduler creates records and uses the same queues. Instances meet only in the
backend and through the peers' HTTP endpoints.

**What makes it hard.**

* *Coroutines and threads.* Handlers declared with `def` run in pool threads and
  call `add_task()`, `enqueue()` and `update_queue_config()` while the event
  loop goes on. Coroutines interleave at each `await`.
* *State read before an await and used after it*: the lists of
  `flush_pending()`, a popped schedule entry, the rows of `load_pending()`.
* *Stop and restart.* A signal, a server that cancels requests, a worker
  process interrupted by Ctrl+C, a crash between two backend calls.
* *Several instances* on one backend, with no coordination but its operations.
* *Limits*: slots, heap size, a retry count, a window of armed schedules.

## 2. Modules

| Module | Models | Lines of source it follows |
|---|---|---|
| `TaskQueue` | one `_TaskQueue` | `manager.py` 65-210, 788-803, 976-1043 |
| `WorkQueue` | the promise of a queue, as `docs/guide/named-queues.md` gives it | |
| `TaskLifecycle` | tasks inside one process, to the end of a graceful shutdown | `wrapper.py`, `executor.py`, `middleware.py`, `router.py` 479-530, `snapshot.py` 221-335 |
| `TaskOwnership` | the promise of requeueing, as `docs/guide/requeue.md` gives it: how a task changes hands | |
| `Requeue` | several instances over one history and one pending table | `snapshot.py` 107-376, `backends/sqlite.py` 209-424, `manager.py` 682-834 |
| `Periodic` | the instances and the clock that the next two share | |
| `ScheduledOnce` | one `run_key` over several instances | `periodic.py` 179-511, `manager.py` 1356-1488 |
| `RecurringSchedule` | one recurring schedule over several instances, with the schedule lock | `periodic.py` 90-567, `manager.py` 125-192, 711-820, `backends/sqlite.py` 426-441 |
| `Dashboard` | the store's notifications, the SSE streams, the cache of the merged view, retries, deletions and the periodic flush of one instance, over a table that others use too | `store.py`, `dashboard/sse.py` 162-204, `manager.py` 1567-1598, `router.py` 266-683, `snapshot.py` 221-397, `backends/sqlite.py` 393-484 |
| `ProcessPool` | the pool of worker processes, its reset and its shutdown | `executors/process_executor.py` 318-641, `middleware.py` 421-455 |
| `Executors` | the semaphore of coroutines, the threads of functions, the legacy priority worker, and the end of all three | `executors/async_executor.py`, `executors/thread_executor.py`, `executor.py` 115-336, `manager.py` 222-273, 510-550, 803-828, 1045-1085 |
| `Backends` | one table of Redis, SQLite, PostgreSQL or MySQL under several clients | `backends/*.py` |
| `PeerRegistry` | the registry of instances, over the two backend calls of a heartbeat | `instance_registry.py` |
| `TaskQueueProofs`, `TaskLifecycleProofs`, `RequeueProofs`, `DashboardProofs`, `BackendsProofs`, `PeerRegistryProofs` | theorems about the module each is named after | |
| `SchedulesProofs`, `ExecutorsProofs` | theorems about `RecurringSchedule` and `ScheduledOnce`, about `Executors` and `ProcessPool` | |
| `MC...` | the instances TLC checks | |

The components meet in the state they share, and each module has of its
neighbours what it shares with them: `TaskLifecycle` the tables that a shutdown
writes, `Requeue` those that a startup reads, `RecurringSchedule` the queue that
refuses a firing, `Executors` the manager's shutdown, `ProcessPool` the retry
loop around a dispatch. `Requeue`, `ScheduledOnce` and `RecurringSchedule` take
the operations of the backend for atomic; `Backends` looks into them. Two
modules that one proof module extends have no name in common, hence `OnceInit`,
`PopDueOnce`, `ProcessSpec` and the like in `ScheduledOnce` and `ProcessPool`.

### Conventions

* **Coroutines.** A step runs from one `await` to the next. In `TaskQueue` the
  drainer is cut finer, because pool threads interleave with it anywhere:
  `AtAwait` is the guard of every action that needs the event loop, and
  thread actions do without it.
* **asyncio and concurrent.futures** are external. `Event`, `Semaphore`, `Lock`,
  `Task.cancel`, `ThreadPoolExecutor` and `ProcessPoolExecutor` are modelled by
  what this code relies on: `set()` of a set event wakes nobody, `release()`
  hands a permit to the coroutine that waits, a cancel is delivered at an await,
  a dead worker breaks its pool.
* **Backend calls** are one step each, except in `Backends`. An instance may be
  interleaved between any two.
* **Time** is a clock of ticks where dates count (`ScheduledOnce`,
  `RecurringSchedule`), an age where only "how long ago" counts
  (`PeerRegistry`), and a step that may happen everywhere else (a retry delay, a
  flush interval, the end of a cache's TTL or of a lock's time).
* **History variables** (marked `history:` at their declaration) record what the
  code does not keep and properties need. No guard of an action reads them to
  decide what the code does; where a bounded counter stops an action, the
  constant is named `Max...`.
* A definition preceded by a comment `Mutant:` is a wrong variant of the one
  that follows it. It is not part of any specification; replacing the right
  definition by it must make the corresponding property fail.

### TaskQueue

| Model | Code |
|---|---|
| `heap`, `seq`, `order` | `_heap`, `_seq` and the tuples `(-priority, seq, ...)` |
| `hasWork`, `pc` in asleep/woken | `_has_work` and the future of its waiter |
| `permits`, `pc` in blocked/granted | `_sem` (`NoLimit` for `None`) and the future of its waiter |
| `held` | the local variable of the drainer after `heappop` |
| `orphaned` | the drainer waits on a semaphore that `_sem` no longer names |
| `EnqueueOnLoop`, `EnqueueInThread` + `SignalFromThread` | `enqueue()` on the loop; in a thread, where `has_work.set()` is a step of its own after the lock |
| `WaitForWork`, `FallAsleep`, `WakeUp` | `await self._has_work.wait()` |
| `FindEmpty`, `Pop` | the body of the inner loop under the heap lock |
| `AcquireSlot`, `BlockOnSlot`, `ResumeWithSlot` | `await self._sem.acquire()` and `create_task(_run_slot)` |
| `FinishTask` | the `finally` of `_run_slot`, which releases whatever `_sem` is then |
| `CancelDrainer`, `CloseQueue` | the two parts of `shutdown()` that touch the queue |
| `UpdateQueueConfig` | `update_queue_config()`, taken as one step. It runs in a pool thread, so the drainer may in truth come between the release of the old semaphore and its replacement and dispatch a few tasks more; this changes how many run after a resize, which no property bounds, and not their order |

### TaskLifecycle

`status` is `TaskRecord.status`; `at` is where the task's coroutine is suspended
(`queued`, `checking`, `body`, `backoff`, `cancelling`, `flushing`,
`recording`); `phase` is how far `shutdown()` is. `LookUpKey` and `Submit` are
`add_task()`, two steps in a pool thread and one on the loop.
`Begin`/`KeyChecked`/`StartRunning` are the pipeline on the way in,
`BodyReturns`/`BodyRaises`/`Retry`/`WorkerInterrupted` the retry loop,
`Succeed`/`Fail`/`Cancelled` what `LoggingMiddleware` makes of its outcome (a
worker interrupted in the first attempt, in `cut` and not in `lastError`, is a
success there), `OnSuccessDone`/`KeyRecorded` what follows a success.
`CancelPending`, `CancelRunning` and `CancelAnswered` are the cancel endpoint;
`ServerCancels` is the server that gives up waiting for a request;
`ShutdownFlush`, `Classify`, `SaveInterrupted` and `SavePendingAndExit` are the
awaits of `shutdown()`.

A logger is taken to be not configured, so its `on_lifecycle` awaits do not
appear. A backend error in `flush_one()` or in the key operations is logged by
the code and is the alternative that leaves the table alone.

### Requeue

`mem[i]` is the store of instance `i`, `waiting[i]` and `body[i]` its
coroutines, `history` and `pendingTable` the two tables. `Start`, `LoadPending`,
`CheckCompleted`, `Claim`, `ClearPending` are `load()` and `requeue()`;
`ShutdownFlush`, `Classify`, `SaveInterrupted`, `SavePending`, `Exit` are
`shutdown()`; `Crash` may come anywhere. `Claim` deletes the row first and looks
the function up afterwards, as the code does. `Held`, what an instance runs or
is going to save, maps the state to `TaskOwnership`.

### ScheduledOnce

`row` is what the backend holds under the key, `armed[i]` the live entry of
`_one_offs`, `inHand[i]` what the loop has loaded or popped before an await.
`SaveSchedule`/`ArmSchedule` and `DeleteSchedule`/`Disarm` are the two halves of
`schedule_once()` and `cancel_scheduled()`; `LoadDue`/`ArmDue` the refill;
`PopDueOnce`, `ClaimAndFire`, `ClaimFails`, `Sleep` the loop. Heap entries under
other keys do not touch any of this, so one key is enough; a tombstone in the
heap is the same as no entry. `registered`, chosen at the start, holds the
instances whose registry has the function. One outside it does not arm the
schedule and the row stays (`add_one_off()`). `FireOnceRefused` is
`QueueFullError` out of the dispatch: the row is consumed, the task created but in
no queue, and the loop dead.

### RecurringSchedule

`loop[i]` is where `_run()` of instance `i` is: asleep until `nextRun`, waiting
for `acquire_schedule_lock()`, about to fire, dead or down. `PopDue` moves
`next_run` before it asks for the lock, as the code does, so a refused instance
waits for its next slot. `FireRefused` is `QueueFullError` out of `enqueue()`,
which ends the loop's task. `setup` is chosen at the start: interval or cron, at
startup or live, with a backend or without. `CreateQueues` comes some awaits
after `Start`: what is fired before goes straight to the event loop. A step of a
loop may come up to `MaxLate` ticks after it became possible; `Tick` waits for
no other reason. `latest.at` is the time at which the latest task was created,
not the one at which its lock was taken.

### Dashboard

A row of the history table carries a final status that does not change, so the
table, the cache and what a load has read are sets of ids. `Notify`, `FanOut`,
`NotifyShutdown` are `TaskStore`'s side of a stream, with a queue of one place
and a notification that a pool thread loses (`Notify(FALSE)`); `Open`,
`TakeChange`, `TimeoutPoll`, `TakeSentinel`, `Disconnect` the generator in
`sse.py`. `backend`, chosen at the start, tells whether there is a table at all:
without one `TimeoutPoll` is not there, since a timeout only sends a keep-alive,
and `merged_list()` returns the store alone. `Ask`, `AskAtOnce`, `Wake`,
`LoadRead`, `LoadReturns`, `LoadFails` are the awaits of `merged_list()` around
`_backend_cache_lock`, whose `lock` is the holder followed by the waiters.
`RetryFailed`, `RetryAll` are the two retry endpoints, `PruneAll` and the three
steps of the retention job the deletions, `FlushList`/`FlushSave` the periodic
flush, and `PeerFlush` another instance on the same table. `RetryAll` takes the
list of a bulk retry for read before its loop; the code asks `merged_list()` for
it again at each task. `behind[s]` collects the ids that have changed since the
stream `s` last rendered them.

### ProcessPool

`stage[t]` follows a dispatch from the retry loop into a pool and back; `home[t]`
is the pool it was submitted to. `WorkerDies` breaks a pool under calls,
`WorkerDiesAlone` under none. `ReportBroken` is the `except BrokenProcessPool`
of each dispatch, which sets `_pool` to `None` whatever it names by then: a
whole pool that goes this way is in `abandoned`. A cancelled dispatch leaves its
function running as a `ghost`. `Shutdown` takes the pool away, so that dispatches
are refused; `CutQueued`, at any time after it, is the thread of the default pool
that calls `pool.shutdown(cancel_futures=True)` and cancels what is still queued
(`swept`): until then workers take queued calls. `Drained` and `Forced` are the
two ends of the wait.

### Executors

`at[t]` is a task's place between `execute_task()` and its end, `inner[t]` the
asyncio task of a coroutine, `th[w]` what thread `w` runs. `Acquire`, `Wait`,
`Resume`, `GiveUp`, `Release` are `async with self._semaphore` with a
cancellation at each of its awaits; `Submit`, `TakeCall`, `NoCall`, `Rest`,
`CallEnds` the pool of threads and the result's way back to the loop.
`EnqueuePriority` and `EnqueueInThread` put a task into the legacy priority queue
from the event loop and from a pool thread (`FromThread`); `Take` and `Await` are
its worker, which sleeps in `get()` (`worker`) until a put wakes it. A put in a
thread misses a worker that has found the queue empty and has not registered its
future yet. `StopWorker`,
`CloseDedicated`/`Joined` and `CloseDefault` are what `shutdown()` does with
them. Semaphore and threads are those of CPython 3.13; the semaphore of 3.11
hands over a permit in another way.

### Backends

One module has all four dialects and all five tables, chosen at the start, since
the same promises are asked of all. `step[c]` is where a client is in a call of
several round trips, `ids[c]` the keys it carries from one to the next. Redis: a
hash for each row and an index of their keys; a pipeline is one step.
PostgreSQL: a row that a transaction has touched is locked (`Locked`) until
`...Commits` or `PgAbort`. MySQL: a connection reads from the snapshot `view[c]`
of its first read until something commits on it. SQLite: each call is a
transaction. `MySqlLoadDue` is `load_due()` on MySQL, which raises as soon as a
row is due and so gives back nothing but an empty list. `owed` and `over` count
claims, `sure` and `maybe` bound what a load may give back.

### PeerRegistry

An instance is one run of a process. A heartbeat is two calls of the backend.
`Wake` begins the first, `Read` is when the backend reads the registry (or the
call fails, which counts as an empty one), `Beat` its return, up to `Delay` after
`Wake`: only now does the instance stamp its own entry in the copy it has. `Write`
writes the copy back as a whole, again up to `Delay` later. `Stop` cancels the
heartbeat, whose write may still be in a thread (`LateWrite`), and
`Remove`/`Removed` take the entry out. `undone` holds the instances whose latest
write another one has written over, or has failed.

## 3. What the runs check

| Run | Specification and instance | Distinct states | Shows |
|---|---|---|---|
| `queue` | `FairSpec`; five tasks of three priorities from the event loop, two slots, room for one | 58 thousand | both caps (`ConcurrencyCap`, `BackpressureCap`), no sleeping on a free slot (`NoIdleSlot`) or on a waiting task (`NoLostWakeup`), the refinement `KeepsPromise`, and that an accepted task is started (`AcceptedTaskRuns`) |
| `queue_admin` | `AdminSpec`; three tasks, one from a thread, every change among three configurations with and without limits | 48 thousand | `DispatchOrder` survives live reconfiguration and threads |
| `lifecycle` | `FairSpec`; a coroutine and a retried process task under one key, a task from a pool thread | 502 thousand | `FailedMeansExhausted`, `OneCompletionPerKey`, `NothingUnfinishedLost`, `ShutdownVerdictStands`, and that every task that has begun settles (`TasksSettle`) |
| `requeue` | `Spec`; two instances, two tasks, three startups, crashes anywhere | 314 thousand | `OneRunner`, `NoRerunOfCompleted`, the refinement `OwnershipKept` |
| `once` | `FairSpec`; two instances that may or may not have the function, of which one serves requests, two schedules, three times, one fault | 159 thousand | `NoExtraFiring`, `CancelHolds`, `StoredScheduleIsServed` |
| `recurring` | `Spec`; two instances, five ways to register the schedule, twelve times, restarts anywhere | 5.9 million | `FiringsApart`, `ScheduleIsServed` |
| `dashboard` | `Spec`; one task, one retry, one stream, one request, with a backend or without | 2.2 million | `RetryKeepsWork`, `UnfinishedStays`, `CacheNotBehind` |
| `dashboard_live` | `FairSpec`; one task, two streams, with a backend or without | 136 thousand | `StreamsEnd`, `DashboardCatchesUp` |
| `pool` | `FairSpec`; three tasks with a retry each, three pools | 755 thousand | `ResetHolds`, `ShutdownStopsAll`, `DispatchesEnd` |
| `executors` | `FairSpec`; three coroutines with one slot, or three functions with two threads, of a dedicated pool or the default one, tasks added on the loop and from a thread | 259 thousand | `SlotsKept`, `PoolIsEmpty`, `NoneBeginsAfterClose`, `TasksEnd` |
| `backends` | `Spec`; three clients, two keys, each table of each dialect | 26 thousand | `NoDoubleClaim`, `LoadsMeetContract`, `RowsReachable` |
| `registry` | `Spec`; two instances, an interval of two, a delay of one, a time to live of six | 2.3 million | `GoneAreForgotten`, `UpAreListed` |

`TypeOK` is an invariant of the runs of `Dashboard` and `Executors`; the type
invariants of the others are proved (section 4).

`CHECK_DEADLOCK FALSE` is given where the modelled part really stops: all tasks
submitted and finished, the process gone, or the clock at its bound.

### Bounds and why they suffice

* `TaskQueue`: each task is submitted once. With two slots and a heap of one,
  five tasks fill the slots, the drainer's hands and the heap and have one
  refused, and leave enough to do it again after a release. Three ranks and
  ties among them cover the heap order.
* `TaskLifecycle`: a key needs two tasks; one retry tells the first attempt
  from a later one; the third task has no key and comes from a thread.
* `Requeue`: two instances race for a row; `MaxStarts = 3` lets one of them come
  back and find what the other did meanwhile.
* `ScheduledOnce`: `MaxSchedules = 2` is a schedule and its replacement;
  `MaxTime = 2` with `Horizon = 1` gives a deadline in the window, at its edge
  and outside; `MaxFaults = 1` is one crash or failed claim.
* `RecurringSchedule`: `Second = 2` makes half a second and a second and a half
  intervals that the lock's whole seconds do not fit; the longest time for which
  `ScheduleIsServed` lets a schedule alone is ten ticks, and `MaxTime = 11` is
  one more, so every setup can exceed its own; `MaxLate = 1` lets a step be late by
  half of the shortest lock; `QueueMax = 1` refuses the second firing that nobody
  has drained.
* `Dashboard`: one record is enough for what is said of each record; a retry has
  an id to create; two streams compete for the cache's lock. A bulk retry of
  several that a full queue ends half way is in `RetryAll`, but the run has one
  record to retry: two and their copies are beyond what TLC finishes.
* `ProcessPool`: three pools are two deaths and the pool after them; three tasks
  have one queued, one running and one that comes late.
* `Executors`: a slot and a task that waits behind one that waits; two threads,
  so that one may be idle while another is busy.
* `Backends`: two transactions that overlap and a third that reads; two keys,
  one of which a call has and the other it finds.
* `PeerRegistry`: an interval and four delays are exactly the time to live; ages
  above it are alike, so the state space is finite without a bound on time.

### Fairness and its justification

* A coroutine that is ready runs (`WF` of the drainer, of each pipeline that has
  begun, of each loop, of a caller of `merged_list()`): the event loop serves its
  queue in order. That a task which has been handed over begins is assumed
  nowhere: `TaskQueue` shows it for producers on the loop, `Executors` for the
  priority queue except for tasks from threads, and `TaskLifecycle`, which has
  tasks from threads, says nothing of tasks that have not begun (`Progress`).
* A pool thread finishes the call it is in, takes the next one, and functions
  return (`FinishTask`, the body steps of `Progress`, `Finish` of a worker,
  `CallEnds`). Tasks that never return are outside what the code can promise;
  there is no task timeout.
* `SF` of `LoadDue`: an iteration of the scheduler's loop refills whenever the
  refill interval has passed, so a loop that goes round for ever refills again
  and again. An iteration in between, or one whose `load_due()` failed, is
  `SkipRefill`. On MySQL every refill that finds a row due fails, so none of
  this is given there, and `StoredScheduleIsServed` is not about it.
* `OnceTick` of `ScheduledOnce`, `Expire` of the cache: time passes.
* `TimeoutPoll`: with a backend a stream renders anew after at most its poll
  interval (`sse.py:190`); the action does not exist without one.
* The worker of the priority queue takes what it is woken for (`Take`, `Await`);
  `TasksEnd` excepts a task whose put in a thread it has missed.
* No fairness is assumed of requests, cancels, crashes, shutdowns, dead workers
  or operators.

### Observations

What the modelling showed of the code that a reader of the documentation would
not expect. Each is part of the model, as the code is; no property of a run
states the contrary.

*Queues and tasks*

* `has_work.set()` from a pool thread, between the drainer's test of the flag
  and its registration as a waiter, leaves the flag set and the drainer asleep;
  later sets wake nobody (`manager.py:155`, against the comment at 91-94).
  `NoLostWakeup` is stated and proved for handlers on the event loop.
* A resize replaces the semaphore the drainer waits on, and nothing releases the
  old one (`manager.py:1018`, against the docstring at 981-985). Running tasks
  are not counted by the new one, and their releases add permits to it.
* `PATCH /queues` runs in a pool thread, where `get_event_loop()` raises: the
  error is swallowed and the limits are not persisted (`manager.py:1035`,
  against `docs/guide/named-queues.md:178`).
* A popped task keeps its place while the drainer waits for a slot, so an urgent
  task that arrives meanwhile comes after it (`manager.py:187-189`, against
  `docs/guide/named-queues.md:104`). `DispatchOrder` is stated for the moment of
  the pop.
* RUNNING is written over CANCELLED when the coroutine begins
  (`middleware.py:304`, against `docs/api/models.md:33`).
* A worker interrupted in the first attempt ends as SUCCESS
  (`middleware.py:447`, against `docs/guide/defining-tasks.md:141`), also over
  the INTERRUPTED that a shutdown has written.
* Two handlers in pool threads may both find an idempotency key free
  (`wrapper.py:117`), and so may two instances, which check and record it apart.
* `enqueue_priority()` from a pool thread completes the future of the sleeping
  worker without telling the loop, which sees it when the handler ends; and a
  worker that is just going to sleep may miss the put altogether
  (`manager.py:1062`).
* A cancelled call that has begun keeps its thread, and `_idle_semaphore` of the
  pool counts idle threads too many after cancellations, so that it may start
  none for a call that waits.

*Shutdown and restart*

* `save_pending()` replaces the rows of all instances
  (`backends/sqlite.py:245`, against `docs/guide/requeue.md:42`).
* `flush_pending()` saves as PENDING what has begun during its own awaits
  (`snapshot.py:286`). With `max_sync_threads` the calls of its pool are waited
  for after that, on the event loop: what ran then is run again after the
  restart.
* A task that fails between `flush()` and `flush_pending()` has no history entry
  (`docs/guide/persistence.md:122` says no completed record is lost).
* A claimed row whose function is unknown is deleted (`snapshot.py:155`, against
  `docs/guide/requeue.md:93`).
* An instance that loaded INTERRUPTED at its start writes it over a later
  SUCCESS of another one at each flush (`snapshot.py:236`), and its fan-out
  answer overrides the newer record.
* `startup()` re-dispatches and starts the schedulers before it creates the named
  queues: what they dispatch until then has no limits (`manager.py:709`).
* `_shutdown_event` is set and never read, though `sse.py:154` says that streams
  exit on it: a stream opened between the signal's sentinel and `shutdown()`
  hears of it only from `shutdown()`.

*Schedules*

* The claim of an old armed entry takes the row of the newer schedule, which is
  then early (`periodic.py:449`, against `docs/guide/one-off-tasks.md:79`).
* `QueueFullError` ends the scheduler's loop (`periodic.py:550`;
  `docs/guide/named-queues.md:131` has it raised to the caller). For a one-off
  schedule the row has been claimed by then, and its task stays PENDING in no
  queue.
* On MySQL `load_due()` raises on every due row: the connection has
  `DictCursor` (`mysql.py:259`), and `row_to_scheduled()` (`base.py:25-49`, called
  at `mysql.py:428`) unpacks the row by position and gets the names of the
  columns. The refill is logged as failed, so what the instance itself has not
  armed never fires there, though `docs/guide/one-off-tasks.md:162` lists MySQL.
* The lock's whole seconds: an interval of a second and a half may fire each
  second in turn from two instances, one of half a second only once a second.

*Dashboard, retries and history*

* The retry endpoints never invalidate the cache: a dashboard shows a replaced
  original, and lets it be retried again, for a TTL
  (`docs/guide/task-manager.md:124`, `docs/guide/dashboard.md:159`).
* A load that began before an invalidation refills the cache with the deleted
  rows (`manager.py:1583`). A peer's flush brings removed originals back.
* `delete_before()` keeps cancelled and rejected rows
  (`docs/guide/task-admin.md:116`, `docs/guide/dashboard.md:257`).
* Without a backend a stream's timeout only sends a keep-alive
  (`sse.py:190-191`), so a change that a pool thread fails to announce
  (`store.py:112-117`) stays unseen until the next one, against the docstrings at
  `store.py:102-105` and `sse.py:149-150`.
* A bulk retry that meets a full queue half way answers with the error; the
  refused copy stays PENDING without a queue.

*Process pool*

* After the death of an idle worker, or of one whose dispatches were all
  cancelled, `submit()` refuses every later task until the process is restarted
  (`process_executor.py:554`; the docstring near 437 says that the next dispatch
  makes a new pool).
* A late report of a dead pool drops the healthy one that replaced it (580): its
  calls go on, unwaited for by `shutdown()`. One dead worker costs an attempt to
  every task of its pool.
* `shutdown()` leaves cancelling the queued calls to a thread of the default
  pool (`process_executor.py:617-630`): until one is free, workers go on taking
  them.
* When the shutdown's timeout is over no worker is terminated, though the
  documentation calls such tasks terminated and INTERRUPTED.

*Backends and peers*

* MySQL connections that only read stay in their first snapshot, also for
  `check_idempotency_key()` and `completed_ids()` (`backends/mysql.py:365`). Two
  locks taken at once by DELETE and INSERT may deadlock there on gap locks; one
  is rolled back and raised.
* Redis: `load_due()` may take a row out of the index that was saved again
  meanwhile, and overlapping replacements of the pending tasks may leave rows
  without an index (`cutOff`). The index of expired hashes grows, since
  `delete_before()` skips ids without a hash.
* Metadata exist only for SQLite and Redis, though `docs/api/task-manager.md:104`
  and `instance_registry.py:10` name the others too.
* A heartbeat that cannot read the registry overwrites everybody's entries, and
  one that is in a thread when it is cancelled may land after the removal.
* A live instance stays listed only if an interval and four backend calls (the
  heartbeat's two, the write of the one before, the reader's load) fit in the time
  to live; nothing checks the two settings against each other
  (`instance_registry.py:133`, 141, 171). Dead entries are never removed from the
  registry, only not listed.
* `urlopen(timeout=...)` bounds each operation of the socket, not the call, so a
  peer that answers a little at a time holds a fan-out for longer
  (`fan_out.py:34`).

## 4. What is proved

All theorems are of a specification without fairness, for every value of the
constants that satisfies the module's assumption: of `Spec` (`OnceSpec` in
`ScheduledOnce`, `ProcessSpec` in `ProcessPool`), and where the table says so of
`AdminSpec`, in which an operator reconfigures the queue at any moment.

| Module | Theorems | Assumptions |
|---|---|---|
| `TaskQueueProofs` | `CapHolds`, `NoIdleSlotHolds`, `BackpressureHolds`, `Implements`; of `AdminSpec`: `TypeCorrect`, `DispatchOrderHolds`, `NoLostWakeupHolds` | ranks are integers, limits are naturals or none; the last: all producers are on the event loop (`AllOnLoop`) |
| `TaskLifecycleProofs` | `TypeCorrect`, `FailedMeansExhaustedAlways`, `NothingUnfinishedLostAlways`, `VerdictStandsAlways`, `OneCompletionAlways` | retries are naturals; the last: keys are used on the event loop only (`KeysFromLoop`) |
| `RequeueProofs` | `TypeCorrect`, `OneRunnerHolds`, `NoRerunHolds`, `Implements`, `OneHolderAlways` | the sets are subsets of `Tasks` |
| `SchedulesProofs`, recurring | `TypeCorrect`, `ServedAlways`, `FiringsApartAlways` | times and delays are naturals, the setups are of their type; no bound on a delay |
| `SchedulesProofs`, one-off | `OnceTypeCorrect`, `NoExtraFiringHolds`, `CancelHoldsAlways` | bounds are naturals |
| `DashboardProofs` | `TypeCorrect`, `RetryKeepsWorkAlways`, `UnfinishedStaysAlways`, `CacheNotBehindAlways` | there are finitely many records, a stream is no request, `Nobody` is no record |
| `ExecutorsProofs`, semaphore and threads | `TypeCorrect`, `SlotsKeptAlways`, `PoolIsEmptyAlways`, `NoneBeginsAlways` | bounds are naturals, there is a slot and a thread, tasks are not states of a thread, those added by threads are tasks |
| `ExecutorsProofs`, process pool | `ProcessTypeCorrect`, `ResetAlways`, `ShutdownStopsAlways` | bounds are naturals |
| `BackendsProofs` | `TypeCorrect`, `NoDoubleClaimAlways`, `LoadsMeetContractAlways`, `RowsReachableAlways` | `NoView` is no set of keys |
| `PeerRegistryProofs` | `TypeCorrect`, `GoneAreForgottenAlways`, `UpAreListedAlways` | an interval and four delays fit in the time to live (`RegistryAssumption`) |

**The queue.** The cap is not inductive: nothing in it says why the drainer may
start a task. The invariant accounts for permits, `permits + |running| +
(granted ? 1 : 0) = Concurrency`, so a start is paid for by a permit and a
release pays back. `HeldWhere` ties the popped task to the places of the
drainer, `OnePlace` keeps a task in one place, `HeapBounded` bounds the heap
(backpressure follows with one task in hand), and `OrderKept` is the dispatch
order extended to the task in hand. `LimitsFixed` says that without an operator
the limits are those of startup, and the cap, backpressure and the use of slots
are theorems of `Spec` only: reconfiguration breaks them. What no operator can
break rests on `AdminInv`, the part of the invariant without limits and permits:
types, places, the dispatch order and the wake-up. It needs one thing more,
`SemaphoreIsThere`: a drainer that waits for a slot waits on a semaphore, be it
one that has been replaced under it. `Implements` maps `waiting` to the heap and the
task in hand and shows that each step is a step of `WorkQueue` or a stutter. For
the wake-up, `FlagTells` says that the flag is set while a task is in the heap of a
drainer that is going to wait, and clear once it does; a thread's late `set()` is
what breaks it.

**The lifecycle.** Where a task's coroutine is suspended tells which statuses
its record may have (`StatusAtPlace`): a body runs under RUNNING, or under what
the shutdown wrote over it, never before the shutdown has classified.
`ShutdownVerdictStands` follows step by step from that, since whatever else
rewrites a status asks for RUNNING or for a place the task is not in. What is
left are the two ways to SUCCESS: the function returned in this very step, or its
worker was interrupted in it with no error before. `Attempts`
counts the retries that are left; `Listed` says where the shutdown has put what
was unfinished, in terms of how far it is. `OneHolder`, for the keys, holds of
statuses and not of completions: of two tasks under a key one is new or failed.

**Requeue.** `OneRunner` says nothing of the pending table, where tasks change
hands. The invariant gives every task one owner (an instance that may still run
or save it), and none while its row waits to be claimed (`OneOwner`); needs that
`flush_pending()` lists only what the instance has in its hands
(`RecordsTellTruth`); and that ids are fresh (`IdsFresh`). `NoRerunOfCompleted`
needs more: other instances may overwrite SUCCESS in the history table between
the start of an instance and its `completed_ids()`. The proof shows that
whenever a record is unsuccessful, its task can never enter the pending table
again (`UnsuccessfulSettled`, `Settled`), so the row that instance has loaded
cannot be claimed (`KnownSkipped`). `Implements` maps what an instance runs or
is going to save to `held`, nothing once its last backend call is over, and the
table to `offered`: a claim is `Take`, `save_pending()` is `HandOver`, a crash or
the end of a task is `LetGo`. The step that needs the invariant is `Classify`,
which must list only what the instance has. `OneHolderAlways` shows what the
promise is worth: with it alone a task is in one instance's hands or in the
table, never in both.

**One-off schedules.** Both properties rest on the row alone: a firing takes the
row away and only `schedule_once()` puts one there. After a cancel there is no
row until the next schedule (`CancelledHasNoRow`). Nothing is assumed of what
instances have armed, loaded or popped; the proof says that those may be as
stale as they like without a firing too many.

**Recurring schedules.** `FiringsApart` compares the times at which tasks were
created. When the lock outlives a delay (`MaxLate < LockTtl`), whoever fires still
has it (`LockHeld`); so one instance fires at a time, at most a delay after taking
its lock, and the next lock is taken a lifetime after that of the latest firing
(`LatestApart`). When a delay may be as long as the lock, two instances may fire
at once, and the bound is what the order of time gives. The theorem therefore
needs no assumption about delays. That the schedule is served needs no
agreement: each live loop wakes for its `next_run` (`OnTime`), and finds either
a free lock or one that tells of a recent firing (`LockTells`). A loop that a
full queue has ended is excepted.

**The process pool.** A call that may still run is in the current pool, in one
that was given up whole, or in the one that `shutdown()` waits for or has stopped
to wait for (`AliveHome`), and never in a broken one. In the pool that
`shutdown()` has taken, calls may wait until `CutQueued` and not after it
(`swept`), and none is left once it is drained. `ResetHolds` is inductive
only with `LostBroken`: who reports a reset was in a pool that broke.

**Semaphore and threads.** A coroutine that is cancelled while it waits may
have been woken with a slot already. `SlotsKept` is inductive with
`WaitersListed`: the semaphore's list has each waiter that can still be woken
once and nobody else, so that a release always finds somebody who takes the slot
or leaves it free, and one who gives up returns exactly what it held. For the
dedicated pool, `QuitLast` says that the call that ends the threads is the last
one and that a thread ends only when nothing is before it; `Served`, that a
thread exists as soon as there is a call. Hence nothing is left when the threads
have been joined (`PoolIsEmpty`). A coroutine holds a slot from the moment it is
woken, which is why the held slots are counted over `granted` and `running`.

**The dashboard.** `RetryKeepsWork` needs only that whatever was dispatched has a
record (`DispatchedExist`): the deletion is scheduled after the dispatch, and a
record is not removed before. That a fresh cache is not behind needs the lock:
the callers are in its list once each, and who loads is its head (`CallsOK`); so
one load runs at a time, and only while the cache has expired (`LoadsOK`). The
rows that stay in the table from then on are in what it has read, whatever is
saved and deleted meanwhile. Without a backend there is no table to be behind.

**The backends.** Whether a row may still be claimed is told by the row itself
(`RowsOwed`); the rows that a PostgreSQL transaction has locked are there and
nobody else's (`RowsHeld`), which its several steps keep. For the loads,
`RowsRead` keeps what has been read between the two bounds, through every write
of the others. The theorem is about loads that return: `MySqlLoadDue` returns
only when it has found nothing due.

**The registry.** No copy of an entry, wherever it waits to be written back, is
younger than the absence of its instance (`OldEntries`): so late writes cannot
make the gone seem alive. An entry's age and the time its instance has until it
goes on are bounded together (`FreshEntries`): an entry is a delay old when it
lands, an interval more when the next heartbeat wakes, and two delays more when
that one has loaded and written; the fourth delay is that of the load of whoever
asks for the peers.

### Only model-checked

* Liveness (`AcceptedTaskRuns`, `TasksSettle`, `StoredScheduleIsServed`,
  `StreamsEnd`, `DashboardCatchesUp`, `DispatchesEnd`, `TasksEnd`): reasoning
  under fairness is out of the prover's reach.

## 5. Not modelled, and why

* `TaskLifecycle` has no logger configured, so the awaits of `on_lifecycle` are
  missing; eager dispatch and encrypted arguments neither.
* Which record wins when the store, a peer and the table differ: `Dashboard` has
  ids whose final status does not change.
* The fan-out to the peers (`fan_out.py`): its `gather`, the threads of its HTTP
  calls and their timeouts. No property of it could be stated that is more than
  the assumption that a call ends.
* The log queue of the process executor with its drain thread, and its checks of
  what can be pickled.
* Migrations, the query passthrough and the encoding of rows in the backends.
* A time that runs backwards, or differs between instances.
* Dashboard pages, loggers, authentication, mounting, the package interface:
  text and wiring, with no state that interacts with the rest.
* `docs/`, `examples/`, `tests/` were read as statements of intent.

## 6. Plan

What is left, in this order.

1. An abstract timer for `ScheduledOnce`, with a refinement.
2. `Requeue` over the calls of `Backends`, instead of atomic ones.
3. The bulk retry of `Dashboard` one task at a time, with two originals.
4. Statuses in `Dashboard`'s rows, for the precedence of live, peer and stored
   records.
