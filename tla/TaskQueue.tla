------------------------------ MODULE TaskQueue ------------------------------
(***************************************************************************)
(* One named queue of the task manager (fastapi_taskflow/manager.py,       *)
(* class _TaskQueue): a bounded priority heap filled by add_task() from    *)
(* request handlers, a has_work event, a drainer coroutine that pops tasks *)
(* and dispatches them under a concurrency semaphore, the slots that run   *)
(* the tasks and give their permits back, the shutdown of the drainer, and *)
(* the live reconfiguration of both limits.                                *)
(*                                                                         *)
(* Coroutines interleave only where they await, so an action of another    *)
(* coroutine needs AtAwait (the drainer is not in the middle of a step).   *)
(* Handlers declared with plain `def' run in the thread pool and interleave*)
(* with every step of the drainer.                                         *)
(***************************************************************************)
EXTENDS Integers, FiniteSets

CONSTANTS
  Tasks,        \* the tasks that may be submitted to this queue
  LoopTasks,    \* those submitted by handlers running on the event loop
  Rank,         \* Rank[t] = `priority or 0' of task t
  Concurrency,  \* QueueConfig.concurrency at startup (NoLimit for None)
  MaxSize,      \* QueueConfig.max_size at startup (NoLimit for None)
  NewConfigs,   \* the [concurrency, maxSize] an operator may PATCH later
  NoLimit,      \* Python's None as a limit
  NoTask        \* the drainer holds no popped task

Limit == Nat \cup {NoLimit}
Config == [concurrency : Limit, maxSize : Limit]

ASSUME ConstantsAssumption ==
  /\ LoopTasks \subseteq Tasks
  /\ Rank \in [Tasks -> Int]
  /\ Concurrency \in Limit
  /\ MaxSize \in Limit
  /\ NewConfigs \subseteq Config
  /\ NoLimit \notin Nat
  /\ NoTask \notin Tasks

VARIABLES
  config,      \* q.config, shared with the PATCH endpoint
  heap,        \* tasks in q._heap
  seq,         \* q._seq
  order,       \* order[t] = the sequence number t was pushed with, 0 if never
  rejected,    \* tasks refused with QueueFullError (_rejected_count of them)
  signalling,  \* tasks pushed by a pool thread that has not yet set has_work
  hasWork,     \* q._has_work._value
  pc,          \* where the drainer coroutine is
  held,        \* the task the drainer has popped and not yet dispatched
  poppedAt,    \* history: poppedAt[t] = seq when t was popped, 0 if never
  permits,     \* q._sem._value, NoLimit when q._sem is None
  orphaned,    \* the drainer waits on a semaphore q._sem no longer names
  running,     \* tasks inside _run_slot
  finished     \* tasks whose _run_slot has returned

producerVars == <<seq, order, rejected>>
drainerVars == <<held, poppedAt>>
slotVars == <<running, finished>>
vars == <<config, heap, producerVars, signalling, hasWork, pc, drainerVars,
          permits, orphaned, slotVars>>

(***************************************************************************)
(* ready: created, not yet run.  start: about to call has_work.wait().     *)
(* arming: wait() read FALSE and has not registered its future yet.        *)
(* asleep / woken: the future is pending / set.  pop: inside the inner     *)
(* loop.  acquire: about to call sem.acquire().  blocked / granted: the    *)
(* semaphore's future is pending / set.  cancelled: CancelledError caught. *)
(* closed: the manager has forgotten the queue.                            *)
(***************************************************************************)
DrainerPlaces == {"ready", "start", "arming", "asleep", "woken", "pop",
                  "acquire", "blocked", "granted", "cancelled", "closed"}

TypeOK ==
  /\ config \in Config
  /\ heap \subseteq Tasks
  /\ seq \in Nat
  /\ order \in [Tasks -> Nat]
  /\ rejected \subseteq Tasks
  /\ signalling \subseteq Tasks
  /\ hasWork \in BOOLEAN
  /\ pc \in DrainerPlaces
  /\ held \in Tasks \cup {NoTask}
  /\ poppedAt \in [Tasks -> Nat]
  /\ permits \in Limit
  /\ orphaned \in BOOLEAN
  /\ running \subseteq Tasks
  /\ finished \subseteq Tasks

(* __init__ and _setup(), then create_task(q._drainer()) in startup().     *)
Init ==
  /\ config = [concurrency |-> Concurrency, maxSize |-> MaxSize]
  /\ heap = {}
  /\ seq = 0
  /\ order = [t \in Tasks |-> 0]
  /\ rejected = {}
  /\ signalling = {}
  /\ hasWork = FALSE
  /\ pc = "ready"
  /\ held = NoTask
  /\ poppedAt = [t \in Tasks |-> 0]
  /\ permits = Concurrency
  /\ orphaned = FALSE
  /\ running = {}
  /\ finished = {}

-----------------------------------------------------------------------------
(* No coroutine other than the drainer is in the middle of a step.         *)
AtAwait == pc \notin {"start", "arming", "pop", "acquire"}

(* The drainer coroutine is gone.                                          *)
Stopped == pc \in {"cancelled", "closed"}

(* add_task() creates a fresh task id, so a task is submitted once.        *)
Fresh(t) == order[t] = 0 /\ t \notin rejected

(* Mutant: the size check admits one task too many.                        *)
HasRoomOffByOne == config.maxSize # NoLimit => Cardinality(heap) <= config.maxSize

HasRoom == config.maxSize # NoLimit => Cardinality(heap) < config.maxSize

(* The heap order on (-priority, seq).                                     *)
Precedes(t, u) ==
  \/ Rank[t] > Rank[u]
  \/ Rank[t] = Rank[u] /\ order[t] < order[u]

(* heapq.heappush under the heap lock.                                     *)
Push(t) ==
  /\ HasRoom
  /\ seq' = seq + 1
  /\ order' = [order EXCEPT ![t] = seq + 1]
  /\ heap' = heap \cup {t}
  /\ UNCHANGED rejected

(* The heap is full: count the rejection and raise QueueFullError.         *)
Reject(t) ==
  /\ ~HasRoom
  /\ rejected' = rejected \cup {t}
  /\ UNCHANGED <<heap, seq, order>>

(* Mutant: the flag is raised, the waiter is not woken.                    *)
RaiseFlagOnly == hasWork' = TRUE /\ UNCHANGED pc

(* asyncio.Event.set(): a second set() of a set event wakes nobody.        *)
SetHasWork ==
  /\ hasWork' = TRUE
  /\ pc' = IF pc = "asleep" /\ ~hasWork THEN "woken" ELSE pc

(* enqueue() called on the event loop: no coroutine runs between the push  *)
(* and the set.                                                            *)
EnqueueOnLoop(t) ==
  /\ AtAwait /\ pc # "closed"
  /\ t \in LoopTasks /\ Fresh(t)
  /\ \/ Push(t) /\ SetHasWork
     \/ Reject(t) /\ UNCHANGED <<hasWork, pc>>
  /\ UNCHANGED <<config, signalling, drainerVars, permits, orphaned, slotVars>>

(* enqueue() called in a pool thread, up to the release of the heap lock.  *)
EnqueueInThread(t) ==
  /\ pc # "closed"
  /\ t \in Tasks \ LoopTasks /\ Fresh(t)
  /\ \/ Push(t) /\ signalling' = signalling \cup {t}
     \/ Reject(t) /\ UNCHANGED signalling
  /\ UNCHANGED <<config, hasWork, pc, drainerVars, permits, orphaned, slotVars>>

(* The rest of enqueue(): has_work.set(), outside the lock.                *)
SignalFromThread(t) ==
  /\ t \in signalling
  /\ signalling' = signalling \ {t}
  /\ SetHasWork
  /\ UNCHANGED <<config, heap, producerVars, drainerVars, permits, orphaned, slotVars>>

-----------------------------------------------------------------------------
(* await has_work.wait(): read the flag ...                                *)
WaitForWork ==
  /\ pc \in {"ready", "start"}
  /\ pc' = IF hasWork THEN "pop" ELSE "arming"
  /\ UNCHANGED <<config, heap, producerVars, signalling, hasWork, drainerVars,
                 permits, orphaned, slotVars>>

(* ... and, when it was clear, append a future to the waiters and suspend. *)
FallAsleep ==
  /\ pc = "arming"
  /\ pc' = "asleep"
  /\ UNCHANGED <<config, heap, producerVars, signalling, hasWork, drainerVars,
                 permits, orphaned, slotVars>>

WakeUp ==
  /\ pc = "woken"
  /\ pc' = "pop"
  /\ UNCHANGED <<config, heap, producerVars, signalling, hasWork, drainerVars,
                 permits, orphaned, slotVars>>

(* Empty heap: clear the event under the lock, leave the inner loop.       *)
FindEmpty ==
  /\ pc = "pop" /\ heap = {}
  /\ hasWork' = FALSE
  /\ pc' = "start"
  /\ UNCHANGED <<config, heap, producerVars, signalling, drainerVars,
                 permits, orphaned, slotVars>>

(* Mutant: the heap is popped without regard to its order.                 *)
PopAny ==
  /\ pc = "pop" /\ pc' = "acquire"
  /\ \E t \in heap :
       /\ heap' = heap \ {t}
       /\ held' = t
       /\ poppedAt' = [poppedAt EXCEPT ![t] = seq]
  /\ UNCHANGED <<config, producerVars, signalling, hasWork, permits, orphaned, slotVars>>

(* heapq.heappop under the lock.                                           *)
Pop ==
  /\ pc = "pop"
  /\ \E t \in heap :
       /\ \A u \in heap \ {t} : Precedes(t, u)
       /\ heap' = heap \ {t}
       /\ held' = t
       /\ poppedAt' = [poppedAt EXCEPT ![t] = seq]
  /\ pc' = "acquire"
  /\ UNCHANGED <<config, producerVars, signalling, hasWork, permits, orphaned, slotVars>>

(* Mutant: the dispatched task stays in the drainer's hands.               *)
DispatchKeepingTask ==
  /\ running' = running \cup {held}
  /\ pc' = "pop"
  /\ UNCHANGED <<config, heap, producerVars, signalling, hasWork, drainerVars,
                 orphaned, finished>>

(* create_task(self._run_slot(wrapped)).                                   *)
Dispatch ==
  /\ running' = running \cup {held}
  /\ held' = NoTask
  /\ pc' = "pop"
  /\ orphaned' = FALSE
  /\ UNCHANGED <<config, heap, producerVars, signalling, hasWork, poppedAt, finished>>

(* No semaphore, or a free permit: go on without suspending.               *)
AcquireSlot ==
  /\ pc = "acquire"
  /\ \/ permits = NoLimit /\ UNCHANGED permits
     \/ permits # NoLimit /\ permits > 0 /\ permits' = permits - 1
  /\ Dispatch

BlockOnSlot ==
  /\ pc = "acquire"
  /\ permits # NoLimit /\ permits = 0
  /\ pc' = "blocked"
  /\ UNCHANGED <<config, heap, producerVars, signalling, hasWork, drainerVars,
                 permits, orphaned, slotVars>>

(* The drainer resumes with the permit a release handed to it.             *)
ResumeWithSlot ==
  /\ pc = "granted"
  /\ Dispatch
  /\ UNCHANGED permits

(* The part of a finishing slot that is not the release.                   *)
LeaveSlot(t) ==
  /\ AtAwait
  /\ t \in running
  /\ running' = running \ {t}
  /\ finished' = finished \cup {t}
  /\ UNCHANGED <<config, heap, producerVars, signalling, hasWork, drainerVars, orphaned>>

(* Mutants: the permit is handed over and also counted; it is counted but  *)
(* the waiting drainer is not woken; it is not released at all.            *)
FinishReleasingTwice(t) ==
  /\ LeaveSlot(t) /\ permits' = permits + 1
  /\ pc' = IF pc = "blocked" THEN "granted" ELSE pc
FinishWithoutHandover(t) == LeaveSlot(t) /\ permits' = permits + 1 /\ UNCHANGED pc
FinishWithoutRelease(t) == LeaveSlot(t) /\ UNCHANGED <<permits, pc>>

(* The finally of _run_slot: release whatever q._sem is now.  A permit     *)
(* released to a semaphore the drainer waits on goes to the drainer.       *)
FinishTask(t) ==
  /\ LeaveSlot(t)
  /\ \/ permits = NoLimit /\ UNCHANGED <<permits, pc>>
     \/ /\ permits # NoLimit
        /\ pc = "blocked" /\ ~orphaned
        /\ pc' = "granted"
        /\ UNCHANGED permits
     \/ /\ permits # NoLimit
        /\ ~(pc = "blocked" /\ ~orphaned)
        /\ permits' = permits + 1
        /\ UNCHANGED pc

-----------------------------------------------------------------------------
(* shutdown(): drainer_task.cancel(), delivered at an await.  A drainer    *)
(* cancelled with a granted permit gives it back.                          *)
CancelDrainer ==
  /\ AtAwait /\ ~Stopped
  /\ pc' = "cancelled"
  /\ permits' = IF pc = "granted" /\ ~orphaned THEN permits + 1 ELSE permits
  /\ UNCHANGED <<config, heap, producerVars, signalling, hasWork, drainerVars,
                 orphaned, slotVars>>

(* shutdown(): self._queues.clear().                                       *)
CloseQueue ==
  /\ pc = "cancelled"
  /\ pc' = "closed"
  /\ UNCHANGED <<config, heap, producerVars, signalling, hasWork, drainerVars,
                 permits, orphaned, slotVars>>

(* update_queue_config(), run by PATCH /queues/{name} in a pool thread.    *)
(* Growing the limit first releases the old semaphore; in every case a     *)
(* bounded queue gets a fresh semaphore at the new value.                  *)
UpdateQueueConfig(new) ==
  LET waits == pc = "blocked" /\ ~orphaned
      grows == /\ new.concurrency # NoLimit /\ permits # NoLimit
               /\ config.concurrency # NoLimit
               /\ new.concurrency > config.concurrency
  IN /\ pc # "closed"
     /\ config' = new
     /\ permits' = new.concurrency
     /\ pc' = IF waits /\ grows THEN "granted" ELSE pc
     /\ orphaned' = (pc \in {"blocked", "granted"})
     /\ UNCHANGED <<heap, producerVars, signalling, hasWork, drainerVars, slotVars>>

-----------------------------------------------------------------------------
Producer == \E t \in Tasks : EnqueueOnLoop(t) \/ EnqueueInThread(t)

Drainer == \/ WaitForWork \/ FallAsleep \/ WakeUp \/ FindEmpty \/ Pop
           \/ AcquireSlot \/ BlockOnSlot \/ ResumeWithSlot

(* The queue with the limits it was started with.                          *)
Next == \/ Producer
        \/ \E t \in Tasks : SignalFromThread(t)
        \/ Drainer
        \/ \E t \in Tasks : FinishTask(t)
        \/ CancelDrainer
        \/ CloseQueue

(* The queue an operator may also reconfigure.                             *)
AdminNext == Next \/ \E new \in NewConfigs : UpdateQueueConfig(new)

Spec == Init /\ [][Next]_vars
AdminSpec == Init /\ [][AdminNext]_vars

(***************************************************************************)
(* The event loop runs a coroutine that is ready, a pool thread finishes   *)
(* the call it is in, and a task that runs returns.                        *)
(***************************************************************************)
Fairness ==
  /\ WF_vars(Drainer)
  /\ \A t \in Tasks : WF_vars(SignalFromThread(t)) /\ WF_vars(FinishTask(t))

FairSpec == Spec /\ Fairness

-----------------------------------------------------------------------------
(* QueueConfig.concurrency: never more tasks in _run_slot than the limit.  *)
(* The count is spread over the semaphore, a permit in flight to the       *)
(* drainer, and the running slots.                                         *)
ConcurrencyCap ==
  config.concurrency # NoLimit => Cardinality(running) <= config.concurrency

(* QueueConfig.max_size bounds the heap; the task the drainer popped and   *)
(* could not start is waiting too, and is the only one beyond the limit.   *)
Waiting == heap \cup ({held} \ {NoTask})
BackpressureCap ==
  config.maxSize # NoLimit => Cardinality(Waiting) <= config.maxSize + 1

(* _drainer() dispatches by priority, then arrival: a task that precedes   *)
(* one already dispatched is still in the heap only if it arrived after    *)
(* that one was popped.                                                    *)
DispatchOrder ==
  \A t \in heap, u \in running \cup finished :
    Precedes(t, u) => order[t] > poppedAt[u]

(* A blocked drainer means that every permit is in use, so the release     *)
(* that frees one is still to come: it never sleeps on a free slot.        *)
NoIdleSlot ==
  pc = "blocked" => permits = 0 /\ Cardinality(running) = config.concurrency

(* The drainer suspended on has_work will be woken by the next set(), and  *)
(* has not overlooked a task whose producer has already returned.          *)
NoLostWakeup ==
  pc = "asleep" => ~hasWork /\ heap \subseteq signalling

(* enqueue(): an accepted task is dispatched, unless shutdown comes first. *)
AcceptedTaskRuns ==
  \A t \in Tasks : t \in Waiting ~> (t \in running \cup finished \/ Stopped)

(* The queue keeps the promise of WorkQueue: every step of the heap, the   *)
(* event, the drainer and the semaphore is a step or a stutter of it.      *)
Promise == INSTANCE WorkQueue WITH waiting <- Waiting, refused <- rejected
KeepsPromise == Promise!Spec
=============================================================================
