----------------------------- MODULE Executors ------------------------------
(* How an attempt of a task reaches its function: through the semaphore of *)
(* max_concurrent_tasks to a coroutine of the event loop, or through the   *)
(* calls of a pool to one of its threads, at once or by way of the legacy  *)
(* priority queue.  The cancel endpoint may strike at every await, and     *)
(* shutdown() closes the pool: a dedicated one (max_sync_threads), which   *)
(* it waits for, or the default one of daemon threads, which it leaves.    *)
(*                                                                         *)
(* asyncio.Semaphore, the propagation of a cancellation to what a task     *)
(* awaits and the threads of concurrent.futures are external, and are      *)
(* modelled after CPython 3.13.                                            *)
EXTENDS Naturals, Sequences, FiniteSets, SequencesExt

CONSTANTS
    Tasks,
    Kinds,      \* which functions the tasks may have: coroutines or not
    Priority,   \* of a task, in the priority queue
    FromThread, \* tasks that a handler adds in a thread of the server
    Slots,      \* max_concurrent_tasks
    MaxThreads, \* of the pool
    Quit        \* the call that makes a thread of a closed pool end

Threads == 1 .. MaxThreads
Places == {"new", "queued", "created", "waiting", "granted", "running", "inpool",
           "done", "cancelled"}
ThreadStates == {"none", "looking", "empty", "blocked", "gone"}

ASSUME ExecutorsAssumption ==
    /\ Kinds \subseteq [Tasks -> {"async", "thread"}]
    /\ Priority \in [Tasks -> Nat] /\ FromThread \subseteq Tasks
    /\ Slots \in Nat \ {0} /\ MaxThreads \in Nat \ {0}
    /\ Quit \notin Tasks
    /\ Tasks \cap ThreadStates = {}

VARIABLES
    kind,       \* executor of each task
    dedicated,  \* whether max_sync_threads is set
    phase,      \* of the manager: up, stopping, joining its pool, closed
    queued,     \* the priority queue, in order of arrival
    worker,     \* of the priority queue: whether it goes on or waits in get()
    at,         \* where each task is
    cancelling, \* tasks that find a CancelledError when they go on
    free,       \* value of the semaphore
    waiters,    \* its waiters that can still be woken
    inner,      \* the asyncio task of each coroutine
    calls,      \* call queue of the pool
    dropped,    \* calls whose future is cancelled
    idle,       \* _idle_semaphore
    th,         \* what each thread does
    replied     \* calls whose results the event loop has not seen

vars == <<kind, dedicated, phase, queued, worker, at, cancelling, free, waiters,
          inner, calls, dropped, idle, th, replied>>

loopVars == <<kind, dedicated, phase, queued, worker>>
slotVars == <<free, waiters, inner>>
poolVars == <<calls, dropped, idle, th, replied>>

TypeOK ==
    /\ kind \in Kinds
    /\ dedicated \in BOOLEAN
    /\ phase \in {"up", "stopping", "joining", "closed"}
    /\ queued \in Seq(Tasks)
    /\ worker \in {"ready", "asleep"}
    /\ at \in [Tasks -> Places]
    /\ cancelling \subseteq Tasks
    /\ free \in 0 .. Slots
    /\ waiters \in Seq(Tasks)
    /\ inner \in [Tasks -> {"none", "running", "stopping", "ended", "stopped"}]
    /\ calls \in Seq({Quit} \cup Tasks)
    /\ dropped \subseteq Tasks
    /\ idle \in Nat
    /\ th \in [Threads -> ThreadStates \cup Tasks]
    /\ replied \subseteq Tasks

Init ==
    /\ kind \in Kinds
    /\ dedicated \in BOOLEAN
    /\ phase = "up"
    /\ queued = <<>> /\ worker = "ready"
    /\ at = [t \in Tasks |-> "new"]
    /\ cancelling = {}
    /\ free = Slots
    /\ waiters = <<>>
    /\ inner = [t \in Tasks |-> "none"]
    /\ calls = <<>>
    /\ dropped = {}
    /\ idle = 0
    /\ th = [w \in Threads |-> "none"]
    /\ replied = {}

\* The event loop runs, but for the wait of shutdown(wait=True).
Loop == phase # "joining"

-----------------------------------------------------------------------------
(* add_task() without a priority, a named queue or a requeue: the pipeline *)
(* has come to the executor, whose dispatch() is a task of the loop.       *)
Add(t) ==
    /\ Loop /\ at[t] = "new"
    /\ at' = [at EXCEPT ![t] = "created"]
    /\ UNCHANGED <<loopVars, cancelling, slotVars, poolVars>>

\* put_nowait(), after which the worker goes on or not.
Put(t, w) ==
    /\ Loop /\ at[t] = "new"
    /\ at' = [at EXCEPT ![t] = "queued"]
    /\ queued' = Append(queued, t)
    /\ worker' = w
    /\ UNCHANGED <<kind, dedicated, phase, cancelling, slotVars, poolVars>>

(* enqueue_priority() of add_task(..., priority=...) on the event loop     *)
(* wakes the worker.                                                       *)
EnqueuePriority(t) == t \notin FromThread /\ Put(t, "ready")

(* The same in a thread of the server.  The future that it sets is seen    *)
(* when the handler ends and wakes the loop; but a worker that has found   *)
(* the queue empty and has not registered a future yet sleeps all the same.*)
EnqueueInThread(t) ==
    /\ t \in FromThread
    /\ \/ Put(t, "ready")
       \/ phase = "up" /\ worker = "ready" /\ queued = <<>> /\ Put(t, "asleep")

\* First of the tasks of the highest priority.
First(i) ==
    \A j \in DOMAIN queued :
        \/ Priority[queued[j]] < Priority[queued[i]]
        \/ (Priority[queued[j]] = Priority[queued[i]] /\ i <= j)

(* _run_priority_worker(): the first task of the highest priority begins.  *)
Take ==
    /\ phase = "up" /\ worker = "ready"
    /\ \E i \in DOMAIN queued :
         /\ First(i)
         /\ at' = [at EXCEPT ![queued[i]] = "created"]
         /\ queued' = RemoveAt(queued, i)
    /\ UNCHANGED <<kind, dedicated, phase, worker, cancelling, slotVars, poolVars>>

(* get() of an empty queue waits.                                          *)
Await ==
    /\ phase = "up" /\ worker = "ready" /\ queued = <<>>
    /\ worker' = "asleep"
    /\ UNCHANGED <<kind, dedicated, phase, queued, at, cancelling, slotVars, poolVars>>

-----------------------------------------------------------------------------
\* locked() of the semaphore: waiters that it has woken count until they run.
CanAcquire ==
    /\ free > 0
    /\ \A u \in Tasks : at[u] # "granted" /\ (at[u] = "waiting" => u \in cancelling)

\* A task leaves for a place; the semaphore has n slots and wakes some waiters.
Leave(t, place, n, most) ==
    LET k == CHOOSE k \in 0 .. n :
                /\ k <= most /\ k <= Len(waiters)
                /\ k = n \/ k = most \/ k = Len(waiters)
        woken == {waiters[i] : i \in 1 .. k}
    IN  /\ free' = n - k
        /\ waiters' = SubSeq(waiters, k + 1, Len(waiters))
        /\ at' = [u \in Tasks |-> IF u = t THEN place
                                  ELSE IF u \in woken THEN "granted" ELSE at[u]]

(* The semaphore has a slot, or there is one for nobody else: the          *)
(* coroutine becomes a task of its own.                                    *)
Acquire(t) ==
    /\ Loop /\ kind[t] = "async" /\ at[t] = "created" /\ t \notin cancelling
    /\ CanAcquire
    /\ free' = free - 1
    /\ at' = [at EXCEPT ![t] = "running"]
    /\ inner' = [inner EXCEPT ![t] = "running"]
    /\ UNCHANGED <<loopVars, cancelling, waiters, poolVars>>

Wait(t) ==
    /\ Loop /\ kind[t] = "async" /\ at[t] = "created" /\ t \notin cancelling
    /\ ~ CanAcquire
    /\ waiters' = Append(waiters, t)
    /\ at' = [at EXCEPT ![t] = "waiting"]
    /\ UNCHANGED <<loopVars, cancelling, free, inner, poolVars>>

(* A task that has been woken with a slot.                                 *)
Resume(t) ==
    /\ Loop /\ at[t] = "granted" /\ t \notin cancelling
    /\ Leave(t, "running", free, Len(waiters))
    /\ inner' = [inner EXCEPT ![t] = "running"]
    /\ UNCHANGED <<loopVars, cancelling, poolVars>>

\* Mutant: acquire() is inside the try whose finally releases.
GiveUpAndRelease(t) ==
    /\ Loop /\ kind[t] = "async" /\ t \in cancelling
    /\ at[t] \in {"waiting", "granted"}
    /\ LET n == IF at[t] = "granted" THEN free + 2 ELSE free + 1
       IN  Leave(t, "cancelled", n, Len(waiters))
    /\ cancelling' = cancelling \ {t}
    /\ UNCHANGED <<loopVars, inner, poolVars>>

(* acquire() is cancelled: a slot that it has been woken with goes back.   *)
GiveUp(t) ==
    /\ Loop /\ kind[t] = "async" /\ t \in cancelling
    /\ at[t] \in {"waiting", "granted"}
    /\ LET n == IF at[t] = "granted" THEN free + 1 ELSE free
       IN  Leave(t, "cancelled", n, Len(waiters))
    /\ cancelling' = cancelling \ {t}
    /\ UNCHANGED <<loopVars, inner, poolVars>>

(* dispatch() is cancelled before its first step.                          *)
NeverBegin(t) ==
    /\ Loop /\ at[t] = "created" /\ t \in cancelling
    /\ at' = [at EXCEPT ![t] = "cancelled"]
    /\ cancelling' = cancelling \ {t}
    /\ UNCHANGED <<loopVars, slotVars, poolVars>>

-----------------------------------------------------------------------------
(* The coroutine returns or raises, also out of a CancelledError.          *)
Ends(t) ==
    /\ Loop /\ inner[t] \in {"running", "stopping"}
    /\ inner' = [inner EXCEPT ![t] = "ended"]
    /\ UNCHANGED <<loopVars, at, cancelling, free, waiters, poolVars>>

Stops(t) ==
    /\ Loop /\ inner[t] = "stopping"
    /\ inner' = [inner EXCEPT ![t] = "stopped"]
    /\ UNCHANGED <<loopVars, at, cancelling, free, waiters, poolVars>>

(* It catches the CancelledError and goes on.                              *)
Persists(t) ==
    /\ Loop /\ inner[t] = "stopping"
    /\ inner' = [inner EXCEPT ![t] = "running"]
    /\ UNCHANGED <<loopVars, at, cancelling, free, waiters, poolVars>>

\* Mutant: the slot is released only by a dispatch() that is not cancelled.
ReleaseUnlessCancelled(t) ==
    /\ Loop /\ inner[t] \in {"ended", "stopped"}
    /\ IF inner[t] = "stopped" \/ t \in cancelling
         THEN /\ at' = [at EXCEPT ![t] = "cancelled"]
              /\ UNCHANGED <<free, waiters>>
         ELSE Leave(t, "done", free + 1, 1)
    /\ inner' = [inner EXCEPT ![t] = "none"]
    /\ cancelling' = cancelling \ {t}
    /\ UNCHANGED <<loopVars, poolVars>>

(* dispatch() goes on when its coroutine has ended: the finally releases   *)
(* the slot.                                                               *)
Release(t) ==
    /\ Loop /\ inner[t] \in {"ended", "stopped"}
    /\ LET place == IF inner[t] = "stopped" \/ t \in cancelling THEN "cancelled" ELSE "done"
       IN  Leave(t, place, free + 1, 1)
    /\ inner' = [inner EXCEPT ![t] = "none"]
    /\ cancelling' = cancelling \ {t}
    /\ UNCHANGED <<loopVars, poolVars>>

-----------------------------------------------------------------------------
(* _adjust_thread_count(): an idle thread is claimed for the call, or a    *)
(* new one starts if there may be more.                                    *)
AdjustThreadCount ==
    LET started == {w \in Threads : th[w] # "none"}
    IN  IF idle > 0
        THEN idle' = idle - 1 /\ UNCHANGED th
        ELSE /\ th' = IF started = Threads THEN th
                      ELSE [th EXCEPT ![Cardinality(started) + 1] = "looking"]
             /\ UNCHANGED idle

(* dispatch() of a function that is not a coroutine.                       *)
Submit(t) ==
    /\ Loop /\ kind[t] = "thread" /\ at[t] = "created" /\ t \notin cancelling
    /\ phase # "closed"
    /\ calls' = Append(calls, t)
    /\ AdjustThreadCount
    /\ at' = [at EXCEPT ![t] = "inpool"]
    /\ UNCHANGED <<loopVars, cancelling, slotVars, dropped, replied>>

(* A closed pool refuses the call with a RuntimeError.                     *)
Refused(t) ==
    /\ kind[t] = "thread" /\ at[t] = "created" /\ t \notin cancelling
    /\ phase = "closed"
    /\ at' = [at EXCEPT ![t] = "done"]
    /\ UNCHANGED <<loopVars, cancelling, slotVars, poolVars>>

(* The event loop learns of the end of a call, or of its cancellation.     *)
PoolReturns(t) ==
    /\ Loop /\ at[t] = "inpool" /\ t \in replied \cup cancelling
    /\ at' = [at EXCEPT ![t] = IF t \in cancelling THEN "cancelled" ELSE "done"]
    /\ cancelling' = cancelling \ {t}
    /\ replied' = replied \ {t}
    /\ UNCHANGED <<loopVars, slotVars, calls, dropped, idle, th>>

(* A thread takes a call, unless its future is cancelled.                  *)
TakeCall(w) ==
    /\ th[w] \in {"looking", "blocked"} /\ calls # <<>> /\ Head(calls) # Quit
    /\ calls' = Tail(calls)
    /\ dropped' = dropped \ {Head(calls)}
    /\ th' = [th EXCEPT ![w] = IF Head(calls) \in dropped THEN "looking" ELSE Head(calls)]
    /\ UNCHANGED <<loopVars, at, cancelling, slotVars, idle, replied>>

(* A thread ends, and tells the next one.                                  *)
TakeQuit(w) ==
    /\ th[w] \in {"looking", "blocked"} /\ calls # <<>> /\ Head(calls) = Quit
    /\ calls' = Append(Tail(calls), Quit)
    /\ th' = [th EXCEPT ![w] = "gone"]
    /\ UNCHANGED <<loopVars, at, cancelling, slotVars, dropped, idle, replied>>

NoCall(w) ==
    /\ th[w] = "looking" /\ calls = <<>>
    /\ th' = [th EXCEPT ![w] = "empty"]
    /\ UNCHANGED <<loopVars, at, cancelling, slotVars, calls, dropped, idle, replied>>

Rest(w) ==
    /\ th[w] = "empty"
    /\ idle' = idle + 1
    /\ th' = [th EXCEPT ![w] = "blocked"]
    /\ UNCHANGED <<loopVars, at, cancelling, slotVars, calls, dropped, replied>>

(* The function returns or raises.  A cancelled task is not told.          *)
CallEnds(w) ==
    /\ th[w] \in Tasks
    /\ replied' = IF at[th[w]] = "inpool" /\ th[w] \notin cancelling
                    THEN replied \cup {th[w]} ELSE replied
    /\ th' = [th EXCEPT ![w] = "looking"]
    /\ UNCHANGED <<loopVars, at, cancelling, slotVars, calls, dropped, idle>>

-----------------------------------------------------------------------------
(* The cancel endpoint cancels dispatch(), and so what that awaits: its    *)
(* waiter, its coroutine or its call.                                      *)
CancelWaiting(t) ==
    /\ Loop /\ at[t] = "waiting" /\ t \notin cancelling
    /\ cancelling' = cancelling \cup {t}
    /\ \E i \in DOMAIN waiters : waiters[i] = t /\ waiters' = RemoveAt(waiters, i)
    /\ UNCHANGED <<loopVars, at, free, inner, poolVars>>

CancelCoroutine(t) ==
    /\ Loop /\ inner[t] = "running"
    /\ inner' = [inner EXCEPT ![t] = "stopping"]
    /\ UNCHANGED <<loopVars, at, cancelling, free, waiters, poolVars>>

CancelCall(t) ==
    /\ Loop /\ at[t] = "inpool" /\ t \notin cancelling
    /\ cancelling' = cancelling \cup {t}
    /\ dropped' = IF t \in ToSet(calls) THEN dropped \cup {t} ELSE dropped
    /\ UNCHANGED <<loopVars, at, slotVars, calls, idle, th, replied>>

(* Nothing that it awaits can be cancelled: it finds the error later.      *)
CancelLater(t) ==
    /\ Loop /\ t \notin cancelling
    /\ at[t] \in {"created", "granted"} \/ inner[t] \in {"ended", "stopped"}
    /\ cancelling' = cancelling \cup {t}
    /\ UNCHANGED <<loopVars, at, slotVars, poolVars>>

-----------------------------------------------------------------------------
(* shutdown() ends the priority worker, also one that waits; what is in    *)
(* its queue stays there.                                                  *)
StopWorker ==
    /\ phase = "up"
    /\ phase' = "stopping" /\ worker' = "ready"
    /\ UNCHANGED <<kind, dedicated, queued, at, cancelling, slotVars, poolVars>>

\* Mutant: the dedicated pool is not waited for.
CloseAndGoOn ==
    /\ phase = "stopping" /\ dedicated
    /\ phase' = "closed"
    /\ calls' = Append(calls, Quit)
    /\ UNCHANGED <<kind, dedicated, queued, worker, at, cancelling, slotVars, dropped, idle, th, replied>>

(* After the last flush shutdown(wait=True) closes the dedicated pool: the *)
(* event loop stands still until the threads have ended.                   *)
CloseDedicated ==
    /\ phase = "stopping" /\ dedicated
    /\ phase' = "joining"
    /\ calls' = Append(calls, Quit)
    /\ UNCHANGED <<kind, dedicated, queued, worker, at, cancelling, slotVars, dropped, idle, th, replied>>

Joined ==
    /\ phase = "joining"
    /\ \A w \in Threads : th[w] \in {"none", "gone"}
    /\ phase' = "closed"
    /\ UNCHANGED <<kind, dedicated, queued, worker, at, cancelling, slotVars, poolVars>>

\* Mutant: the calls that have not begun are left in the queue.
CloseDefaultKeeping ==
    /\ phase = "stopping" /\ ~ dedicated
    /\ phase' = "closed"
    /\ calls' = Append(calls, Quit)
    /\ UNCHANGED <<kind, dedicated, queued, worker, at, cancelling, slotVars, dropped, idle, th, replied>>

(* shutdown(wait=False, cancel_futures=True) of the default pool.          *)
CloseDefault ==
    /\ phase = "stopping" /\ ~ dedicated
    /\ phase' = "closed"
    /\ calls' = <<Quit>>
    /\ cancelling' = cancelling \cup {t \in ToSet(calls) : at[t] = "inpool"}
    /\ dropped' = {}
    /\ UNCHANGED <<kind, dedicated, queued, worker, at, slotVars, idle, th, replied>>

-----------------------------------------------------------------------------
Dispatch(t) ==
    \/ Acquire(t) \/ Wait(t) \/ Resume(t) \/ GiveUp(t) \/ NeverBegin(t) \/ Release(t)
    \/ Submit(t) \/ Refused(t) \/ PoolReturns(t)

Coroutine(t) == Ends(t) \/ Stops(t)

Thread(w) == TakeCall(w) \/ TakeQuit(w) \/ NoCall(w) \/ Rest(w) \/ CallEnds(w)

Cancel(t) == CancelWaiting(t) \/ CancelCoroutine(t) \/ CancelCall(t) \/ CancelLater(t)

Next ==
    \/ \E t \in Tasks :
         \/ Add(t) \/ EnqueuePriority(t) \/ EnqueueInThread(t)
         \/ Dispatch(t) \/ Coroutine(t) \/ Persists(t) \/ Cancel(t)
    \/ Take \/ Await
    \/ \E w \in Threads : Thread(w)
    \/ StopWorker \/ CloseDedicated \/ Joined \/ CloseDefault

Spec == Init /\ [][Next]_vars

(* The event loop and the threads go on, and functions end.              *)
Fairness ==
    /\ \A t \in Tasks : WF_vars(Dispatch(t) \/ Coroutine(t))
    /\ \A w \in Threads : WF_vars(Thread(w))
    /\ WF_vars(Take \/ Await) /\ WF_vars(Joined)

FairSpec == Spec /\ Fairness

-----------------------------------------------------------------------------
(* No cancellation loses a slot of max_concurrent_tasks or makes one, when *)
(* it strikes before, between or after acquire() and the end of the        *)
(* coroutine (async_executor.py:88-108), and no coroutine runs without     *)
(* one.                                                                    *)
SlotsKept ==
    /\ free + Cardinality({t \in Tasks : at[t] \in {"granted", "running"}
                                           /\ kind[t] = "async"}) = Slots
    /\ \A t \in Tasks : inner[t] # "none" => at[t] = "running"

(* When the wait for the dedicated pool is over no function of it runs or  *)
(* will run (manager.py:823, and the docstring at 773).                    *)
PoolIsEmpty ==
    phase = "closed" /\ dedicated =>
        /\ \A w \in Threads : th[w] \in {"none", "gone"}
        /\ \A i \in DOMAIN calls : calls[i] = Quit

Started == {t \in Tasks : \E w \in Threads : th[w] = t}

(* Once the default pool is closed no function of a saved task begins      *)
(* (manager.py:826-828).                                                   *)
NoneBeginsAfterClose == [][phase = "closed" /\ ~ dedicated => Started' \subseteq Started]_vars

(* While functions end, every task that has been added ends, cancelled or  *)
(* not: slots and threads come free again (async_executor.py:106).  In the *)
(* priority queue remains what shutdown() leaves there (manager.py:1079),  *)
(* and what a thread has put beside a worker that sleeps (1062).           *)
TasksEnd ==
    \A t \in Tasks :
        at[t] # "new" ~>
            \/ at[t] \in {"done", "cancelled"}
            \/ at[t] = "queued" /\ phase # "up"
            \/ at[t] = "queued" /\ t \in FromThread /\ worker = "asleep"
=============================================================================
