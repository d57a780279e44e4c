---------------------------- MODULE TaskLifecycle ----------------------------
(***************************************************************************)
(* The life of tasks inside one process, from add_task() through the       *)
(* middleware pipeline (idempotency, logging, retry), the cancel endpoint, *)
(* the periodic flush and the graceful shutdown that classifies what is    *)
(* unfinished.  The store record of a task is a status; everything the     *)
(* pipeline awaits is a place where another coroutine may change it.       *)
(***************************************************************************)
EXTENDS Integers, FiniteSets

CONSTANTS
  Tasks,
  Retries,        \* Retries[t] = TaskConfig.retries
  RequeueSafe,    \* tasks registered with requeue_on_interrupt=True
  ProcessTasks,   \* tasks run by the process executor
  ThreadTasks,    \* tasks submitted by handlers running in the thread pool
  Key,            \* Key[t] = the idempotency key passed to add_task()
  NoKey,          \* no idempotency key
  NoTask,         \* no task has recorded the key
  RequeuePending  \* TaskManager(requeue_pending=...)

ASSUME ConstantsAssumption ==
  /\ Retries \in [Tasks -> Nat]
  /\ RequeueSafe \subseteq Tasks
  /\ ProcessTasks \subseteq Tasks
  /\ ThreadTasks \subseteq Tasks
  /\ Tasks \subseteq DOMAIN Key
  /\ NoTask \notin Tasks
  /\ RequeuePending \in BOOLEAN

Keys == {Key[t] : t \in Tasks} \ {NoKey}

VARIABLES
  status,     \* status of the store record, "none" before add_task()
  at,         \* where the task's coroutine is
  attempt,    \* ctx.attempt
  lastError,  \* tasks whose ctx.last_error is set
  completed,  \* history: tasks whose function has returned
  cut,        \* history: tasks whose worker process was interrupted
  skipped,    \* history: tasks found already done under their key
  keyOwner,   \* the task recorded in the backend under each key
  history,    \* status of the task in the history table, "none" if absent
  pendingTable, \* rows of the pending table
  answering,  \* cancel requests awaiting their flush_one()
  phase,      \* how far shutdown() is
  toRequeue, toInterrupt  \* the two lists of flush_pending()

taskVars == <<status, at, attempt, lastError, completed, cut, skipped>>
shutdownVars == <<phase, toRequeue, toInterrupt>>
backendVars == <<keyOwner, history, pendingTable>>
vars == <<taskVars, backendVars, answering, shutdownVars>>

Final == {"success", "failed", "cancelled", "interrupted", "rejected"}
Status == {"none", "pending", "running"} \cup Final

(* unheld: a handler in a pool thread found the key free.  queued: handed  *)
(* to a queue, a worker or Starlette.  checking: awaiting                  *)
(* check_idempotency_key.  body: awaiting the function.  backoff: sleeping *)
(* before a retry.  cancelling: CancelledError on its way.  flushing:      *)
(* awaiting flush_one.  recording: awaiting record_idempotency_key.        *)
Places == {"none", "unheld", "queued", "checking", "body", "backoff", "cancelling",
           "flushing", "recording", "gone"}

Phases == {"up", "signalled", "flushed", "classified", "savedHistory", "exited"}

TypeOK ==
  /\ status \in [Tasks -> Status]
  /\ at \in [Tasks -> Places]
  /\ attempt \in [Tasks -> Nat]
  /\ lastError \subseteq Tasks
  /\ completed \subseteq Tasks /\ cut \subseteq Tasks /\ skipped \subseteq Tasks
  /\ keyOwner \in [Keys -> Tasks \cup {NoTask}]
  /\ history \in [Tasks -> Status]
  /\ pendingTable \subseteq Tasks
  /\ answering \subseteq Tasks
  /\ phase \in Phases
  /\ toRequeue \subseteq Tasks /\ toInterrupt \subseteq Tasks

Init ==
  /\ status = [t \in Tasks |-> "none"]
  /\ at = [t \in Tasks |-> "none"]
  /\ attempt = [t \in Tasks |-> 0]
  /\ lastError = {} /\ completed = {} /\ cut = {} /\ skipped = {}
  /\ keyOwner = [k \in Keys |-> NoTask]
  /\ history = [t \in Tasks |-> "none"]
  /\ pendingTable = {}
  /\ answering = {}
  /\ phase = "up"
  /\ toRequeue = {} /\ toInterrupt = {}

Alive == phase # "exited"
ShuttingDown == phase # "up"            \* store._shutting_down
Serving == phase \in {"up", "signalled"} \* requests are still answered
Ends(t) == at' = [at EXCEPT ![t] = "gone"]
Moves(t, place) == at' = [at EXCEPT ![t] = place]
Becomes(t, s) == status' = [status EXCEPT ![t] = s]

-----------------------------------------------------------------------------
(* Mutant: only a task that has not ended holds its key.                   *)
HeldWhileActive(t) ==
  /\ Key[t] # NoKey
  /\ \E u \in Tasks : Key[u] = Key[t] /\ status[u] \in {"pending", "running"}

(* store.find_by_idempotency_key(): a record that is neither failed nor    *)
(* interrupted already holds the key.                                      *)
HeldInProcess(t) ==
  /\ Key[t] # NoKey
  /\ \E u \in Tasks : Key[u] = Key[t] /\ status[u] \notin {"none", "failed", "interrupted"}

(* add_task() in a pool thread: the lock is dropped after the look-up.     *)
LookUpKey(t) ==
  /\ Serving /\ at[t] = "none" /\ t \in ThreadTasks /\ ~HeldInProcess(t)
  /\ Moves(t, "unheld")
  /\ UNCHANGED <<status, attempt, lastError, completed, cut, skipped, backendVars,
                 answering, shutdownVars>>

(* add_task(): the record is created PENDING and handed on, or, when the   *)
(* named queue is full, marked REJECTED.  A held key returns the older id. *)
Submit(t) ==
  /\ Serving
  /\ IF t \in ThreadTasks THEN at[t] = "unheld" ELSE at[t] = "none" /\ ~HeldInProcess(t)
  /\ \/ Becomes(t, "pending") /\ Moves(t, "queued")
     \/ Becomes(t, "rejected") /\ Ends(t)
  /\ UNCHANGED <<attempt, lastError, completed, cut, skipped, backendVars,
                 answering, shutdownVars>>

(* LoggingMiddleware sets RUNNING whatever the record says; the first      *)
(* attempt is dispatched without another await.                            *)
StartRunning(t) == Becomes(t, "running") /\ Moves(t, "body")

(* execute_task() begins.                                                  *)
Begin(t) ==
  /\ Alive /\ at[t] = "queued"
  /\ \/ Key[t] # NoKey /\ Moves(t, "checking") /\ UNCHANGED status
     \/ Key[t] = NoKey /\ StartRunning(t)
  /\ UNCHANGED <<attempt, lastError, completed, cut, skipped, backendVars,
                 answering, shutdownVars>>

(* The key check answers.  Another task's id: SUCCESS without running.     *)
(* No id, or an exception from the backend: go on.                         *)
KeyChecked(t) ==
  /\ Alive /\ at[t] = "checking"
  /\ \/ /\ keyOwner[Key[t]] \notin {NoTask, t}
        /\ Becomes(t, "success") /\ Ends(t)
        /\ skipped' = skipped \cup {t}
     \/ StartRunning(t) /\ UNCHANGED skipped
  /\ UNCHANGED <<attempt, lastError, completed, cut, backendVars, answering, shutdownVars>>

(* The pipeline returns with no error: SUCCESS, whatever the record says,  *)
(* then on_success.                                                        *)
Succeed(t) == Becomes(t, "success") /\ Moves(t, "flushing")

(* Mutant: FAILED whatever the record says.                                *)
FailUnguarded(t) == Ends(t) /\ Becomes(t, "failed")

(* The pipeline returns with an error: FAILED unless the shutdown has      *)
(* already given the record its verdict.                                   *)
Fail(t) ==
  /\ Ends(t)
  /\ \/ status[t] = "running" /\ Becomes(t, "failed")
     \/ status[t] # "running" /\ UNCHANGED status

(* The function returned.                                                  *)
BodyReturns(t) ==
  /\ Alive /\ at[t] = "body"
  /\ Succeed(t)
  /\ completed' = completed \cup {t}
  /\ lastError' = lastError \ {t}
  /\ UNCHANGED <<attempt, cut, skipped, backendVars, answering, shutdownVars>>

(* Mutant: the last retry is left out.                                     *)
BodyRaisesOneTryLess(t) ==
  /\ Alive /\ at[t] = "body"
  /\ lastError' = lastError \cup {t}
  /\ \/ attempt[t] + 1 < Retries[t] /\ Moves(t, "backoff") /\ UNCHANGED status
     \/ attempt[t] + 1 >= Retries[t] /\ Fail(t)
  /\ UNCHANGED <<attempt, completed, cut, skipped, backendVars, answering, shutdownVars>>

(* The function raised.                                                    *)
BodyRaises(t) ==
  /\ Alive /\ at[t] = "body"
  /\ lastError' = lastError \cup {t}
  /\ \/ attempt[t] < Retries[t] /\ Moves(t, "backoff") /\ UNCHANGED status
     \/ attempt[t] >= Retries[t] /\ Fail(t)
  /\ UNCHANGED <<attempt, completed, cut, skipped, backendVars, answering, shutdownVars>>

(* Ctrl+C reached the worker process: the retry loop returns at once and   *)
(* leaves last_error as the previous attempt left it.                      *)
WorkerInterrupted(t) ==
  /\ Alive /\ at[t] = "body" /\ t \in ProcessTasks
  /\ cut' = cut \cup {t}
  /\ \/ t \notin lastError /\ Succeed(t)
     \/ t \in lastError /\ Fail(t)
  /\ UNCHANGED <<attempt, lastError, completed, skipped, backendVars, answering, shutdownVars>>

(* The delay is over: next attempt.                                        *)
Retry(t) ==
  /\ Alive /\ at[t] = "backoff"
  /\ attempt' = [attempt EXCEPT ![t] = @ + 1]
  /\ Moves(t, "body")
  /\ UNCHANGED <<status, lastError, completed, cut, skipped, backendVars,
                 answering, shutdownVars>>

(* flush_one() writes the record as it is now; a backend error is logged.  *)
Flushed(t) == history' = [history EXCEPT ![t] = status[t]] \/ UNCHANGED history

OnSuccessDone(t) ==
  /\ Alive /\ at[t] = "flushing"
  /\ Flushed(t)
  /\ IF status[t] = "success" /\ Key[t] # NoKey THEN Moves(t, "recording") ELSE Ends(t)
  /\ UNCHANGED <<status, attempt, lastError, completed, cut, skipped, keyOwner,
                 pendingTable, answering, shutdownVars>>

(* record_idempotency_key(): the first writer keeps the key.               *)
KeyRecorded(t) ==
  /\ Alive /\ at[t] = "recording"
  /\ Ends(t)
  /\ \/ keyOwner[Key[t]] = NoTask /\ keyOwner' = [keyOwner EXCEPT ![Key[t]] = t]
     \/ UNCHANGED keyOwner
  /\ UNCHANGED <<status, attempt, lastError, completed, cut, skipped, history,
                 pendingTable, answering, shutdownVars>>

-----------------------------------------------------------------------------
(* POST /{id}/cancel of a PENDING task: CANCELLED at once, then flush_one. *)
CancelPending(t) ==
  /\ Serving /\ status[t] = "pending"
  /\ Becomes(t, "cancelled")
  /\ answering' = answering \cup {t}
  /\ UNCHANGED <<at, attempt, lastError, completed, cut, skipped, backendVars, shutdownVars>>

CancelAnswered(t) ==
  /\ Alive /\ t \in answering
  /\ answering' = answering \ {t}
  /\ Flushed(t)
  /\ UNCHANGED <<taskVars, keyOwner, pendingTable, shutdownVars>>

(* POST /{id}/cancel of a RUNNING task with a live handle.  Between two    *)
(* attempts the handle is done and the request is refused.                 *)
CancelRunning(t) ==
  /\ Serving /\ at[t] = "body" /\ status[t] = "running"
  /\ Moves(t, "cancelling")
  /\ UNCHANGED <<status, attempt, lastError, completed, cut, skipped, backendVars,
                 answering, shutdownVars>>

(* The server gives up waiting and cancels a request that still runs its   *)
(* background task.                                                        *)
ServerCancels(t) ==
  /\ phase = "signalled" /\ at[t] \in {"body", "backoff"}
  /\ Moves(t, "cancelling")
  /\ UNCHANGED <<status, attempt, lastError, completed, cut, skipped, backendVars,
                 answering, shutdownVars>>

(* Mutant: a cancelled task keeps its status, as in a shutdown.            *)
CancelledLeftRunning(t) ==
  /\ Alive /\ at[t] = "cancelling" /\ Ends(t)
  /\ UNCHANGED <<status, attempt, lastError, completed, cut, skipped, backendVars,
                 answering, shutdownVars>>

(* CancelledError reaches LoggingMiddleware.                               *)
Cancelled(t) ==
  /\ Alive /\ at[t] = "cancelling"
  /\ \/ /\ status[t] = "running" /\ ~ShuttingDown
        /\ Becomes(t, "cancelled") /\ Moves(t, "flushing")
     \/ /\ status[t] = "running" /\ ShuttingDown /\ t \in RequeueSafe
        /\ Becomes(t, "pending") /\ Ends(t)
     \/ /\ status[t] # "running" \/ (ShuttingDown /\ t \notin RequeueSafe)
        /\ Ends(t) /\ UNCHANGED status
  /\ UNCHANGED <<attempt, lastError, completed, cut, skipped, backendVars,
                 answering, shutdownVars>>

-----------------------------------------------------------------------------
(* flush(): every record with a final status goes to the history table.    *)
HistoryAfterFlush == [t \in Tasks |-> IF status[t] \in Final THEN status[t] ELSE history[t]]

PeriodicFlush ==
  /\ phase = "up" /\ history' = HistoryAfterFlush
  /\ UNCHANGED <<taskVars, keyOwner, pendingTable, answering, shutdownVars>>

(* The signal handler or shutdown() calls store.notify_shutdown().         *)
NotifyShutdown ==
  /\ phase = "up" /\ phase' = "signalled"
  /\ UNCHANGED <<taskVars, backendVars, answering, toRequeue, toInterrupt>>

(* shutdown(): await scheduler.flush().                                    *)
ShutdownFlush ==
  /\ phase = "signalled" /\ phase' = "flushed"
  /\ history' = HistoryAfterFlush
  /\ UNCHANGED <<taskVars, keyOwner, pendingTable, answering, toRequeue, toInterrupt>>

(* Mutant: a requeue-safe task goes back to PENDING and is not listed.     *)
ClassifyForgetting ==
  LET waiting == {t \in Tasks : status[t] = "pending"}
      midway == {t \in Tasks : status[t] = "running"}
  IN /\ phase = "flushed" /\ phase' = "classified"
     /\ toRequeue' = IF RequeuePending THEN waiting ELSE {}
     /\ toInterrupt' = midway \ RequeueSafe
     /\ status' = [t \in Tasks |-> IF t \in midway \cap RequeueSafe THEN "pending"
                                   ELSE IF t \in midway THEN "interrupted" ELSE status[t]]
     /\ UNCHANGED <<at, attempt, lastError, completed, cut, skipped, backendVars, answering>>

(* flush_pending(), up to its first await: PENDING records are kept when   *)
(* requeue_pending is on, RUNNING ones go back to PENDING or end as        *)
(* INTERRUPTED.                                                            *)
Classify ==
  LET waiting == {t \in Tasks : status[t] = "pending"}
      midway == {t \in Tasks : status[t] = "running"}
  IN /\ phase = "flushed" /\ phase' = "classified"
     /\ toRequeue' = (IF RequeuePending THEN waiting ELSE {}) \cup (midway \cap RequeueSafe)
     /\ toInterrupt' = midway \ RequeueSafe
     /\ status' = [t \in Tasks |-> IF t \in midway \cap RequeueSafe THEN "pending"
                                   ELSE IF t \in midway THEN "interrupted" ELSE status[t]]
     /\ UNCHANGED <<at, attempt, lastError, completed, cut, skipped, backendVars, answering>>

(* await backend.save(to_interrupt): the records as they are now.          *)
SaveInterrupted ==
  /\ phase = "classified" /\ phase' = "savedHistory"
  /\ history' = [t \in Tasks |-> IF t \in toInterrupt THEN status[t] ELSE history[t]]
  /\ UNCHANGED <<taskVars, keyOwner, pendingTable, answering, toRequeue, toInterrupt>>

(* await backend.save_pending(to_requeue), skipped for an empty list; then *)
(* shutdown() returns and the process ends.                                *)
SavePendingAndExit ==
  /\ phase = "savedHistory" /\ phase' = "exited"
  /\ pendingTable' = IF toRequeue = {} THEN pendingTable ELSE toRequeue
  /\ UNCHANGED <<taskVars, keyOwner, history, answering, toRequeue, toInterrupt>>

-----------------------------------------------------------------------------
\* What execute_task() does once it has begun.
Progress(t) == \/ KeyChecked(t) \/ BodyReturns(t) \/ BodyRaises(t)
               \/ WorkerInterrupted(t) \/ Retry(t) \/ OnSuccessDone(t)
               \/ KeyRecorded(t) \/ Cancelled(t)

Requests(t) == \/ LookUpKey(t) \/ Submit(t) \/ CancelPending(t) \/ CancelAnswered(t)
               \/ CancelRunning(t) \/ ServerCancels(t)

Shutdown == NotifyShutdown \/ ShutdownFlush \/ Classify \/ SaveInterrupted \/ SavePendingAndExit

Next == \/ \E t \in Tasks : Begin(t) \/ Progress(t) \/ Requests(t)
        \/ PeriodicFlush
        \/ Shutdown

Spec == Init /\ [][Next]_vars

(* The event loop runs every coroutine that has begun, functions and the   *)
(* calls of the backend return.  That what is handed over begins is not    *)
(* given: the wake-up of a named queue or of the priority worker may be    *)
(* lost (manager.py:155, 1062), the permit of a queue too (1018), and a    *)
(* CancelledError that is raised again (middleware.py:355) ends the list   *)
(* of Starlette's background tasks.                                        *)
Fairness == \A t \in Tasks : WF_vars(Progress(t)) /\ WF_vars(CancelAnswered(t))
FairSpec == Spec /\ Fairness

-----------------------------------------------------------------------------
(* LoggingMiddleware guards FAILED against the verdict of flush_pending()  *)
(* (middleware.py:380): an INTERRUPTED record, or one given back to        *)
(* PENDING mid-run, changes afterwards only to SUCCESS, because its        *)
(* function did return or because its worker process was interrupted when  *)
(* no attempt had failed yet: the retry loop returns without an error      *)
(* (447), which is taken for a success (358).                              *)
ShutdownVerdictStands ==
  [][\A t \in Tasks :
       (\/ status[t] = "interrupted"
        \/ t \in toRequeue /\ status[t] = "pending" /\ at[t] \in {"body", "backoff"})
       => \/ status'[t] = status[t]
          \/ /\ status'[t] = "success"
             /\ \/ t \in completed' \ completed
                \/ t \in cut' \ (cut \cup lastError)]_vars

(* "FAILED: all retries exhausted", unless a worker was interrupted.       *)
FailedMeansExhausted ==
  \A t \in Tasks : status[t] = "failed" =>
    t \notin completed /\ (attempt[t] = Retries[t] \/ t \in cut)

(* The in-process check of add_task(): within a process at most one        *)
(* function call per idempotency key returns.                              *)
OneCompletionPerKey ==
  \A t, u \in completed : t # u /\ Key[t] # NoKey => Key[t] # Key[u]

(* A graceful shutdown with requeue_pending leaves no unfinished task      *)
(* behind: it is in the pending table or has a history entry.              *)
NothingUnfinishedLost ==
  phase = "exited" /\ RequeuePending =>
    \A t \in Tasks : status[t] \in {"pending", "running", "interrupted"} =>
      t \in pendingTable \/ history[t] # "none"

(* While the process is up every task that has begun reaches a final       *)
(* status, whichever of its attempts fails or is cancelled                 *)
(* (middleware.py:324-355).                                                *)
TasksSettle ==
  \A t \in Tasks :
    at[t] \in {"checking", "body", "backoff", "cancelling"} ~>
      status[t] \in Final \/ ShuttingDown
=============================================================================
