------------------------------ MODULE Dashboard ------------------------------
(* What the dashboard of one instance shows of its store, of the history   *)
(* table and of the cache in between, and what it can do to them: the      *)
(* change notifications of TaskStore, the SSE stream, merged_list(), the   *)
(* retry endpoints, the deletion of old records and the periodic flush     *)
(* (store.py, dashboard/sse.py, manager.py, router.py, snapshot.py).       *)
(*                                                                         *)
(* A row of the history table carries the final status of its record,      *)
(* which does not change any more: `history', `cache' and what a load has  *)
(* read are sets of task ids.                                              *)
EXTENDS Naturals, FiniteSets, Sequences, SequencesExt

CONSTANTS
    Tasks,     \* tasks of this instance or of another on the same backend
    Retries,   \* ids for the tasks that a retry creates
    Streams,   \* dashboards that may connect
    Requests,  \* other HTTP requests in progress
    Replaces,  \* retry_replaces_original
    Nobody     \* not a task

Ids == Tasks \cup Retries
Callers == Streams \cup Requests

ASSUME CallersAssumption ==
    /\ IsFiniteSet(Ids)
    /\ Streams \cap Requests = {}
    /\ Nobody \notin Ids
    /\ Replaces \in BOOLEAN

VARIABLES
    status,     \* the record's status, "none" before it is created; a task
                \* that is "failed" from the start is another instance's
    store,      \* ids in TaskStore._tasks
    dispatched, \* ids that a queue or the event loop has accepted
    origin,     \* history: the task that a retry repeats
    history,    \* ids with a row in the history table
    saving,     \* what flush() has listed and not yet saved
    removing,   \* delete_records() scheduled and not yet carried out
    pruner,     \* where the deletion of old records is
    cut,        \* the ids before its cutoff
    backend,    \* there is a snapshot backend: TaskManager._scheduler
    cache,      \* _backend_cache
    fresh,      \* _backend_cache_ts is less than a TTL ago
    lock,       \* _backend_cache_lock: its holder, then who waits for it
    phase,      \* where each caller is in merged_list()
    want,       \* what a request is to retry: one task, or all failed ones
    live,       \* the caller's copy of the store
    rows,       \* the rows its load has read
    open,       \* streams that are subscribed
    queue,      \* a stream's queue of one place
    fanDue,     \* call_soon(_fan_out) is due
    ending,     \* history: streams open when the shutdown was notified
    behind,     \* history: ids whose present state the stream does not show
    steady      \* history: rows in the table ever since the cache expired

records == <<status, store, dispatched, origin, removing>>
table == <<history, saving>>
pruning == <<pruner, cut>>
cached == <<backend, cache, fresh>>
calls == <<lock, phase, want, live, rows>>
sse == <<open, queue, ending>>
vars == <<records, table, pruning, cached, calls, sse, fanDue, behind, steady>>

Final == {"success", "failed", "cancelled"}
Finished == {x \in Ids : status[x] \in Final}

TypeOK ==
    /\ status \in [Ids -> {"none", "pending"} \cup Final]
    /\ {store, dispatched, history, saving, removing, cut, cache, steady}
         \subseteq SUBSET Ids
    /\ origin \in [Ids -> Ids \cup {Nobody}]
    /\ pruner \in {"idle", "deleting", "sweeping", "returning"}
    /\ backend \in BOOLEAN /\ fresh \in BOOLEAN
    /\ lock \in Seq(Callers)
    /\ phase \in [Callers -> {"idle", "waiting", "loading", "loaded"}]
    /\ \A c \in Callers : phase[c] \in {"loading", "loaded"} => lock # <<>> /\ Head(lock) = c
    /\ want \in [Callers -> {"failed"} \cup Ids]
    /\ live \in [Callers -> SUBSET Ids]
    /\ rows \in [Callers -> SUBSET Ids]
    /\ open \subseteq Streams
    /\ queue \in [Streams -> {"empty", "change", "end"}]
    /\ fanDue \in BOOLEAN
    /\ ending \subseteq Streams
    /\ behind \in [Streams -> SUBSET Ids]

Init ==
    /\ backend \in BOOLEAN
    /\ \E peers \in SUBSET (IF backend THEN Tasks ELSE {}) :
          status = [x \in Ids |-> IF x \in peers THEN "failed" ELSE "none"]
    /\ store = {} /\ dispatched = {}
    /\ origin = [x \in Ids |-> Nobody]
    /\ history = {} /\ saving = {} /\ removing = {}
    /\ pruner = "idle" /\ cut = {}
    /\ cache = {} /\ fresh = FALSE
    /\ lock = <<>>
    /\ phase = [c \in Callers |-> "idle"]
    /\ want = [c \in Callers |-> "failed"]
    /\ live = [c \in Callers |-> {}]
    /\ rows = [c \in Callers |-> {}]
    /\ open = {} /\ ending = {}
    /\ queue = [s \in Streams |-> "empty"]
    /\ fanDue = FALSE
    /\ behind = [s \in Streams |-> {}]
    /\ steady = {}

-----------------------------------------------------------------------------
(* The records of the store and their notifications.                       *)

(* The ids in S changed: an open stream does not show it yet.              *)
Touch(S) == behind' = [s \in Streams |-> IF s \in open THEN behind[s] \cup S ELSE {}]

(* _notify_change() on the loop; in a pool thread it has no loop to ask    *)
(* and gives up.                                                           *)
Notify(onLoop) == fanDue' = (fanDue \/ onLoop)

(* create() and the dispatch of a task by a handler.                       *)
Submit(x, onLoop) ==
    /\ x \in Tasks
    /\ status[x] = "none"
    /\ status' = [status EXCEPT ![x] = "pending"]
    /\ store' = store \cup {x}
    /\ dispatched' = dispatched \cup {x}
    /\ Notify(onLoop)
    /\ Touch({x})
    /\ UNCHANGED <<origin, removing, table, pruning, cached, calls, sse, steady>>

(* update() with the final status; by a pool thread when it is the cancel  *)
(* of a task that has not begun, through a handler of its own.             *)
Finish(x, final, onLoop) ==
    /\ status[x] = "pending"
    /\ x \in dispatched
    /\ status' = [status EXCEPT ![x] = final]
    /\ Notify(onLoop)
    /\ Touch({x})
    /\ UNCHANGED <<store, dispatched, origin, removing, table, pruning,
                   cached, calls, sse, steady>>

\* Mutant: a full queue is emptied for the notification.
FanOutOverSentinel ==
    /\ fanDue
    /\ fanDue' = FALSE
    /\ queue' = [s \in Streams |-> IF s \in open THEN "change" ELSE queue[s]]
    /\ UNCHANGED <<records, table, pruning, cached, calls, open, ending, behind, steady>>

(* _fan_out(): a place that is taken stays as it is.                       *)
FanOut ==
    /\ fanDue
    /\ fanDue' = FALSE
    /\ queue' = [s \in Streams |-> IF s \in open /\ queue[s] = "empty"
                                   THEN "change" ELSE queue[s]]
    /\ UNCHANGED <<records, table, pruning, cached, calls, open, ending, behind, steady>>

(* notify_shutdown(): the sentinel takes the place of a waiting change.    *)
NotifyShutdown ==
    /\ queue' = [s \in Streams |-> IF s \in open THEN "end" ELSE queue[s]]
    /\ ending' = ending \cup open
    /\ UNCHANGED <<records, table, pruning, cached, calls, open, fanDue, behind, steady>>

-----------------------------------------------------------------------------
(* The history table.                                                      *)

(* SnapshotScheduler.flush(): the finished records are listed, then saved. *)
FlushList ==
    /\ backend
    /\ saving = {}
    /\ saving' = store \cap Finished
    /\ saving' # {}
    /\ UNCHANGED <<records, history, pruning, cached, calls, sse, fanDue, behind, steady>>

FlushSave ==
    /\ saving # {}
    /\ history' = history \cup saving
    /\ saving' = {}
    /\ Touch(saving \ history)
    /\ UNCHANGED <<records, pruning, cached, calls, sse, fanDue, steady>>

(* Another instance flushes a record of its own, again and again.          *)
PeerFlush(x) ==
    /\ backend
    /\ status[x] = "failed"
    /\ x \notin dispatched \cup history
    /\ history' = history \cup {x}
    /\ Touch({x})
    /\ UNCHANGED <<records, saving, pruning, cached, calls, sse, fanDue, steady>>

(* delete_records(), scheduled by a retry.                                 *)
DeleteRecord(x) ==
    /\ x \in removing
    /\ removing' = removing \ {x}
    /\ history' = history \ {x}
    /\ steady' = steady \ {x}
    /\ Touch({x})
    /\ UNCHANGED <<status, store, dispatched, origin, saving, pruning,
                   cached, calls, sse, fanDue>>

\* Mutant: every record created before the cutoff, whatever its status.
PruneAll ==
    /\ pruner = "idle"
    /\ pruner' = "deleting"
    /\ \E S \in SUBSET store :
        /\ cut' = S
        /\ store' = store \ S
        /\ Touch(S)
    /\ UNCHANGED <<status, dispatched, origin, removing, table, cached,
                   calls, sse, fanDue, steady>>

(* delete_history() and _prune_old_records(): the store is cleared of the  *)
(* finished records before some cutoff, without a notification.  That is   *)
(* all without a backend.  The scheduler remembers whether there were any. *)
PruneStore ==
    /\ pruner = "idle"
    /\ \E S \in SUBSET Finished \ {{}} :
        /\ store' = store \ S
        /\ Touch(store \cap S)
        /\ \/ backend /\ pruner' = "deleting" /\ cut' = S
           \/ backend /\ store \cap S = {} /\ pruner' = "sweeping" /\ cut' = S
           \/ ~backend /\ UNCHANGED pruning
    /\ UNCHANGED <<status, dispatched, origin, removing, table, cached,
                   calls, sse, fanDue, steady>>

(* delete_before() of the backend leaves cancelled rows.  The scheduler    *)
(* keeps the cache when nothing was deleted.                               *)
PruneBackend ==
    /\ pruner \in {"deleting", "sweeping"}
    /\ LET gone == {x \in history \cap cut : status[x] # "cancelled"}
       IN  /\ history' = history \ gone
           /\ Touch(gone)
           /\ pruner' = IF pruner = "sweeping" /\ gone = {} THEN "idle" ELSE "returning"
    /\ cut' = {}
    /\ steady' = steady \cap history'
    /\ UNCHANGED <<records, saving, cached, calls, sse, fanDue>>

\* Mutant: the entries are dropped and their timestamp is not.
InvalidateEntries ==
    /\ pruner = "returning"
    /\ pruner' = "idle"
    /\ cache' = {}
    /\ UNCHANGED <<records, table, cut, backend, fresh, calls, sse, fanDue, behind, steady>>

(* _invalidate_backend_cache(), when the delete has returned.              *)
Invalidate ==
    /\ pruner = "returning"
    /\ pruner' = "idle"
    /\ cache' = {}
    /\ fresh' = FALSE
    /\ UNCHANGED <<records, table, cut, backend, calls, sse, fanDue, behind, steady>>

(* merged_list_ttl seconds have gone by: nobody reads the old entries.     *)
Expire ==
    /\ fresh
    /\ fresh' = FALSE
    /\ cache' = {}
    /\ steady' = history
    /\ UNCHANGED <<records, table, pruning, backend, calls, sse, fanDue, behind>>

-----------------------------------------------------------------------------
(* Retries.                                                                *)

Unused == {n \in Retries : status[n] = "none"}

(* The new records of the tasks in S, under the ids that f gives them.     *)
CreateCopies(S, f) ==
    /\ status' = [n \in Ids |-> IF \E x \in S : f[x] = n THEN "pending" ELSE status[n]]
    /\ origin' = [n \in Ids |-> IF \E x \in S : f[x] = n
                                THEN CHOOSE x \in S : f[x] = n ELSE origin[n]]

Copies(S) == {f \in [S -> Unused] : \A x, y \in S : f[x] = f[y] => x = y}

\* Mutant: the originals go before enqueue() may refuse.
RetryAllDeleteFirst(S) ==
    \E f \in Copies(S), D \in SUBSET S :
        /\ CreateCopies(S, f)
        /\ dispatched' = dispatched \cup {f[x] : x \in D}
        /\ store' = (store \cup {f[x] : x \in S}) \ S
        /\ removing' = removing \cup S
        /\ Notify(TRUE)
        /\ Touch(S \cup {f[x] : x \in S})

(* The loop of retry_task(), bulk_retry() and retry_failed() over the      *)
(* tasks S.  A full queue ends it with an exception: the tasks D have been *)
(* dispatched, the refused one has a record, and no original is deleted.   *)
(* merged_list(), which bulk_retry() awaits at the first task that the     *)
(* store lacks, comes before the loop here.                                *)
RetryAll(S) ==
    \/ \E f \in Copies(S) :
          /\ CreateCopies(S, f)
          /\ dispatched' = dispatched \cup {f[x] : x \in S}
          /\ store' = (store \cup {f[x] : x \in S}) \ (IF Replaces THEN S ELSE {})
          /\ removing' = IF Replaces /\ backend THEN removing \cup S ELSE removing
          /\ Notify(TRUE)
          /\ Touch(S \cup {f[x] : x \in S})
    \/ \E refused \in S : \E D \in SUBSET (S \ {refused}) :
          \E f \in Copies(D \cup {refused}) :
             /\ CreateCopies(D \cup {refused}, f)
             /\ dispatched' = dispatched \cup {f[x] : x \in D}
             /\ store' = store \cup {f[x] : x \in D \cup {refused}}
             /\ Notify(TRUE)
             /\ Touch({f[x] : x \in D \cup {refused}})
             /\ UNCHANGED removing

(* merged_list() has put its view together: a stream sends it, and a       *)
(* request retries what failed in it.  Functions that are not registered   *)
(* here are skipped.                                                       *)
Answer(c, w, view) ==
    \/ /\ c \in Streams
       /\ behind' = [behind EXCEPT ![c] =
                        {x \in Ids : (x \in store \cup history) # (x \in view)}]
       /\ UNCHANGED <<records, fanDue>>
    \/ /\ c \in Requests
       /\ \E S \in SUBSET {x \in view : status[x] = "failed"} :
             /\ w # "failed" => S \subseteq {w}
             /\ IF S = {} THEN UNCHANGED <<records, fanDue, behind>> ELSE RetryAll(S)

(* retry_task() and bulk_retry() of tasks that the store has.              *)
RetryNow(S) ==
    /\ S # {}
    /\ S \subseteq {x \in store : status[x] = "failed"}
    /\ RetryAll(S)
    /\ UNCHANGED <<table, pruning, cached, calls, sse, steady>>

-----------------------------------------------------------------------------
(* merged_list().                                                          *)

\* Mutant: every caller that finds the cache expired loads for itself.
AskAtOnce(c, w) ==
    \/ /\ backend => fresh
       /\ Answer(c, w, store \cup cache)
       /\ UNCHANGED calls
    \/ /\ backend /\ ~fresh
       /\ lock' = Append(lock, c)
       /\ phase' = [phase EXCEPT ![c] = "loading"]
       /\ want' = [want EXCEPT ![c] = w]
       /\ live' = [live EXCEPT ![c] = store]
       /\ UNCHANGED <<records, fanDue, behind, rows>>

(* The store is copied.  It is all there is without a backend; a cache     *)
(* that has not expired answers at once, else the caller takes its turn at *)
(* the lock.                                                               *)
Ask(c, w) ==
    \/ /\ backend => fresh
       /\ Answer(c, w, store \cup cache)
       /\ UNCHANGED calls
    \/ /\ backend /\ ~fresh
       /\ lock' = Append(lock, c)
       /\ phase' = [phase EXCEPT ![c] = IF lock = <<>> THEN "loading" ELSE "waiting"]
       /\ want' = [want EXCEPT ![c] = w]
       /\ live' = [live EXCEPT ![c] = store]
       /\ UNCHANGED <<records, fanDue, behind, rows>>

(* The caller leaves merged_list() and the lock.                           *)
Done(c) ==
    /\ IF phase[c] = "idle" THEN UNCHANGED lock
       ELSE \E i \in DOMAIN lock : lock[i] = c /\ lock' = RemoveAt(lock, i)
    /\ phase' = [phase EXCEPT ![c] = "idle"]
    /\ want' = [want EXCEPT ![c] = "failed"]
    /\ live' = [live EXCEPT ![c] = {}]
    /\ rows' = [rows EXCEPT ![c] = {}]

(* retry_failed(), or a retry of a task that the store does not have.      *)
RetryFailed(r, w) ==
    /\ phase[r] = "idle"
    /\ w = "failed" \/ w \notin store
    /\ Unused # {}
    /\ Ask(r, w)
    /\ UNCHANGED <<table, pruning, cached, sse, steady>>

(* A caller that waited gets the lock and looks at the timestamp again.    *)
Wake(c) ==
    /\ lock # <<>>
    /\ Head(lock) = c
    /\ phase[c] = "waiting"
    /\ \/ /\ fresh
          /\ Answer(c, want[c], live[c] \cup cache)
          /\ Done(c)
       \/ /\ ~fresh
          /\ phase' = [phase EXCEPT ![c] = "loading"]
          /\ UNCHANGED <<lock, want, live, rows, records, fanDue, behind>>
    /\ UNCHANGED <<table, pruning, cached, sse, steady>>

(* The backend reads its rows, in a thread ...                             *)
LoadRead(c) ==
    /\ phase[c] = "loading"
    /\ rows' = [rows EXCEPT ![c] = history]
    /\ phase' = [phase EXCEPT ![c] = "loaded"]
    /\ UNCHANGED <<records, table, pruning, cached, lock, want, live, sse,
                   fanDue, behind, steady>>

(* ... and the caller fills the cache with them some time later.           *)
LoadReturns(c) ==
    /\ phase[c] = "loaded"
    /\ cache' = rows[c]
    /\ fresh' = TRUE
    /\ Answer(c, want[c], live[c] \cup rows[c])
    /\ Done(c)
    /\ UNCHANGED <<table, pruning, backend, sse, steady>>

(* The backend raises: the request fails and releases the lock.            *)
LoadFails(r) ==
    /\ r \in Requests
    /\ phase[r] = "loading"
    /\ Done(r)
    /\ UNCHANGED <<records, table, pruning, cached, sse, fanDue,
                   behind, steady>>

-----------------------------------------------------------------------------
(* _sse_generator().                                                       *)

(* It subscribes, and asks for its first state.                            *)
Open(s) ==
    /\ s \notin open
    /\ open' = open \cup {s}
    /\ Ask(s, "failed")
    /\ UNCHANGED <<table, pruning, cached, queue, ending, steady>>

(* It waits for a message or, every poll_interval, for none.               *)
Idle(s) == s \in open /\ phase[s] = "idle"

TakeChange(s) ==
    /\ Idle(s)
    /\ queue[s] = "change"
    /\ queue' = [queue EXCEPT ![s] = "empty"]
    /\ Ask(s, "failed")
    /\ UNCHANGED <<table, pruning, cached, open, ending, steady>>

(* poll_interval without a message.  Without a backend the stream sends a  *)
(* keep-alive and nothing that it could show.                              *)
TimeoutPoll(s) ==
    /\ backend
    /\ Idle(s)
    /\ queue[s] = "empty"
    /\ Ask(s, "failed")
    /\ UNCHANGED <<table, pruning, cached, sse, steady>>

(* The generator ends, wherever it is: remove_subscriber().                *)
Close(s) ==
    /\ open' = open \ {s}
    /\ ending' = ending \ {s}
    /\ queue' = [queue EXCEPT ![s] = "empty"]
    /\ behind' = [behind EXCEPT ![s] = {}]
    /\ UNCHANGED <<records, table, pruning, cached, fanDue, steady>>

TakeSentinel(s) ==
    /\ Idle(s)
    /\ queue[s] = "end"
    /\ Close(s)
    /\ UNCHANGED calls

\* Mutant: a load that is cancelled does not give the lock back.
DisconnectWithLock(s) ==
    /\ s \in open
    /\ Close(s)
    /\ phase' = [phase EXCEPT ![s] = "idle"]
    /\ live' = [live EXCEPT ![s] = {}]
    /\ rows' = [rows EXCEPT ![s] = {}]
    /\ UNCHANGED <<lock, want>>

(* The client goes, or the backend raises: an exception out of whatever    *)
(* the generator waits for, which releases the lock.                       *)
Disconnect(s) ==
    /\ s \in open
    /\ Close(s)
    /\ Done(s)

-----------------------------------------------------------------------------
Next ==
    \/ \E x \in Tasks, onLoop \in BOOLEAN : Submit(x, onLoop)
    \/ \E x \in Ids, final \in Final, onLoop \in BOOLEAN : Finish(x, final, onLoop)
    \/ \E x \in Ids : DeleteRecord(x)
    \/ \E x \in Tasks : PeerFlush(x)
    \/ FanOut \/ NotifyShutdown
    \/ FlushList \/ FlushSave
    \/ PruneStore \/ PruneBackend \/ Invalidate
    \/ Expire
    \/ \E S \in SUBSET Ids : RetryNow(S)
    \/ \E r \in Requests, w \in Ids \cup {"failed"} : RetryFailed(r, w)
    \/ \E c \in Callers : Wake(c) \/ LoadRead(c) \/ LoadReturns(c)
    \/ \E r \in Requests : LoadFails(r)
    \/ \E s \in Streams : \/ Open(s) \/ TakeChange(s) \/ TimeoutPoll(s)
                           \/ TakeSentinel(s) \/ Disconnect(s)

Spec == Init /\ [][Next]_vars

(* The loop runs what is due, the backend answers, and the clock goes on.  *)
Fairness ==
    /\ WF_vars(FanOut) /\ WF_vars(Expire)
    /\ \A c \in Callers : WF_vars(Wake(c) \/ LoadRead(c) \/ LoadReturns(c))
    /\ \A s \in Streams : WF_vars(TakeChange(s) \/ TakeSentinel(s) \/ TimeoutPoll(s))

FairSpec == Spec /\ Fairness

-----------------------------------------------------------------------------
(* A record that a retry has replaced is repeated by a task that a queue   *)
(* or the event loop has accepted: a retry loses no work.                  *)
RetryKeepsWork ==
    \A x \in removing : \E n \in dispatched : origin[n] = x

(* No deletion takes away the record of a task that has not ended.         *)
UnfinishedStays ==
    \A x \in Ids : status[x] = "pending" => x \in store

(* While it is fresh, the cache has every row that was in the table when   *)
(* the one before it expired and has stayed there since.                   *)
CacheNotBehind == fresh => steady \subseteq cache

(* A stream that was open at the shutdown ends, whatever it was doing.     *)
StreamsEnd == \A s \in Streams : s \in ending ~> s \notin ending

(* When a record is here to stay, or gone for good, an open stream shows   *)
(* it so in the end: with a backend always, and without one if the change  *)
(* was notified, which a pool thread's is not (store.py:112-117).          *)
Present(x) == x \in store \cup history
Steady(x) == <>[]Present(x) \/ <>[]~Present(x)
Due(s, x) == x \in behind[s] /\ (backend \/ fanDue \/ queue[s] = "change")

DashboardCatchesUp ==
    \A s \in Streams, x \in Ids :
        Steady(x) => (Due(s, x) ~> x \notin behind[s])
=============================================================================
