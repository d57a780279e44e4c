-------------------------- MODULE TaskLifecycleProofs --------------------------
(***************************************************************************)
(* What holds of the life of tasks in one process for every set of tasks,  *)
(* of keys and of retries: a failed task has used its retries, the key of  *)
(* a task lets one function return, and a shutdown leaves no unfinished    *)
(* task behind and is not overruled by what the tasks do afterwards.       *)
(*                                                                         *)
(* The argument: where the coroutine of a task is tells which statuses its *)
(* record may have; whatever the record says when the shutdown looks at it *)
(* is either listed then, or has been in the history since its flush.      *)
(***************************************************************************)
EXTENDS TaskLifecycle, TLAPS

-----------------------------------------------------------------------------
(* The inductive invariant.                                                *)

Classified == {"classified", "savedHistory", "exited"}
Flushing == {"flushed"} \cup Classified

(* The status of a record that goes with a place of its coroutine.         *)
StatusAtPlace ==
  \A t \in Tasks :
    /\ status[t] = "none" <=> at[t] \in {"none", "unheld"}
    /\ at[t] \in {"queued", "checking"} => status[t] \in {"pending", "cancelled"}
    /\ at[t] \in {"body", "backoff", "cancelling"} =>
         \/ status[t] = "running"
         \/ status[t] \in {"pending", "interrupted"} /\ phase \in Classified
    /\ at[t] \in {"flushing", "recording"} => status[t] \in {"success", "cancelled"}
    /\ status[t] = "failed" => at[t] = "gone"
    /\ t \in completed => status[t] = "success"
    /\ t \in cut => at[t] \in {"flushing", "recording", "gone"}

(* The retries that a task has used.                                       *)
Attempts ==
  \A t \in Tasks :
    /\ attempt[t] <= Retries[t]
    /\ at[t] = "backoff" => attempt[t] < Retries[t]
    /\ status[t] = "failed" => attempt[t] = Retries[t] \/ t \in cut

(* Where the shutdown has put what was not finished.                       *)
Listed ==
  /\ phase \notin Classified => toRequeue = {} /\ toInterrupt = {}
  /\ \A t \in Tasks :
       /\ status[t] = "interrupted" => t \in toInterrupt
       /\ t \in toInterrupt => status[t] # "none"
       /\ phase \in Flushing /\ status[t] = "cancelled" => history[t] # "none"
       /\ phase \in Classified /\ status[t] \in {"pending", "running"} /\ RequeuePending =>
            t \in toRequeue \/ history[t] # "none"
       /\ phase \in {"savedHistory", "exited"} /\ t \in toInterrupt => history[t] # "none"
       /\ phase = "exited" /\ t \in toRequeue => t \in pendingTable

IInv == TypeOK /\ StatusAtPlace /\ Attempts /\ Listed

-----------------------------------------------------------------------------
LEMMA InitIInv == Init => IInv
<1> SUFFICES ASSUME Init PROVE IInv
  OBVIOUS
<1> USE ConstantsAssumption DEF ConstantsAssumption
<1>1. TypeOK
  BY DEF Init, TypeOK, Status, Places, Phases
<1>2. StatusAtPlace /\ Attempts /\ Listed
  BY DEF Init, StatusAtPlace, Attempts, Listed, Classified, Flushing
<1>. QED BY <1>1, <1>2 DEF IInv

LEMMA TypeStep == TypeOK /\ [Next]_vars => TypeOK'
<1> SUFFICES ASSUME TypeOK, [Next]_vars PROVE TypeOK'
  OBVIOUS
<1> USE DEF TypeOK, taskVars, backendVars, shutdownVars, Status, Places, Phases, Final
<1>1. ASSUME NEW t \in Tasks, LookUpKey(t) PROVE TypeOK'
  BY <1>1 DEF LookUpKey, Moves, Serving
<1>2. ASSUME NEW t \in Tasks, Submit(t) PROVE TypeOK'
  BY <1>2 DEF Submit, Becomes, Moves, Ends, Serving
<1>3. ASSUME NEW t \in Tasks, Begin(t) PROVE TypeOK'
  BY <1>3 DEF Begin, StartRunning, Becomes, Moves, Alive
<1>4. ASSUME NEW t \in Tasks, KeyChecked(t) PROVE TypeOK'
  BY <1>4 DEF KeyChecked, StartRunning, Becomes, Moves, Ends, Alive
<1>5. ASSUME NEW t \in Tasks, BodyReturns(t) PROVE TypeOK'
  BY <1>5 DEF BodyReturns, Succeed, Becomes, Moves, Alive
<1>6. ASSUME NEW t \in Tasks, BodyRaises(t) PROVE TypeOK'
  BY <1>6 DEF BodyRaises, Fail, Becomes, Moves, Ends, Alive
<1>7. ASSUME NEW t \in Tasks, WorkerInterrupted(t) PROVE TypeOK'
  BY <1>7 DEF WorkerInterrupted, Succeed, Fail, Becomes, Moves, Ends, Alive
<1>8. ASSUME NEW t \in Tasks, Retry(t) PROVE TypeOK'
  BY <1>8 DEF Retry, Moves, Alive
<1>9. ASSUME NEW t \in Tasks, OnSuccessDone(t) PROVE TypeOK'
  BY <1>9 DEF OnSuccessDone, Flushed, Moves, Ends, Alive
<1>10. ASSUME NEW t \in Tasks, KeyRecorded(t) PROVE TypeOK'
  BY <1>10 DEF KeyRecorded, Ends, Alive
<1>11. ASSUME NEW t \in Tasks, Cancelled(t) PROVE TypeOK'
  BY <1>11 DEF Cancelled, Becomes, Moves, Ends, Alive, ShuttingDown
<1>12. ASSUME NEW t \in Tasks, CancelPending(t) PROVE TypeOK'
  BY <1>12 DEF CancelPending, Becomes, Serving
<1>13. ASSUME NEW t \in Tasks, CancelAnswered(t) PROVE TypeOK'
  BY <1>13 DEF CancelAnswered, Flushed, Alive
<1>14. ASSUME NEW t \in Tasks, CancelRunning(t) PROVE TypeOK'
  BY <1>14 DEF CancelRunning, Moves, Serving
<1>15. ASSUME NEW t \in Tasks, ServerCancels(t) PROVE TypeOK'
  BY <1>15 DEF ServerCancels, Moves
<1>16. CASE PeriodicFlush
  BY <1>16 DEF PeriodicFlush, HistoryAfterFlush
<1>17. CASE NotifyShutdown
  BY <1>17 DEF NotifyShutdown
<1>18. CASE ShutdownFlush
  BY <1>18 DEF ShutdownFlush, HistoryAfterFlush
<1>19. CASE Classify
  BY <1>19 DEF Classify
<1>20. CASE SaveInterrupted
  BY <1>20 DEF SaveInterrupted
<1>21. CASE SavePendingAndExit
  BY <1>21 DEF SavePendingAndExit
<1>22. CASE UNCHANGED vars
  BY <1>22 DEF vars
<1>. QED
  BY <1>1, <1>2, <1>3, <1>4, <1>5, <1>6, <1>7, <1>8, <1>9, <1>10, <1>11, <1>12,
     <1>13, <1>14, <1>15, <1>16, <1>17, <1>18, <1>19, <1>20, <1>21, <1>22
  DEF Next, Progress, Requests, Shutdown

LEMMA PlaceStep == IInv /\ [Next]_vars => StatusAtPlace'
<1> SUFFICES ASSUME IInv, [Next]_vars PROVE StatusAtPlace'
  OBVIOUS
<1> USE DEF IInv, TypeOK, taskVars, backendVars, shutdownVars, StatusAtPlace, Listed,
        Classified
<1>1. ASSUME NEW t \in Tasks, LookUpKey(t) PROVE StatusAtPlace'
  BY <1>1 DEF LookUpKey, Moves, Serving
<1>2. ASSUME NEW t \in Tasks, Submit(t) PROVE StatusAtPlace'
  BY <1>2 DEF Submit, Becomes, Moves, Ends, Serving
<1>3. ASSUME NEW t \in Tasks, Begin(t) PROVE StatusAtPlace'
  BY <1>3 DEF Begin, StartRunning, Becomes, Moves, Alive
<1>4. ASSUME NEW t \in Tasks, KeyChecked(t) PROVE StatusAtPlace'
  BY <1>4 DEF KeyChecked, StartRunning, Becomes, Moves, Ends, Alive
<1>5. ASSUME NEW t \in Tasks, BodyReturns(t) PROVE StatusAtPlace'
  BY <1>5 DEF BodyReturns, Succeed, Becomes, Moves, Alive
<1>6. ASSUME NEW t \in Tasks, BodyRaises(t) PROVE StatusAtPlace'
  BY <1>6 DEF BodyRaises, Fail, Becomes, Moves, Ends, Alive
<1>7. ASSUME NEW t \in Tasks, WorkerInterrupted(t) PROVE StatusAtPlace'
  BY <1>7 DEF WorkerInterrupted, Succeed, Fail, Becomes, Moves, Ends, Alive
<1>8. ASSUME NEW t \in Tasks, Retry(t) PROVE StatusAtPlace'
  BY <1>8 DEF Retry, Moves, Alive
<1>9. ASSUME NEW t \in Tasks, OnSuccessDone(t) PROVE StatusAtPlace'
  BY <1>9 DEF OnSuccessDone, Flushed, Moves, Ends, Alive
<1>10. ASSUME NEW t \in Tasks, KeyRecorded(t) PROVE StatusAtPlace'
  BY <1>10 DEF KeyRecorded, Ends, Alive
<1>11. ASSUME NEW t \in Tasks, Cancelled(t) PROVE StatusAtPlace'
  BY <1>11 DEF Cancelled, Becomes, Moves, Ends, Alive, ShuttingDown
<1>12. ASSUME NEW t \in Tasks, CancelPending(t) PROVE StatusAtPlace'
  BY <1>12 DEF CancelPending, Becomes, Serving
<1>13. ASSUME NEW t \in Tasks, CancelAnswered(t) PROVE StatusAtPlace'
  BY <1>13 DEF CancelAnswered, Flushed, Alive
<1>14. ASSUME NEW t \in Tasks, CancelRunning(t) PROVE StatusAtPlace'
  BY <1>14 DEF CancelRunning, Moves, Serving
<1>15. ASSUME NEW t \in Tasks, ServerCancels(t) PROVE StatusAtPlace'
  BY <1>15 DEF ServerCancels, Moves
<1>16. CASE PeriodicFlush
  BY <1>16 DEF PeriodicFlush, HistoryAfterFlush
<1>17. CASE NotifyShutdown
  BY <1>17 DEF NotifyShutdown
<1>18. CASE ShutdownFlush
  BY <1>18 DEF ShutdownFlush, HistoryAfterFlush
<1>19. CASE Classify
  BY <1>19 DEF Classify
<1>20. CASE SaveInterrupted
  BY <1>20 DEF SaveInterrupted
<1>21. CASE SavePendingAndExit
  BY <1>21 DEF SavePendingAndExit
<1>22. CASE UNCHANGED vars
  BY <1>22 DEF vars
<1>. QED
  BY <1>1, <1>2, <1>3, <1>4, <1>5, <1>6, <1>7, <1>8, <1>9, <1>10, <1>11, <1>12,
     <1>13, <1>14, <1>15, <1>16, <1>17, <1>18, <1>19, <1>20, <1>21, <1>22
  DEF Next, Progress, Requests, Shutdown

LEMMA AttemptsStep == IInv /\ [Next]_vars => Attempts'
<1> SUFFICES ASSUME IInv, [Next]_vars PROVE Attempts'
  OBVIOUS
<1> USE ConstantsAssumption
    DEF ConstantsAssumption, IInv, TypeOK, taskVars, backendVars, shutdownVars,
        StatusAtPlace, Attempts
<1>1. ASSUME NEW t \in Tasks, LookUpKey(t) PROVE Attempts'
  BY <1>1 DEF LookUpKey, Moves, Serving
<1>2. ASSUME NEW t \in Tasks, Submit(t) PROVE Attempts'
  BY <1>2 DEF Submit, Becomes, Moves, Ends, Serving
<1>3. ASSUME NEW t \in Tasks, Begin(t) PROVE Attempts'
  BY <1>3 DEF Begin, StartRunning, Becomes, Moves, Alive
<1>4. ASSUME NEW t \in Tasks, KeyChecked(t) PROVE Attempts'
  BY <1>4 DEF KeyChecked, StartRunning, Becomes, Moves, Ends, Alive
<1>5. ASSUME NEW t \in Tasks, BodyReturns(t) PROVE Attempts'
  BY <1>5 DEF BodyReturns, Succeed, Becomes, Moves, Alive
<1>6. ASSUME NEW t \in Tasks, BodyRaises(t) PROVE Attempts'
  BY <1>6 DEF BodyRaises, Fail, Becomes, Moves, Ends, Alive
<1>7. ASSUME NEW t \in Tasks, WorkerInterrupted(t) PROVE Attempts'
  BY <1>7 DEF WorkerInterrupted, Succeed, Fail, Becomes, Moves, Ends, Alive
<1>8. ASSUME NEW t \in Tasks, Retry(t) PROVE Attempts'
  BY <1>8 DEF Retry, Moves, Alive
<1>9. ASSUME NEW t \in Tasks, OnSuccessDone(t) PROVE Attempts'
  BY <1>9 DEF OnSuccessDone, Flushed, Moves, Ends, Alive
<1>10. ASSUME NEW t \in Tasks, KeyRecorded(t) PROVE Attempts'
  BY <1>10 DEF KeyRecorded, Ends, Alive
<1>11. ASSUME NEW t \in Tasks, Cancelled(t) PROVE Attempts'
  BY <1>11 DEF Cancelled, Becomes, Moves, Ends, Alive, ShuttingDown
<1>12. ASSUME NEW t \in Tasks, CancelPending(t) PROVE Attempts'
  BY <1>12 DEF CancelPending, Becomes, Serving
<1>13. ASSUME NEW t \in Tasks, CancelAnswered(t) PROVE Attempts'
  BY <1>13 DEF CancelAnswered, Flushed, Alive
<1>14. ASSUME NEW t \in Tasks, CancelRunning(t) PROVE Attempts'
  BY <1>14 DEF CancelRunning, Moves, Serving
<1>15. ASSUME NEW t \in Tasks, ServerCancels(t) PROVE Attempts'
  BY <1>15 DEF ServerCancels, Moves
<1>16. CASE PeriodicFlush
  BY <1>16 DEF PeriodicFlush, HistoryAfterFlush
<1>17. CASE NotifyShutdown
  BY <1>17 DEF NotifyShutdown
<1>18. CASE ShutdownFlush
  BY <1>18 DEF ShutdownFlush, HistoryAfterFlush
<1>19. CASE Classify
  BY <1>19 DEF Classify
<1>20. CASE SaveInterrupted
  BY <1>20 DEF SaveInterrupted
<1>21. CASE SavePendingAndExit
  BY <1>21 DEF SavePendingAndExit
<1>22. CASE UNCHANGED vars
  BY <1>22 DEF vars
<1>. QED
  BY <1>1, <1>2, <1>3, <1>4, <1>5, <1>6, <1>7, <1>8, <1>9, <1>10, <1>11, <1>12,
     <1>13, <1>14, <1>15, <1>16, <1>17, <1>18, <1>19, <1>20, <1>21, <1>22
  DEF Next, Progress, Requests, Shutdown

LEMMA ListedStep == IInv /\ [Next]_vars => Listed'
<1> SUFFICES ASSUME IInv, [Next]_vars PROVE Listed'
  OBVIOUS
<1> USE DEF IInv, TypeOK, taskVars, backendVars, shutdownVars, StatusAtPlace, Listed,
        Classified, Flushing, Final
<1>1. ASSUME NEW t \in Tasks, LookUpKey(t) PROVE Listed'
  BY <1>1 DEF LookUpKey, Moves, Serving
<1>2. ASSUME NEW t \in Tasks, Submit(t) PROVE Listed'
  BY <1>2 DEF Submit, Becomes, Moves, Ends, Serving
<1>3. ASSUME NEW t \in Tasks, Begin(t) PROVE Listed'
  BY <1>3 DEF Begin, StartRunning, Becomes, Moves, Alive
<1>4. ASSUME NEW t \in Tasks, KeyChecked(t) PROVE Listed'
  BY <1>4 DEF KeyChecked, StartRunning, Becomes, Moves, Ends, Alive
<1>5. ASSUME NEW t \in Tasks, BodyReturns(t) PROVE Listed'
  BY <1>5 DEF BodyReturns, Succeed, Becomes, Moves, Alive
<1>6. ASSUME NEW t \in Tasks, BodyRaises(t) PROVE Listed'
  BY <1>6 DEF BodyRaises, Fail, Becomes, Moves, Ends, Alive
<1>7. ASSUME NEW t \in Tasks, WorkerInterrupted(t) PROVE Listed'
  BY <1>7 DEF WorkerInterrupted, Succeed, Fail, Becomes, Moves, Ends, Alive
<1>8. ASSUME NEW t \in Tasks, Retry(t) PROVE Listed'
  BY <1>8 DEF Retry, Moves, Alive
<1>9. ASSUME NEW t \in Tasks, OnSuccessDone(t) PROVE Listed'
  BY <1>9 DEF OnSuccessDone, Flushed, Moves, Ends, Alive
<1>10. ASSUME NEW t \in Tasks, KeyRecorded(t) PROVE Listed'
  BY <1>10 DEF KeyRecorded, Ends, Alive
<1>11. ASSUME NEW t \in Tasks, Cancelled(t) PROVE Listed'
  BY <1>11 DEF Cancelled, Becomes, Moves, Ends, Alive, ShuttingDown
<1>12. ASSUME NEW t \in Tasks, CancelPending(t) PROVE Listed'
  BY <1>12 DEF CancelPending, Becomes, Serving
<1>13. ASSUME NEW t \in Tasks, CancelAnswered(t) PROVE Listed'
  BY <1>13 DEF CancelAnswered, Flushed, Alive
<1>14. ASSUME NEW t \in Tasks, CancelRunning(t) PROVE Listed'
  BY <1>14 DEF CancelRunning, Moves, Serving
<1>15. ASSUME NEW t \in Tasks, ServerCancels(t) PROVE Listed'
  BY <1>15 DEF ServerCancels, Moves
<1>16. CASE PeriodicFlush
  BY <1>16 DEF PeriodicFlush, HistoryAfterFlush
<1>17. CASE NotifyShutdown
  BY <1>17 DEF NotifyShutdown
<1>18. CASE ShutdownFlush
  BY <1>18 DEF ShutdownFlush, HistoryAfterFlush
<1>19. CASE Classify
  BY <1>19 DEF Classify
<1>20. CASE SaveInterrupted
  BY <1>20 DEF SaveInterrupted
<1>21. CASE SavePendingAndExit
  BY <1>21 DEF SavePendingAndExit
<1>22. CASE UNCHANGED vars
  BY <1>22 DEF vars
<1>. QED
  BY <1>1, <1>2, <1>3, <1>4, <1>5, <1>6, <1>7, <1>8, <1>9, <1>10, <1>11, <1>12,
     <1>13, <1>14, <1>15, <1>16, <1>17, <1>18, <1>19, <1>20, <1>21, <1>22
  DEF Next, Progress, Requests, Shutdown

LEMMA Invariance == Spec => []IInv
<1>1. IInv /\ [Next]_vars => IInv'
  BY TypeStep, PlaceStep, AttemptsStep, ListedStep DEF IInv
<1>. QED BY InitIInv, <1>1, PTL DEF Spec

-----------------------------------------------------------------------------
(* Every reachable state of the tasks of a process is well typed           *)
(* (middleware.py, router.py, snapshot.py).                                *)
THEOREM TypeCorrect == Spec => []TypeOK
<1>1. IInv => TypeOK
  BY DEF IInv
<1>. QED BY <1>1, Invariance, PTL

(* A task is FAILED only when its retries are used up or its worker        *)
(* process was interrupted, and never when its function returned           *)
(* (middleware.py:404-447).                                                *)
THEOREM FailedMeansExhaustedAlways == Spec => []FailedMeansExhausted
<1>1. IInv => FailedMeansExhausted
  BY DEF IInv, StatusAtPlace, Attempts, FailedMeansExhausted
<1>. QED BY <1>1, Invariance, PTL

(* A graceful shutdown with requeue_pending leaves each unfinished task in *)
(* the pending table or in the history (snapshot.py:257-292).              *)
THEOREM NothingUnfinishedLostAlways == Spec => []NothingUnfinishedLost
<1>1. IInv => NothingUnfinishedLost
  BY DEF IInv, Listed, Classified, NothingUnfinishedLost
<1>. QED BY <1>1, Invariance, PTL

(* What flush_pending() has decided of a task changes only to SUCCESS, and *)
(* only when its function has returned or its worker process has been      *)
(* interrupted before any attempt failed (middleware.py:380, 447).         *)
LEMMA VerdictStep ==
  IInv /\ [Next]_vars =>
    [\A t \in Tasks :
       (\/ status[t] = "interrupted"
        \/ t \in toRequeue /\ status[t] = "pending" /\ at[t] \in {"body", "backoff"})
       => \/ status'[t] = status[t]
          \/ /\ status'[t] = "success"
             /\ \/ t \in completed' \ completed
                \/ t \in cut' \ (cut \cup lastError)]_vars
<1> DEFINE Stands(u) == \/ status'[u] = status[u]
                        \/ /\ status'[u] = "success"
                           /\ \/ u \in completed' \ completed
                              \/ u \in cut' \ (cut \cup lastError)
<1> SUFFICES ASSUME IInv, [Next]_vars, NEW u \in Tasks,
                    \/ status[u] = "interrupted"
                    \/ /\ u \in toRequeue /\ status[u] = "pending"
                       /\ at[u] \in {"body", "backoff"}
             PROVE  Stands(u)
  OBVIOUS
<1> USE DEF IInv, TypeOK, taskVars, backendVars, shutdownVars, StatusAtPlace, Listed,
        Classified
<1>1. ASSUME NEW t \in Tasks, LookUpKey(t) PROVE Stands(u)
  BY <1>1 DEF LookUpKey, Moves, Serving
<1>2. ASSUME NEW t \in Tasks, Submit(t) PROVE Stands(u)
  BY <1>2 DEF Submit, Becomes, Moves, Ends, Serving
<1>3. ASSUME NEW t \in Tasks, Begin(t) PROVE Stands(u)
  BY <1>3 DEF Begin, StartRunning, Becomes, Moves, Alive
<1>4. ASSUME NEW t \in Tasks, KeyChecked(t) PROVE Stands(u)
  BY <1>4 DEF KeyChecked, StartRunning, Becomes, Moves, Ends, Alive
<1>5. ASSUME NEW t \in Tasks, BodyReturns(t) PROVE Stands(u)
  BY <1>5 DEF BodyReturns, Succeed, Becomes, Moves, Alive
<1>6. ASSUME NEW t \in Tasks, BodyRaises(t) PROVE Stands(u)
  BY <1>6 DEF BodyRaises, Fail, Becomes, Moves, Ends, Alive
<1>7. ASSUME NEW t \in Tasks, WorkerInterrupted(t) PROVE Stands(u)
  BY <1>7 DEF WorkerInterrupted, Succeed, Fail, Becomes, Moves, Ends, Alive
<1>8. ASSUME NEW t \in Tasks, Retry(t) PROVE Stands(u)
  BY <1>8 DEF Retry, Moves, Alive
<1>9. ASSUME NEW t \in Tasks, OnSuccessDone(t) PROVE Stands(u)
  BY <1>9 DEF OnSuccessDone, Flushed, Moves, Ends, Alive
<1>10. ASSUME NEW t \in Tasks, KeyRecorded(t) PROVE Stands(u)
  BY <1>10 DEF KeyRecorded, Ends, Alive
<1>11. ASSUME NEW t \in Tasks, Cancelled(t) PROVE Stands(u)
  BY <1>11 DEF Cancelled, Becomes, Moves, Ends, Alive, ShuttingDown
<1>12. ASSUME NEW t \in Tasks, CancelPending(t) PROVE Stands(u)
  BY <1>12 DEF CancelPending, Becomes, Serving
<1>13. ASSUME NEW t \in Tasks, CancelAnswered(t) PROVE Stands(u)
  BY <1>13 DEF CancelAnswered, Flushed, Alive
<1>14. ASSUME NEW t \in Tasks, CancelRunning(t) PROVE Stands(u)
  BY <1>14 DEF CancelRunning, Moves, Serving
<1>15. ASSUME NEW t \in Tasks, ServerCancels(t) PROVE Stands(u)
  BY <1>15 DEF ServerCancels, Moves
<1>16. CASE PeriodicFlush
  BY <1>16 DEF PeriodicFlush, HistoryAfterFlush
<1>17. CASE NotifyShutdown
  BY <1>17 DEF NotifyShutdown
<1>18. CASE ShutdownFlush
  BY <1>18 DEF ShutdownFlush, HistoryAfterFlush
<1>19. CASE Classify
  BY <1>19 DEF Classify
<1>20. CASE SaveInterrupted
  BY <1>20 DEF SaveInterrupted
<1>21. CASE SavePendingAndExit
  BY <1>21 DEF SavePendingAndExit
<1>22. CASE UNCHANGED vars
  BY <1>22 DEF vars
<1>. QED
  BY <1>1, <1>2, <1>3, <1>4, <1>5, <1>6, <1>7, <1>8, <1>9, <1>10, <1>11, <1>12,
     <1>13, <1>14, <1>15, <1>16, <1>17, <1>18, <1>19, <1>20, <1>21, <1>22
  DEF Next, Progress, Requests, Shutdown

(* The verdict of a shutdown stands, except against a function that has    *)
(* returned and a worker process that was interrupted in an attempt before *)
(* which none had failed, whose task ends as SUCCESS (middleware.py:358).  *)
THEOREM VerdictStandsAlways == Spec => ShutdownVerdictStands
BY Invariance, VerdictStep, PTL DEF Spec, ShutdownVerdictStands

-----------------------------------------------------------------------------
(* The key of a task.                                                      *)

(* Handlers in pool threads look the key up and create the record under    *)
(* two separate holds of the lock (wrapper.py:117): what follows is for    *)
(* tasks of coroutine handlers.                                            *)
KeysFromLoop == \A t \in ThreadTasks : Key[t] = NoKey

(* Of the tasks under a key one at most is neither new nor failed.         *)
OneHolder ==
  \A t, u \in Tasks :
    t # u /\ Key[t] = Key[u] /\ Key[t] # NoKey =>
      status[t] \in {"none", "failed"} \/ status[u] \in {"none", "failed"}

LEMMA HolderStep == KeysFromLoop /\ IInv /\ OneHolder /\ [Next]_vars => OneHolder'
<1> SUFFICES ASSUME KeysFromLoop, IInv, OneHolder, [Next]_vars PROVE OneHolder'
  OBVIOUS
<1> USE DEF IInv, TypeOK, taskVars, backendVars, shutdownVars, StatusAtPlace, OneHolder
<1>1. ASSUME NEW t \in Tasks, LookUpKey(t) PROVE OneHolder'
  BY <1>1 DEF LookUpKey, Moves, Serving
<1>2. ASSUME NEW t \in Tasks, Submit(t) PROVE OneHolder'
  BY <1>2 DEF Submit, Becomes, Moves, Ends, Serving, KeysFromLoop,
     HeldInProcess, Listed, Classified
<1>3. ASSUME NEW t \in Tasks, Begin(t) PROVE OneHolder'
  BY <1>3 DEF Begin, StartRunning, Becomes, Moves, Alive
<1>4. ASSUME NEW t \in Tasks, KeyChecked(t) PROVE OneHolder'
  BY <1>4 DEF KeyChecked, StartRunning, Becomes, Moves, Ends, Alive
<1>5. ASSUME NEW t \in Tasks, BodyReturns(t) PROVE OneHolder'
  BY <1>5 DEF BodyReturns, Succeed, Becomes, Moves, Alive
<1>6. ASSUME NEW t \in Tasks, BodyRaises(t) PROVE OneHolder'
  BY <1>6 DEF BodyRaises, Fail, Becomes, Moves, Ends, Alive
<1>7. ASSUME NEW t \in Tasks, WorkerInterrupted(t) PROVE OneHolder'
  BY <1>7 DEF WorkerInterrupted, Succeed, Fail, Becomes, Moves, Ends, Alive
<1>8. ASSUME NEW t \in Tasks, Retry(t) PROVE OneHolder'
  BY <1>8 DEF Retry, Moves, Alive
<1>9. ASSUME NEW t \in Tasks, OnSuccessDone(t) PROVE OneHolder'
  BY <1>9 DEF OnSuccessDone, Flushed, Moves, Ends, Alive
<1>10. ASSUME NEW t \in Tasks, KeyRecorded(t) PROVE OneHolder'
  BY <1>10 DEF KeyRecorded, Ends, Alive
<1>11. ASSUME NEW t \in Tasks, Cancelled(t) PROVE OneHolder'
  BY <1>11 DEF Cancelled, Becomes, Moves, Ends, Alive, ShuttingDown
<1>12. ASSUME NEW t \in Tasks, CancelPending(t) PROVE OneHolder'
  BY <1>12 DEF CancelPending, Becomes, Serving
<1>13. ASSUME NEW t \in Tasks, CancelAnswered(t) PROVE OneHolder'
  BY <1>13 DEF CancelAnswered, Flushed, Alive
<1>14. ASSUME NEW t \in Tasks, CancelRunning(t) PROVE OneHolder'
  BY <1>14 DEF CancelRunning, Moves, Serving
<1>15. ASSUME NEW t \in Tasks, ServerCancels(t) PROVE OneHolder'
  BY <1>15 DEF ServerCancels, Moves
<1>16. CASE PeriodicFlush
  BY <1>16 DEF PeriodicFlush, HistoryAfterFlush
<1>17. CASE NotifyShutdown
  BY <1>17 DEF NotifyShutdown
<1>18. CASE ShutdownFlush
  BY <1>18 DEF ShutdownFlush, HistoryAfterFlush
<1>19. CASE Classify
  BY <1>19 DEF Classify
<1>20. CASE SaveInterrupted
  BY <1>20 DEF SaveInterrupted
<1>21. CASE SavePendingAndExit
  BY <1>21 DEF SavePendingAndExit
<1>22. CASE UNCHANGED vars
  BY <1>22 DEF vars
<1>. QED
  BY <1>1, <1>2, <1>3, <1>4, <1>5, <1>6, <1>7, <1>8, <1>9, <1>10, <1>11, <1>12,
     <1>13, <1>14, <1>15, <1>16, <1>17, <1>18, <1>19, <1>20, <1>21, <1>22
  DEF Next, Progress, Requests, Shutdown

(* Within a process at most one function call per idempotency key returns, *)
(* where no handler in a pool thread passes one (store.py, wrapper.py).    *)
THEOREM OneCompletionAlways == KeysFromLoop /\ Spec => []OneCompletionPerKey
<1>1. Init => OneHolder
  BY DEF Init, OneHolder
<1>2. KeysFromLoop => KeysFromLoop'
  BY DEF KeysFromLoop
<1>3. IInv /\ OneHolder => OneCompletionPerKey
  BY DEF IInv, TypeOK, StatusAtPlace, OneHolder, OneCompletionPerKey
<1>. QED BY <1>1, <1>2, <1>3, HolderStep, Invariance, PTL DEF Spec
=============================================================================
