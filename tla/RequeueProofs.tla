----------------------------- MODULE RequeueProofs -----------------------------
(***************************************************************************)
(* For every number of instances, tasks and startups: no task is in the    *)
(* hands of two instances, and none runs where it is known to be done.     *)
(*                                                                         *)
(* Neither is inductive.  A task may be claimed from the pending table     *)
(* while another instance is still running it and about to leave, and a    *)
(* late flush may write FAILED over SUCCESS.  The invariant therefore      *)
(* follows a task from the row it is claimed from to the list it is saved  *)
(* with, and shows that a task with an unsuccessful record never comes     *)
(* back to the pending table.                                              *)
(*                                                                         *)
(* Both the tables and the lists of the instances come to TaskOwnership:   *)
(* every step either leaves each task where it is or moves it from hand to *)
(* table and from table to hand.                                           *)
(***************************************************************************)
EXTENDS Requeue, TLAPS

(* flush_pending() has not sorted the records of i yet.                    *)
Unsorted(i) == phase[i] \notin {"classified", "savedHistory", "leaving"}

(* A shutdown past its last backend call has handed everything over.       *)
HandedOver(i) == phase[i] = "leaving"

(* What i may still run or save.                                           *)
Owned(i) == Active(i) \cup toRequeue[i]

(* What i may still write to the pending table.                            *)
MaySave(i) == IF Unsorted(i) THEN Active(i) ELSE toRequeue[i]

(* A task that was submitted and will not be in the pending table again.   *)
Settled(t) ==
  /\ t \in born \ pendingTable
  /\ \A i \in Instances : ~HandedOver(i) => t \notin MaySave(i)

-----------------------------------------------------------------------------
(* A task has one owner, and none while its row waits to be claimed.       *)
OneOwner ==
  /\ \A i, j \in Instances :
       i # j /\ ~HandedOver(i) /\ ~HandedOver(j) => Owned(i) \cap Owned(j) = {}
  /\ \A i \in Instances : ~HandedOver(i) => Owned(i) \cap pendingTable = {}

(* add_task() gives out fresh ids.                                         *)
IdsFresh ==
  /\ pendingTable \subseteq born
  /\ \A i \in Instances : Owned(i) \subseteq born /\ known[i] \subseteq born
  /\ \A t \in Tasks : history[t] # "none" => t \in born
  /\ \A i \in Instances, t \in Tasks : mem[i][t] # "none" => t \in born

(* Until flush_pending() sorts the records, one that has not ended belongs *)
(* to one coroutine, not RUNNING before it begins nor PENDING after; what  *)
(* it lists as interrupted has a final status and no coroutine to begin.   *)
RecordsTellTruth ==
  \A i \in Instances :
    /\ ~Running(i) => Active(i) = {}
    /\ Unsorted(i) =>
         /\ waiting[i] \cap body[i] = {}
         /\ \A t \in Tasks :
              /\ mem[i][t] \in {"pending", "running"} => t \in Active(i)
              /\ t \in body[i] => mem[i][t] # "pending"
              /\ t \in waiting[i] => mem[i][t] # "running"
    /\ phase[i] = "classified" =>
         \A t \in toInterrupt[i] : t \notin waiting[i] /\ mem[i][t] \in Final

(* Wherever a task is recorded as failed or interrupted, or is about to    *)
(* be, it will not be requeued.                                            *)
Unsuccessful == {"failed", "interrupted"}
UnsuccessfulSettled ==
  /\ \A t \in Tasks : history[t] \in Unsuccessful => Settled(t)
  /\ \A i \in Instances, t \in Tasks :
       Unsorted(i) /\ mem[i][t] \in Unsuccessful => Settled(t)
  /\ \A i \in Instances : phase[i] = "classified" => \A t \in toInterrupt[i] : Settled(t)

(* completed_ids() finds what had succeeded at the start, unless it has    *)
(* been settled otherwise meanwhile.                                       *)
KnownSkipped ==
  \A i \in Instances :
    /\ phase[i] \in {"restored", "checking"} =>
         \A t \in known[i] : history[t] = "success" \/ Settled(t)
    /\ phase[i] = "claiming" => \A t \in loaded[i] \cap known[i] : Settled(t)

IInv ==
  /\ TypeOK
  /\ OneOwner
  /\ IdsFresh
  /\ RecordsTellTruth
  /\ UnsuccessfulSettled
  /\ KnownSkipped
  /\ NoRerunOfCompleted

-----------------------------------------------------------------------------
(* Init establishes the invariant.                                         *)
LEMMA InitIInv == Init => IInv
<1> SUFFICES ASSUME Init PROVE IInv
  OBVIOUS
<1> USE ConstantsAssumption DEF Init, Nowhere, Empty
<1>1. TypeOK
  BY DEF TypeOK, Phases, Status, Final
<1>2. \A i \in Instances : Owned(i) = {} /\ Active(i) = {} /\ phase[i] = "down"
  BY DEF Owned, Active
<1>3. OneOwner /\ IdsFresh
  BY <1>2 DEF OneOwner, IdsFresh
<1>4. RecordsTellTruth
  BY <1>2 DEF RecordsTellTruth, Running, Unsorted
<1>5. UnsuccessfulSettled
  BY <1>2 DEF UnsuccessfulSettled, Unsuccessful
<1>6. KnownSkipped /\ NoRerunOfCompleted
  BY <1>2 DEF KnownSkipped, NoRerunOfCompleted
<1>. QED BY <1>1, <1>3, <1>4, <1>5, <1>6 DEF IInv

(* Every step keeps the variables in their types.                          *)
LEMMA TypeStep == IInv /\ [Next]_vars => TypeOK'
<1> SUFFICES ASSUME IInv, [Next]_vars PROVE TypeOK'
  OBVIOUS
<1> USE ConstantsAssumption DEF IInv, TypeOK, Phases, Status, Final
<1>1. ASSUME NEW i \in Instances, Start(i) PROVE TypeOK'
  <2>1. history \in [Tasks -> Status] /\ Succeeded \subseteq Tasks
    BY DEF Succeeded
  <2>2. mem' \in [Instances -> [Tasks -> Status]]
    BY <1>1, <2>1 DEF Start
  <2>. QED BY <1>1, <2>1, <2>2 DEF Start, Goes, shutdownVars, backendVars
<1>2. ASSUME NEW i \in Instances, LoadPending(i) PROVE TypeOK'
  BY <1>2 DEF LoadPending, Goes, execVars, shutdownVars, backendVars
<1>3. ASSUME NEW i \in Instances, CheckCompleted(i) PROVE TypeOK'
  BY <1>3 DEF CheckCompleted, Goes, execVars, shutdownVars, backendVars
<1>4. ASSUME NEW i \in Instances, NEW t \in Tasks, Claim(i, t) PROVE TypeOK'
  <2>1. [mem[i] EXCEPT ![t] = IF @ = "none" THEN "pending" ELSE @] \in [Tasks -> Status]
    OBVIOUS
  <2>2. mem' \in [Instances -> [Tasks -> Status]]
    BY <1>4, <2>1 DEF Claim, Redispatch
  <2>3. waiting' \in [Instances -> SUBSET Tasks]
    BY <1>4 DEF Claim, Redispatch
  <2>. QED BY <1>4, <2>2, <2>3 DEF Claim, shutdownVars
<1>5. ASSUME NEW i \in Instances, ClearPending(i) PROVE TypeOK'
  BY <1>5 DEF ClearPending, Goes, execVars, shutdownVars
<1>6. ASSUME NEW i \in Instances, NEW t \in Tasks, Submit(i, t) PROVE TypeOK'
  BY <1>6 DEF Submit, shutdownVars, backendVars
<1>7. ASSUME NEW i \in Instances, NEW t \in Tasks, Begin(i, t) PROVE TypeOK'
  BY <1>7 DEF Begin, shutdownVars, backendVars
<1>8. ASSUME NEW i \in Instances, NEW t \in Tasks, End(i, t) PROVE TypeOK'
  <2>1. /\ [mem[i] EXCEPT ![t] = "success"] \in [Tasks -> Status]
        /\ [mem[i] EXCEPT ![t] = IF @ = "running" THEN "failed" ELSE @] \in [Tasks -> Status]
    OBVIOUS
  <2>2. mem' \in [Instances -> [Tasks -> Status]]
    <3>1. CASE mem' = [mem EXCEPT ![i][t] = "success"]
      BY <2>1, <3>1
    <3>2. CASE mem' = [mem EXCEPT ![i][t] = IF @ = "running" THEN "failed" ELSE @]
      BY <2>1, <3>2
    <3>. QED BY <1>8, <3>1, <3>2 DEF End
  <2>. QED BY <1>8, <2>2 DEF End, shutdownVars, backendVars
<1>9. ASSUME NEW i \in Instances, NEW t \in Tasks, FlushOne(i, t) PROVE TypeOK'
  BY <1>9 DEF FlushOne, execVars, shutdownVars
<1>10. ASSUME NEW i \in Instances, PeriodicFlush(i) PROVE TypeOK'
  BY <1>10 DEF PeriodicFlush, Flush, execVars, shutdownVars
<1>11. ASSUME NEW i \in Instances, ShutdownFlush(i) PROVE TypeOK'
  BY <1>11 DEF ShutdownFlush, Goes, Flush, execVars, shutdownVars
<1>12. ASSUME NEW i \in Instances, Classify(i) PROVE TypeOK'
  BY <1>12 DEF Classify, Goes, backendVars
<1>13. ASSUME NEW i \in Instances, SaveInterrupted(i) PROVE TypeOK'
  <2>1. \A t \in toInterrupt[i] : mem[i][t] \in Final
    BY <1>13 DEF SaveInterrupted, Goes, RecordsTellTruth
  <2>2. history' \in [Tasks -> {"none"} \cup Final]
    BY <1>13, <2>1 DEF SaveInterrupted
  <2>. QED BY <1>13, <2>2 DEF SaveInterrupted, Goes, execVars, shutdownVars
<1>14. ASSUME NEW i \in Instances, SavePending(i) PROVE TypeOK'
  BY <1>14 DEF SavePending, Goes, execVars, shutdownVars
<1>15. ASSUME NEW i \in Instances, Exit(i) PROVE TypeOK'
  <2>1. Empty \in [Tasks -> Status]
    BY DEF Empty
  <2>2. mem' \in [Instances -> [Tasks -> Status]]
    BY <1>15, <2>1 DEF Exit, Forget
  <2>3. phase' \in [Instances -> Phases]
    BY <1>15 DEF Exit, Goes
  <2>. QED BY <1>15, <2>2, <2>3 DEF Exit, Forget, backendVars
<1>16. ASSUME NEW i \in Instances, Crash(i) PROVE TypeOK'
  <2>1. Empty \in [Tasks -> Status]
    BY DEF Empty
  <2>2. mem' \in [Instances -> [Tasks -> Status]]
    BY <1>16, <2>1 DEF Crash, Forget
  <2>3. phase' \in [Instances -> Phases]
    BY <1>16 DEF Crash, Goes
  <2>. QED BY <1>16, <2>2, <2>3 DEF Crash, Forget, backendVars
<1>17. CASE UNCHANGED vars
  BY <1>17 DEF vars, execVars, shutdownVars, backendVars
<1>. QED
  BY <1>1, <1>2, <1>3, <1>4, <1>5, <1>6, <1>7, <1>8, <1>9, <1>10, <1>11,
     <1>12, <1>13, <1>14, <1>15, <1>16, <1>17 DEF Next, GracefulNext,
     Startup, Serve, Shutdown

(* flush_pending() lists only what i has in its hands, and each task once. *)
LEMMA ClassifyLists ==
  ASSUME IInv, NEW i \in Instances, Classify(i)
  PROVE  /\ toRequeue'[i] \subseteq Active(i)
         /\ toInterrupt'[i] \subseteq body[i] \ toRequeue'[i]
         /\ \A j \in Instances \ {i} : toRequeue'[j] = toRequeue[j]
<1> USE DEF IInv, TypeOK
<1>1. phase[i] = "flushed"
  BY DEF Classify, Goes
<1>2. \A t \in Tasks : /\ mem[i][t] \in {"pending", "running"} => t \in Active(i)
                       /\ mem[i][t] = "running" => t \in body[i]
  BY <1>1 DEF RecordsTellTruth, Unsorted, Active
<1>3. toRequeue'[i] = {t \in Tasks : mem[i][t] = "pending"}
                      \cup ({t \in Tasks : mem[i][t] = "running"} \cap RequeueSafe)
  BY DEF Classify
<1>4. toInterrupt'[i] = {t \in Tasks : mem[i][t] = "running"} \ RequeueSafe
  BY DEF Classify
<1>5. \A j \in Instances \ {i} : toRequeue'[j] = toRequeue[j]
  BY DEF Classify
<1>. QED BY <1>2, <1>3, <1>4, <1>5

(* No step makes a settled task fit for requeueing again.                  *)
LEMMA SettledStep == IInv /\ [Next]_vars => \A s \in Tasks : Settled(s) => Settled(s)'
<1> SUFFICES ASSUME IInv, [Next]_vars, NEW s \in Tasks, Settled(s) PROVE Settled(s)'
  OBVIOUS
<1> USE DEF IInv, TypeOK, Settled, MaySave, Active, Unsorted, HandedOver
<1>1. ASSUME NEW i \in Instances, Start(i) PROVE Settled(s)'
  BY <1>1 DEF Start, Goes, shutdownVars, backendVars
<1>2. ASSUME NEW i \in Instances, LoadPending(i) PROVE Settled(s)'
  BY <1>2 DEF LoadPending, Goes, execVars, shutdownVars, backendVars
<1>3. ASSUME NEW i \in Instances, CheckCompleted(i) PROVE Settled(s)'
  BY <1>3 DEF CheckCompleted, Goes, execVars, shutdownVars, backendVars
<1>4. ASSUME NEW i \in Instances, NEW t \in Tasks, Claim(i, t) PROVE Settled(s)'
  <2>1. CASE t \in pendingTable /\ Redispatch(i, t)
    BY <1>4, <2>1 DEF Claim, Redispatch, shutdownVars
  <2>2. CASE UNCHANGED <<mem, waiting>>
    BY <1>4, <2>2 DEF Claim, shutdownVars
  <2>. QED BY <1>4, <2>1, <2>2 DEF Claim
<1>5. ASSUME NEW i \in Instances, ClearPending(i) PROVE Settled(s)'
  BY <1>5 DEF ClearPending, Goes, execVars, shutdownVars
<1>6. ASSUME NEW i \in Instances, NEW t \in Tasks, Submit(i, t) PROVE Settled(s)'
  BY <1>6 DEF Submit, shutdownVars, backendVars
<1>7. ASSUME NEW i \in Instances, NEW t \in Tasks, Begin(i, t) PROVE Settled(s)'
  BY <1>7 DEF Begin, shutdownVars, backendVars
<1>8. ASSUME NEW i \in Instances, NEW t \in Tasks, End(i, t) PROVE Settled(s)'
  BY <1>8 DEF End, shutdownVars, backendVars
<1>9. ASSUME NEW i \in Instances, NEW t \in Tasks, FlushOne(i, t) PROVE Settled(s)'
  BY <1>9 DEF FlushOne, execVars, shutdownVars
<1>10. ASSUME NEW i \in Instances, PeriodicFlush(i) PROVE Settled(s)'
  BY <1>10 DEF PeriodicFlush, Flush, execVars, shutdownVars
<1>11. ASSUME NEW i \in Instances, ShutdownFlush(i) PROVE Settled(s)'
  BY <1>11 DEF ShutdownFlush, Goes, Flush, execVars, shutdownVars
<1>12. ASSUME NEW i \in Instances, Classify(i) PROVE Settled(s)'
  BY <1>12, ClassifyLists DEF Classify, Goes, backendVars
<1>13. ASSUME NEW i \in Instances, SaveInterrupted(i) PROVE Settled(s)'
  BY <1>13 DEF SaveInterrupted, Goes, execVars, shutdownVars
<1>14. ASSUME NEW i \in Instances, SavePending(i) PROVE Settled(s)'
  BY <1>14 DEF SavePending, Goes, execVars, shutdownVars
<1>15. ASSUME NEW i \in Instances, Exit(i) PROVE Settled(s)'
  BY <1>15 DEF Exit, Goes, Forget, backendVars
<1>16. ASSUME NEW i \in Instances, Crash(i) PROVE Settled(s)'
  BY <1>16 DEF Crash, Forget, backendVars
<1>17. CASE UNCHANGED vars
  BY <1>17 DEF vars, execVars, shutdownVars, backendVars
<1>. QED
  BY <1>1, <1>2, <1>3, <1>4, <1>5, <1>6, <1>7, <1>8, <1>9, <1>10, <1>11,
     <1>12, <1>13, <1>14, <1>15, <1>16, <1>17 DEF Next, GracefulNext,
     Startup, Serve, Shutdown

(* A task changes owner only through the pending table.                    *)
LEMMA OwnerStep == IInv /\ [Next]_vars => OneOwner'
<1> SUFFICES ASSUME IInv, [Next]_vars PROVE OneOwner'
  OBVIOUS
<1> USE DEF IInv, TypeOK, OneOwner, Owned, Active, HandedOver
<1>1. ASSUME NEW i \in Instances, Start(i) PROVE OneOwner'
  BY <1>1 DEF Start, Goes, shutdownVars, backendVars
<1>2. ASSUME NEW i \in Instances, LoadPending(i) PROVE OneOwner'
  BY <1>2 DEF LoadPending, Goes, execVars, shutdownVars, backendVars
<1>3. ASSUME NEW i \in Instances, CheckCompleted(i) PROVE OneOwner'
  BY <1>3 DEF CheckCompleted, Goes, execVars, shutdownVars, backendVars
<1>4. ASSUME NEW i \in Instances, NEW t \in Tasks, Claim(i, t) PROVE OneOwner'
  <2>1. CASE t \in pendingTable /\ Redispatch(i, t)
    <3>1. \A j \in Instances : Owned(j)' = IF j = i THEN Owned(j) \cup {t} ELSE Owned(j)
      BY <1>4, <2>1 DEF Claim, Redispatch, shutdownVars
    <3>2. \A j \in Instances : HandedOver(j)' = HandedOver(j)
      BY <1>4 DEF Claim
    <3>3. pendingTable' = pendingTable \ {t}
      BY <1>4 DEF Claim
    <3>. QED BY ONLY OneOwner, <2>1, <3>1, <3>2, <3>3 DEF OneOwner
  <2>2. CASE UNCHANGED <<mem, waiting>>
    BY <1>4, <2>2 DEF Claim, shutdownVars
  <2>. QED BY <1>4, <2>1, <2>2 DEF Claim
<1>5. ASSUME NEW i \in Instances, ClearPending(i) PROVE OneOwner'
  BY <1>5 DEF ClearPending, Goes, execVars, shutdownVars
<1>6. ASSUME NEW i \in Instances, NEW t \in Tasks, Submit(i, t) PROVE OneOwner'
  <2>1. \A j \in Instances : Owned(j)' = IF j = i THEN Owned(j) \cup {t} ELSE Owned(j)
    BY <1>6 DEF Submit, shutdownVars
  <2>2. \A j \in Instances : HandedOver(j)' = HandedOver(j)
    BY <1>6 DEF Submit
  <2>3. t \notin pendingTable /\ \A j \in Instances : t \notin Owned(j)
    BY <1>6 DEF Submit, IdsFresh
  <2>4. pendingTable' = pendingTable
    BY <1>6 DEF Submit, backendVars
  <2>. QED BY ONLY OneOwner, <2>1, <2>2, <2>3, <2>4 DEF OneOwner
<1>7. ASSUME NEW i \in Instances, NEW t \in Tasks, Begin(i, t) PROVE OneOwner'
  BY <1>7 DEF Begin, shutdownVars, backendVars
<1>8. ASSUME NEW i \in Instances, NEW t \in Tasks, End(i, t) PROVE OneOwner'
  BY <1>8 DEF End, shutdownVars, backendVars
<1>9. ASSUME NEW i \in Instances, NEW t \in Tasks, FlushOne(i, t) PROVE OneOwner'
  BY <1>9 DEF FlushOne, execVars, shutdownVars
<1>10. ASSUME NEW i \in Instances, PeriodicFlush(i) PROVE OneOwner'
  BY <1>10 DEF PeriodicFlush, Flush, execVars, shutdownVars
<1>11. ASSUME NEW i \in Instances, ShutdownFlush(i) PROVE OneOwner'
  BY <1>11 DEF ShutdownFlush, Goes, Flush, execVars, shutdownVars
<1>12. ASSUME NEW i \in Instances, Classify(i) PROVE OneOwner'
  <2>1. \A j \in Instances : Owned(j)' \subseteq Owned(j)
    BY <1>12, ClassifyLists DEF Classify
  <2>2. \A j \in Instances : HandedOver(j)' = HandedOver(j)
    BY <1>12 DEF Classify, Goes
  <2>. QED BY <1>12, <2>1, <2>2 DEF Classify, backendVars
<1>13. ASSUME NEW i \in Instances, SaveInterrupted(i) PROVE OneOwner'
  BY <1>13 DEF SaveInterrupted, Goes, execVars, shutdownVars
<1>14. ASSUME NEW i \in Instances, SavePending(i) PROVE OneOwner'
  BY <1>14 DEF SavePending, Goes, execVars, shutdownVars
<1>15. ASSUME NEW i \in Instances, Exit(i) PROVE OneOwner'
  BY <1>15 DEF Exit, Goes, Forget, backendVars
<1>16. ASSUME NEW i \in Instances, Crash(i) PROVE OneOwner'
  BY <1>16 DEF Crash, Forget, backendVars
<1>17. CASE UNCHANGED vars
  BY <1>17 DEF vars, execVars, shutdownVars, backendVars
<1>. QED
  BY <1>1, <1>2, <1>3, <1>4, <1>5, <1>6, <1>7, <1>8, <1>9, <1>10, <1>11,
     <1>12, <1>13, <1>14, <1>15, <1>16, <1>17 DEF Next, GracefulNext,
     Startup, Serve, Shutdown

(* Ids come from add_task() only.                                          *)
LEMMA IdsStep == IInv /\ [Next]_vars => IdsFresh'
<1> SUFFICES ASSUME IInv, [Next]_vars PROVE IdsFresh'
  OBVIOUS
<1> USE DEF IInv, TypeOK, IdsFresh, Owned, Active
<1>1. ASSUME NEW i \in Instances, Start(i) PROVE IdsFresh'
  BY <1>1 DEF Start, Goes, Succeeded, shutdownVars, backendVars
<1>2. ASSUME NEW i \in Instances, LoadPending(i) PROVE IdsFresh'
  BY <1>2 DEF LoadPending, Goes, execVars, shutdownVars, backendVars
<1>3. ASSUME NEW i \in Instances, CheckCompleted(i) PROVE IdsFresh'
  BY <1>3 DEF CheckCompleted, Goes, execVars, shutdownVars, backendVars
<1>4. ASSUME NEW i \in Instances, NEW t \in Tasks, Claim(i, t) PROVE IdsFresh'
  <2>1. CASE t \in pendingTable /\ Redispatch(i, t)
    <3>1. \A s \in Tasks, j \in Instances : mem'[j][s] # "none" => s = t \/ mem[j][s] # "none"
      BY <1>4, <2>1 DEF Claim, Redispatch
    <3>2. \A j \in Instances : Owned(j)' \subseteq Owned(j) \cup {t}
      BY <1>4, <2>1 DEF Claim, Redispatch, shutdownVars
    <3>3. t \in born
      BY <2>1
    <3>. QED BY <1>4, <3>1, <3>2, <3>3 DEF Claim
  <2>2. CASE UNCHANGED <<mem, waiting>>
    BY <1>4, <2>2 DEF Claim, shutdownVars
  <2>. QED BY <1>4, <2>1, <2>2 DEF Claim
<1>5. ASSUME NEW i \in Instances, ClearPending(i) PROVE IdsFresh'
  BY <1>5 DEF ClearPending, Goes, execVars, shutdownVars
<1>6. ASSUME NEW i \in Instances, NEW t \in Tasks, Submit(i, t) PROVE IdsFresh'
  BY <1>6 DEF Submit, shutdownVars, backendVars
<1>7. ASSUME NEW i \in Instances, NEW t \in Tasks, Begin(i, t) PROVE IdsFresh'
  BY <1>7 DEF Begin, shutdownVars, backendVars
<1>8. ASSUME NEW i \in Instances, NEW t \in Tasks, End(i, t) PROVE IdsFresh'
  BY <1>8 DEF End, shutdownVars, backendVars
<1>9. ASSUME NEW i \in Instances, NEW t \in Tasks, FlushOne(i, t) PROVE IdsFresh'
  BY <1>9 DEF FlushOne, execVars, shutdownVars
<1>10. ASSUME NEW i \in Instances, PeriodicFlush(i) PROVE IdsFresh'
  BY <1>10 DEF PeriodicFlush, Flush, execVars, shutdownVars
<1>11. ASSUME NEW i \in Instances, ShutdownFlush(i) PROVE IdsFresh'
  BY <1>11 DEF ShutdownFlush, Goes, Flush, execVars, shutdownVars
<1>12. ASSUME NEW i \in Instances, Classify(i) PROVE IdsFresh'
  BY <1>12 DEF Classify, Goes, backendVars
<1>13. ASSUME NEW i \in Instances, SaveInterrupted(i) PROVE IdsFresh'
  BY <1>13 DEF SaveInterrupted, Goes, execVars, shutdownVars
<1>14. ASSUME NEW i \in Instances, SavePending(i) PROVE IdsFresh'
  BY <1>14 DEF SavePending, Goes, execVars, shutdownVars
<1>15. ASSUME NEW i \in Instances, Exit(i) PROVE IdsFresh'
  BY <1>15 DEF Exit, Goes, Forget, Empty, backendVars
<1>16. ASSUME NEW i \in Instances, Crash(i) PROVE IdsFresh'
  BY <1>16 DEF Crash, Forget, Empty, backendVars
<1>17. CASE UNCHANGED vars
  BY <1>17 DEF vars, execVars, shutdownVars, backendVars
<1>. QED
  BY <1>1, <1>2, <1>3, <1>4, <1>5, <1>6, <1>7, <1>8, <1>9, <1>10, <1>11,
     <1>12, <1>13, <1>14, <1>15, <1>16, <1>17 DEF Next, GracefulNext,
     Startup, Serve, Shutdown

(* Records and coroutines keep in step until the records are sorted.       *)
LEMMA RecordsStep == IInv /\ [Next]_vars => RecordsTellTruth'
<1> SUFFICES ASSUME IInv, [Next]_vars PROVE RecordsTellTruth'
  OBVIOUS
<1> USE DEF IInv, TypeOK, RecordsTellTruth, Active, Unsorted, Running, Final
<1>1. ASSUME NEW i \in Instances, Start(i) PROVE RecordsTellTruth'
  BY <1>1 DEF Start, Goes, shutdownVars, backendVars
<1>2. ASSUME NEW i \in Instances, LoadPending(i) PROVE RecordsTellTruth'
  BY <1>2 DEF LoadPending, Goes, execVars, shutdownVars, backendVars
<1>3. ASSUME NEW i \in Instances, CheckCompleted(i) PROVE RecordsTellTruth'
  BY <1>3 DEF CheckCompleted, Goes, execVars, shutdownVars, backendVars
<1>4. ASSUME NEW i \in Instances, NEW t \in Tasks, Claim(i, t) PROVE RecordsTellTruth'
  <2>1. CASE t \in pendingTable /\ Redispatch(i, t)
    <3>1. t \notin Active(i)
      BY <1>4, <2>1 DEF Claim, OneOwner, Owned, HandedOver
    <3>2. mem'[i][t] \notin {"running"} /\ waiting'[i] = waiting[i] \cup {t}
      BY <1>4, <2>1, <3>1 DEF Claim, Redispatch
    <3>. QED BY <1>4, <2>1, <3>1, <3>2 DEF Claim, Redispatch, shutdownVars
  <2>2. CASE UNCHANGED <<mem, waiting>>
    BY <1>4, <2>2 DEF Claim, shutdownVars
  <2>. QED BY <1>4, <2>1, <2>2 DEF Claim
<1>5. ASSUME NEW i \in Instances, ClearPending(i) PROVE RecordsTellTruth'
  BY <1>5 DEF ClearPending, Goes, execVars, shutdownVars
<1>6. ASSUME NEW i \in Instances, NEW t \in Tasks, Submit(i, t) PROVE RecordsTellTruth'
  <2>1. t \notin Active(i)
    BY <1>6 DEF Submit, IdsFresh, Owned
  <2>. QED BY <1>6, <2>1 DEF Submit, shutdownVars, backendVars
<1>7. ASSUME NEW i \in Instances, NEW t \in Tasks, Begin(i, t) PROVE RecordsTellTruth'
  BY <1>7 DEF Begin, shutdownVars, backendVars
<1>8. ASSUME NEW i \in Instances, NEW t \in Tasks, End(i, t) PROVE RecordsTellTruth'
  BY <1>8 DEF End, shutdownVars, backendVars
<1>9. ASSUME NEW i \in Instances, NEW t \in Tasks, FlushOne(i, t) PROVE RecordsTellTruth'
  BY <1>9 DEF FlushOne, execVars, shutdownVars
<1>10. ASSUME NEW i \in Instances, PeriodicFlush(i) PROVE RecordsTellTruth'
  BY <1>10 DEF PeriodicFlush, Flush, execVars, shutdownVars
<1>11. ASSUME NEW i \in Instances, ShutdownFlush(i) PROVE RecordsTellTruth'
  BY <1>11 DEF ShutdownFlush, Goes, Flush, execVars, shutdownVars
<1>12. ASSUME NEW i \in Instances, Classify(i) PROVE RecordsTellTruth'
  BY <1>12 DEF Classify, Goes, backendVars
<1>13. ASSUME NEW i \in Instances, SaveInterrupted(i) PROVE RecordsTellTruth'
  BY <1>13 DEF SaveInterrupted, Goes, execVars, shutdownVars
<1>14. ASSUME NEW i \in Instances, SavePending(i) PROVE RecordsTellTruth'
  BY <1>14 DEF SavePending, Goes, execVars, shutdownVars
<1>15. ASSUME NEW i \in Instances, Exit(i) PROVE RecordsTellTruth'
  BY <1>15 DEF Exit, Goes, Forget, Empty, backendVars
<1>16. ASSUME NEW i \in Instances, Crash(i) PROVE RecordsTellTruth'
  BY <1>16 DEF Crash, Forget, Empty, backendVars
<1>17. CASE UNCHANGED vars
  BY <1>17 DEF vars, execVars, shutdownVars, backendVars
<1>. QED
  BY <1>1, <1>2, <1>3, <1>4, <1>5, <1>6, <1>7, <1>8, <1>9, <1>10, <1>11,
     <1>12, <1>13, <1>14, <1>15, <1>16, <1>17 DEF Next, GracefulNext,
     Startup, Serve, Shutdown

(* An unsuccessful record is written only of a task that is settled.       *)
LEMMA UnsuccessfulStep == IInv /\ [Next]_vars => UnsuccessfulSettled'
<1> SUFFICES ASSUME IInv, [Next]_vars PROVE UnsuccessfulSettled'
  OBVIOUS
<1> USE SettledStep DEF IInv, TypeOK, UnsuccessfulSettled, Unsuccessful, Unsorted
<1>1. ASSUME NEW i \in Instances, Start(i) PROVE UnsuccessfulSettled'
  BY <1>1 DEF Start, Goes, shutdownVars, backendVars
<1>2. ASSUME NEW i \in Instances, LoadPending(i) PROVE UnsuccessfulSettled'
  BY <1>2 DEF LoadPending, Goes, execVars, shutdownVars, backendVars
<1>3. ASSUME NEW i \in Instances, CheckCompleted(i) PROVE UnsuccessfulSettled'
  BY <1>3 DEF CheckCompleted, Goes, execVars, shutdownVars, backendVars
<1>4. ASSUME NEW i \in Instances, NEW t \in Tasks, Claim(i, t) PROVE UnsuccessfulSettled'
  BY <1>4 DEF Claim, Redispatch, shutdownVars
<1>5. ASSUME NEW i \in Instances, ClearPending(i) PROVE UnsuccessfulSettled'
  BY <1>5 DEF ClearPending, Goes, execVars, shutdownVars
<1>6. ASSUME NEW i \in Instances, NEW t \in Tasks, Submit(i, t) PROVE UnsuccessfulSettled'
  BY <1>6 DEF Submit, shutdownVars, backendVars
<1>7. ASSUME NEW i \in Instances, NEW t \in Tasks, Begin(i, t) PROVE UnsuccessfulSettled'
  BY <1>7 DEF Begin, shutdownVars, backendVars
<1>8. ASSUME NEW i \in Instances, NEW t \in Tasks, End(i, t) PROVE UnsuccessfulSettled'
  <2>1. Unsorted(i) => Settled(t)'
    <3> SUFFICES ASSUME Unsorted(i) PROVE Settled(t)'
      OBVIOUS
    <3>1. t \in born \ pendingTable /\ UNCHANGED <<born, pendingTable, phase, toRequeue>>
      BY <1>8 DEF End, IdsFresh, OneOwner, Owned, Active, HandedOver, shutdownVars, backendVars
    <3>2. t \notin Active(i)'
      BY <1>8 DEF End, RecordsTellTruth, Active
    <3>3. \A j \in Instances \ {i} : ~HandedOver(j) => t \notin Owned(j)
      BY <1>8 DEF End, OneOwner, Owned, Active, HandedOver
    <3>4. \A j \in Instances \ {i} : MaySave(j)' \subseteq Owned(j)
      BY <1>8 DEF End, Owned, MaySave, Active, shutdownVars
    <3>. QED BY <3>1, <3>2, <3>3, <3>4 DEF Settled, MaySave, HandedOver
  <2>2. \A j \in Instances, s \in Tasks : mem'[j][s] # mem[j][s] => j = i /\ s = t
    BY <1>8 DEF End
  <2>3. UNCHANGED <<phase, history, toInterrupt>>
    BY <1>8 DEF End, backendVars, shutdownVars
  <2>. QED BY <2>1, <2>2, <2>3
<1>9. ASSUME NEW i \in Instances, NEW t \in Tasks, FlushOne(i, t) PROVE UnsuccessfulSettled'
  BY <1>9 DEF FlushOne, execVars, shutdownVars
<1>10. ASSUME NEW i \in Instances, PeriodicFlush(i) PROVE UnsuccessfulSettled'
  BY <1>10 DEF PeriodicFlush, Flush, execVars, shutdownVars
<1>11. ASSUME NEW i \in Instances, ShutdownFlush(i) PROVE UnsuccessfulSettled'
  BY <1>11 DEF ShutdownFlush, Goes, Flush, execVars, shutdownVars
<1>12. ASSUME NEW i \in Instances, Classify(i) PROVE UnsuccessfulSettled'
  <2>1. ASSUME NEW t \in toInterrupt'[i] PROVE Settled(t)'
    <3>1. t \in body[i] /\ t \notin toRequeue'[i]
      BY <1>12, ClassifyLists
    <3>2. phase[i] = "flushed" /\ phase' = [phase EXCEPT ![i] = "classified"]
      BY <1>12 DEF Classify, Goes
    <3>3. UNCHANGED <<born, pendingTable, waiting, body>>
      BY <1>12 DEF Classify, backendVars
    <3>4. t \in born \ pendingTable
      BY <3>1, <3>2 DEF IdsFresh, OneOwner, Owned, Active, HandedOver
    <3>5. \A j \in Instances \ {i} : ~HandedOver(j) => t \notin Owned(j)
      BY <3>1, <3>2 DEF OneOwner, Owned, Active, HandedOver
    <3>6. \A j \in Instances \ {i} : MaySave(j)' \subseteq Owned(j) /\ HandedOver(j)' = HandedOver(j)
      BY <1>12, <3>2, <3>3, ClassifyLists DEF Owned, MaySave, Active, HandedOver
    <3>7. MaySave(i)' = toRequeue'[i]
      BY <3>2 DEF MaySave
    <3>. QED BY <3>1, <3>3, <3>4, <3>5, <3>6, <3>7 DEF Settled
  <2>2. \A j \in Instances \ {i} : mem'[j] = mem[j] /\ toInterrupt'[j] = toInterrupt[j]
    BY <1>12 DEF Classify
  <2>. QED BY <1>12, <2>1, <2>2 DEF Classify, Goes, backendVars
<1>13. ASSUME NEW i \in Instances, SaveInterrupted(i) PROVE UnsuccessfulSettled'
  BY <1>13 DEF SaveInterrupted, Goes, execVars, shutdownVars
<1>14. ASSUME NEW i \in Instances, SavePending(i) PROVE UnsuccessfulSettled'
  BY <1>14 DEF SavePending, Goes, execVars, shutdownVars
<1>15. ASSUME NEW i \in Instances, Exit(i) PROVE UnsuccessfulSettled'
  BY <1>15 DEF Exit, Goes, Forget, Empty, backendVars
<1>16. ASSUME NEW i \in Instances, Crash(i) PROVE UnsuccessfulSettled'
  BY <1>16 DEF Crash, Forget, Empty, backendVars
<1>17. CASE UNCHANGED vars
  BY <1>17 DEF vars, execVars, shutdownVars, backendVars
<1>. QED
  BY <1>1, <1>2, <1>3, <1>4, <1>5, <1>6, <1>7, <1>8, <1>9, <1>10, <1>11,
     <1>12, <1>13, <1>14, <1>15, <1>16, <1>17 DEF Next, GracefulNext,
     Startup, Serve, Shutdown

(* What had succeeded at the start of an instance stays out of its hands.  *)
LEMMA KnownStep == IInv /\ [Next]_vars => KnownSkipped'
<1> SUFFICES ASSUME IInv, [Next]_vars PROVE KnownSkipped'
  OBVIOUS
<1> USE SettledStep DEF IInv, TypeOK, KnownSkipped
<1>1. ASSUME NEW i \in Instances, Start(i) PROVE KnownSkipped'
  BY <1>1 DEF Start, Goes, Succeeded, shutdownVars, backendVars
<1>2. ASSUME NEW i \in Instances, LoadPending(i) PROVE KnownSkipped'
  BY <1>2 DEF LoadPending, Goes, execVars, shutdownVars, backendVars
<1>3. ASSUME NEW i \in Instances, CheckCompleted(i) PROVE KnownSkipped'
  BY <1>3 DEF CheckCompleted, Goes, Succeeded, execVars, shutdownVars, backendVars
<1>4. ASSUME NEW i \in Instances, NEW t \in Tasks, Claim(i, t) PROVE KnownSkipped'
  BY <1>4 DEF Claim, Redispatch, shutdownVars
<1>5. ASSUME NEW i \in Instances, ClearPending(i) PROVE KnownSkipped'
  BY <1>5 DEF ClearPending, Goes, execVars, shutdownVars
<1>6. ASSUME NEW i \in Instances, NEW t \in Tasks, Submit(i, t) PROVE KnownSkipped'
  BY <1>6 DEF Submit, shutdownVars, backendVars
<1>7. ASSUME NEW i \in Instances, NEW t \in Tasks, Begin(i, t) PROVE KnownSkipped'
  BY <1>7 DEF Begin, shutdownVars, backendVars
<1>8. ASSUME NEW i \in Instances, NEW t \in Tasks, End(i, t) PROVE KnownSkipped'
  BY <1>8 DEF End, shutdownVars, backendVars
<1>9. ASSUME NEW i \in Instances, NEW t \in Tasks, FlushOne(i, t) PROVE KnownSkipped'
  BY <1>9 DEF FlushOne, execVars, shutdownVars
<1>10. ASSUME NEW i \in Instances, PeriodicFlush(i) PROVE KnownSkipped'
  <2>1. \A t \in Tasks : history'[t] = history[t] \/ history'[t] = "success" \/ Settled(t)
    BY <1>10 DEF PeriodicFlush, Goes, Flush, Final, UnsuccessfulSettled, Unsuccessful, Unsorted
  <2>. QED BY <1>10, <2>1 DEF PeriodicFlush, Flush, execVars, shutdownVars
<1>11. ASSUME NEW i \in Instances, ShutdownFlush(i) PROVE KnownSkipped'
  <2>1. \A t \in Tasks : history'[t] = history[t] \/ history'[t] = "success" \/ Settled(t)
    BY <1>11 DEF ShutdownFlush, Goes, Flush, Final, UnsuccessfulSettled, Unsuccessful, Unsorted
  <2>. QED BY <1>11, <2>1 DEF ShutdownFlush, Goes, Flush, execVars, shutdownVars
<1>12. ASSUME NEW i \in Instances, Classify(i) PROVE KnownSkipped'
  BY <1>12 DEF Classify, Goes, backendVars
<1>13. ASSUME NEW i \in Instances, SaveInterrupted(i) PROVE KnownSkipped'
  <2>1. \A t \in Tasks : history'[t] = history[t] \/ history'[t] = "success" \/ Settled(t)
    BY <1>13 DEF SaveInterrupted, Goes, UnsuccessfulSettled, Unsuccessful, Unsorted
  <2>. QED BY <1>13, <2>1 DEF SaveInterrupted, Goes, execVars, shutdownVars
<1>14. ASSUME NEW i \in Instances, SavePending(i) PROVE KnownSkipped'
  BY <1>14 DEF SavePending, Goes, execVars, shutdownVars
<1>15. ASSUME NEW i \in Instances, Exit(i) PROVE KnownSkipped'
  BY <1>15 DEF Exit, Goes, Forget, backendVars
<1>16. ASSUME NEW i \in Instances, Crash(i) PROVE KnownSkipped'
  BY <1>16 DEF Crash, Forget, backendVars
<1>17. CASE UNCHANGED vars
  BY <1>17 DEF vars, execVars, shutdownVars, backendVars
<1>. QED
  BY <1>1, <1>2, <1>3, <1>4, <1>5, <1>6, <1>7, <1>8, <1>9, <1>10, <1>11,
     <1>12, <1>13, <1>14, <1>15, <1>16, <1>17 DEF Next, GracefulNext,
     Startup, Serve, Shutdown

(* A task is claimed or submitted only where it is not known to be done.   *)
LEMMA NoRerunStep == IInv /\ [Next]_vars => NoRerunOfCompleted'
<1> SUFFICES ASSUME IInv, [Next]_vars PROVE NoRerunOfCompleted'
  OBVIOUS
<1> USE DEF IInv, TypeOK, NoRerunOfCompleted, Active
<1>1. ASSUME NEW i \in Instances, Start(i) PROVE NoRerunOfCompleted'
  <2>1. Active(i) = {}
    BY <1>1 DEF Start, Goes, Running, RecordsTellTruth
  <2>. QED BY <1>1, <2>1 DEF Start, shutdownVars, backendVars
<1>2. ASSUME NEW i \in Instances, LoadPending(i) PROVE NoRerunOfCompleted'
  BY <1>2 DEF LoadPending, Goes, execVars, shutdownVars, backendVars
<1>3. ASSUME NEW i \in Instances, CheckCompleted(i) PROVE NoRerunOfCompleted'
  BY <1>3 DEF CheckCompleted, Goes, execVars, shutdownVars, backendVars
<1>4. ASSUME NEW i \in Instances, NEW t \in Tasks, Claim(i, t) PROVE NoRerunOfCompleted'
  <2>1. CASE t \in pendingTable /\ Redispatch(i, t)
    <3>1. t \notin known[i]
      BY <1>4, <2>1 DEF Claim, KnownSkipped, Settled
    <3>. QED BY <1>4, <2>1, <3>1 DEF Claim, Redispatch, shutdownVars
  <2>2. CASE UNCHANGED <<mem, waiting>>
    BY <1>4, <2>2 DEF Claim, shutdownVars
  <2>. QED BY <1>4, <2>1, <2>2 DEF Claim
<1>5. ASSUME NEW i \in Instances, ClearPending(i) PROVE NoRerunOfCompleted'
  BY <1>5 DEF ClearPending, Goes, execVars, shutdownVars
<1>6. ASSUME NEW i \in Instances, NEW t \in Tasks, Submit(i, t) PROVE NoRerunOfCompleted'
  <2>1. t \notin known[i]
    BY <1>6 DEF Submit, IdsFresh
  <2>. QED BY <1>6, <2>1 DEF Submit, shutdownVars, backendVars
<1>7. ASSUME NEW i \in Instances, NEW t \in Tasks, Begin(i, t) PROVE NoRerunOfCompleted'
  BY <1>7 DEF Begin, shutdownVars, backendVars
<1>8. ASSUME NEW i \in Instances, NEW t \in Tasks, End(i, t) PROVE NoRerunOfCompleted'
  BY <1>8 DEF End, shutdownVars, backendVars
<1>9. ASSUME NEW i \in Instances, NEW t \in Tasks, FlushOne(i, t) PROVE NoRerunOfCompleted'
  BY <1>9 DEF FlushOne, execVars, shutdownVars
<1>10. ASSUME NEW i \in Instances, PeriodicFlush(i) PROVE NoRerunOfCompleted'
  BY <1>10 DEF PeriodicFlush, Flush, execVars, shutdownVars
<1>11. ASSUME NEW i \in Instances, ShutdownFlush(i) PROVE NoRerunOfCompleted'
  BY <1>11 DEF ShutdownFlush, Goes, Flush, execVars, shutdownVars
<1>12. ASSUME NEW i \in Instances, Classify(i) PROVE NoRerunOfCompleted'
  BY <1>12 DEF Classify, Goes, backendVars
<1>13. ASSUME NEW i \in Instances, SaveInterrupted(i) PROVE NoRerunOfCompleted'
  BY <1>13 DEF SaveInterrupted, Goes, execVars, shutdownVars
<1>14. ASSUME NEW i \in Instances, SavePending(i) PROVE NoRerunOfCompleted'
  BY <1>14 DEF SavePending, Goes, execVars, shutdownVars
<1>15. ASSUME NEW i \in Instances, Exit(i) PROVE NoRerunOfCompleted'
  BY <1>15 DEF Exit, Goes, Forget, backendVars
<1>16. ASSUME NEW i \in Instances, Crash(i) PROVE NoRerunOfCompleted'
  BY <1>16 DEF Crash, Forget, backendVars
<1>17. CASE UNCHANGED vars
  BY <1>17 DEF vars, execVars, shutdownVars, backendVars
<1>. QED
  BY <1>1, <1>2, <1>3, <1>4, <1>5, <1>6, <1>7, <1>8, <1>9, <1>10, <1>11,
     <1>12, <1>13, <1>14, <1>15, <1>16, <1>17 DEF Next, GracefulNext,
     Startup, Serve, Shutdown

-----------------------------------------------------------------------------
(* The inductive invariant holds of every reachable state.                 *)
LEMMA Invariance == Spec => []IInv
<1>1. IInv /\ [Next]_vars => IInv'
  BY TypeStep, OwnerStep, IdsStep, RecordsStep, UnsuccessfulStep, KnownStep,
     NoRerunStep DEF IInv
<1>. QED BY InitIInv, <1>1, PTL DEF Spec

(* Every reachable state of the instances and their backend is well typed; *)
(* in particular only final statuses reach the history table.              *)
THEOREM TypeCorrect == Spec => []TypeOK
<1>1. IInv => TypeOK
  BY DEF IInv
<1>. QED BY <1>1, Invariance, PTL

(* requeue() and claim_pending(): no two instances have a task at once,    *)
(* for every number of instances, however they start, stop and crash.      *)
THEOREM OneRunnerHolds == Spec => []OneRunner
<1>1. IInv => OneRunner
  BY DEF IInv, TypeOK, OneRunner, OneOwner, Owned, HandedOver
<1>. QED BY <1>1, Invariance, PTL

(* requeue() skips what completed_ids() knows: a task that had succeeded   *)
(* when an instance started never runs in it, although other instances may *)
(* still write a worse status over its record.                             *)
THEOREM NoRerunHolds == Spec => []NoRerunOfCompleted
<1>1. IInv => NoRerunOfCompleted
  BY DEF IInv
<1>. QED BY <1>1, Invariance, PTL

-----------------------------------------------------------------------------
(* The instances implement TaskOwnership.                                  *)

(* The actions that change nobody's tasks, nor the table.                  *)
Elsewhere(i) ==
  \/ Start(i) \/ LoadPending(i) \/ CheckCompleted(i)
  \/ \E t \in Tasks : Begin(i, t) \/ FlushOne(i, t)
  \/ PeriodicFlush(i) \/ ShutdownFlush(i) \/ SaveInterrupted(i) \/ Exit(i)

(* A step that changes what one instance has is an update of the function  *)
(* of the abstract state.                                                  *)
LEMMA HeldChanges ==
  ASSUME NEW i \in Instances, NEW mine, Held'[i] = mine,
         \A j \in Instances \ {i} : Held'[j] = Held[j]
  PROVE  Held' = [Held EXCEPT ![i] = mine]
  BY DEF Held

(* No such action changes the abstract state.                              *)
LEMMA ElsewhereStutters ==
  ASSUME IInv, NEW i \in Instances, Elsewhere(i)
  PROVE  UNCHANGED Owners!vars
<1> USE DEF IInv, TypeOK, Held, Active
<1>1. UNCHANGED <<born, pendingTable>>
  BY DEF Elsewhere, Start, LoadPending, CheckCompleted, Begin, FlushOne, PeriodicFlush,
         ShutdownFlush, SaveInterrupted, Exit, Forget, backendVars
<1>2. Held' = Held
  <2>1. CASE Start(i) \/ LoadPending(i) \/ CheckCompleted(i)
    BY <2>1 DEF Start, LoadPending, CheckCompleted, Goes, execVars, shutdownVars
  <2>2. ASSUME NEW t \in Tasks, Begin(i, t) PROVE Held' = Held
    BY <2>2 DEF Begin, shutdownVars
  <2>3. ASSUME NEW t \in Tasks, FlushOne(i, t) PROVE Held' = Held
    BY <2>3 DEF FlushOne, execVars, shutdownVars
  <2>4. CASE PeriodicFlush(i) \/ ShutdownFlush(i) \/ SaveInterrupted(i)
    BY <2>4 DEF PeriodicFlush, ShutdownFlush, SaveInterrupted, Goes, execVars, shutdownVars
  <2>5. CASE Exit(i)
    BY <2>5 DEF Exit, Goes, Forget
  <2>. QED BY <2>1, <2>2, <2>3, <2>4, <2>5 DEF Elsewhere
<1>. QED BY <1>1, <1>2 DEF Owners!vars

(* Each step of the instances is a step of TaskOwnership or none of it.    *)
LEMMA StepKeepsOwnership == IInv /\ [Next]_vars => [Owners!Next]_(Owners!vars)
<1> SUFFICES ASSUME IInv, [Next]_vars PROVE Owners!Next \/ UNCHANGED Owners!vars
  OBVIOUS
<1> DEFINE Mapped == Owners!Next \/ UNCHANGED Owners!vars
<1> USE DEF IInv, TypeOK
<1>1. ASSUME NEW i \in Instances, Elsewhere(i) PROVE Mapped
  BY <1>1, ElsewhereStutters
<1>2. ASSUME NEW i \in Instances, NEW t \in Tasks, Claim(i, t) PROVE Mapped
  <2>1. phase[i] = "claiming" /\ UNCHANGED <<phase, toRequeue, body, born>>
    BY <1>2 DEF Claim, shutdownVars
  <2>2. pendingTable' = pendingTable \ {t}
    BY <1>2 DEF Claim
  <2>3. CASE t \in pendingTable /\ Redispatch(i, t)
    <3>1. Held'[i] = Held[i] \cup {t} /\ \A j \in Instances \ {i} : Held'[j] = Held[j]
      BY <2>1, <2>3 DEF Redispatch, Held, Active
    <3>2. Held' = [Held EXCEPT ![i] = @ \cup {t}]
      BY <3>1, HeldChanges
    <3>3. Owners!Take(i, t)
      BY <2>1, <2>2, <2>3, <3>2 DEF Owners!Take
    <3>. QED BY <3>3 DEF Owners!Next
  <2>4. CASE UNCHANGED waiting
    <3>1. Held' = Held
      BY <2>1, <2>4 DEF Held, Active
    <3>2. Owners!Discard
      BY <2>1, <2>2, <3>1 DEF Owners!Discard
    <3>. QED BY <3>2 DEF Owners!Next
  <2>. QED BY <1>2, <2>3, <2>4 DEF Claim
<1>3. ASSUME NEW i \in Instances, ClearPending(i) PROVE Mapped
  <2>1. Held' = Held
    BY <1>3 DEF ClearPending, Goes, execVars, shutdownVars, Held, Active
  <2>2. Owners!Discard
    BY <1>3, <2>1 DEF ClearPending, Owners!Discard
  <2>. QED BY <2>2 DEF Owners!Next
<1>4. ASSUME NEW i \in Instances, NEW t \in Tasks, Submit(i, t) PROVE Mapped
  <2>1. Held'[i] = Held[i] \cup {t} /\ \A j \in Instances \ {i} : Held'[j] = Held[j]
    BY <1>4 DEF Submit, shutdownVars, Held, Active
  <2>2. Held' = [Held EXCEPT ![i] = @ \cup {t}]
    BY <2>1, HeldChanges
  <2>3. Owners!Submit(i, t)
    BY <1>4, <2>2 DEF Submit, backendVars, Owners!Submit
  <2>. QED BY <2>3 DEF Owners!Next
<1>5. ASSUME NEW i \in Instances, UNCHANGED <<born, pendingTable>>, Held'[i] \subseteq Held[i],
             \A j \in Instances \ {i} : Held'[j] = Held[j]
      PROVE  Mapped
  <2> DEFINE gone == Held[i] \ Held'[i]
  <2>1. Held' = [Held EXCEPT ![i] = @ \ gone]
    BY <1>5, HeldChanges
  <2>2. Owners!LetGo(i, gone)
    BY <1>5, <2>1 DEF Owners!LetGo
  <2>3. gone \in SUBSET Held[i]
    OBVIOUS
  <2>. QED BY <2>2, <2>3 DEF Owners!Next
<1>6. ASSUME NEW i \in Instances, NEW t \in Tasks, End(i, t) PROVE Mapped
  <2>1. Held'[i] \subseteq Held[i] /\ \A j \in Instances \ {i} : Held'[j] = Held[j]
    BY <1>6 DEF End, shutdownVars, Held, Active
  <2>. QED BY <1>5, <1>6, <2>1 DEF End, backendVars
<1>7. ASSUME NEW i \in Instances, Classify(i) PROVE Mapped
  <2>1. toRequeue'[i] \subseteq Active(i) /\ \A j \in Instances \ {i} : toRequeue'[j] = toRequeue[j]
    BY <1>7, ClassifyLists
  <2>2. Held'[i] \subseteq Held[i] /\ \A j \in Instances \ {i} : Held'[j] = Held[j]
    BY <1>7, <2>1 DEF Classify, Goes, Held, Active
  <2>. QED BY <1>5, <1>7, <2>2 DEF Classify, backendVars
<1>8. ASSUME NEW i \in Instances, SavePending(i) PROVE Mapped
  <2>1. Held'[i] = {} /\ \A j \in Instances \ {i} : Held'[j] = Held[j]
    BY <1>8 DEF SavePending, Goes, execVars, shutdownVars, Held, Active
  <2>2. Held' = [Held EXCEPT ![i] = {}]
    BY <2>1, HeldChanges
  <2>3. toRequeue[i] \in SUBSET Held[i]
    BY <1>8 DEF SavePending, Goes, Held
  <2>4. Owners!HandOver(i, toRequeue[i])
    BY <1>8, <2>2, <2>3 DEF SavePending, Owners!HandOver
  <2>. QED BY <2>3, <2>4 DEF Owners!Next
<1>9. ASSUME NEW i \in Instances, Crash(i) PROVE Mapped
  <2>1. Held'[i] = {} /\ \A j \in Instances \ {i} : Held'[j] = Held[j]
    BY <1>9 DEF Crash, Forget, Held, Active
  <2>. QED BY <1>5, <1>9, <2>1 DEF Crash, Forget, backendVars
<1>10. CASE UNCHANGED vars
  BY <1>10 DEF vars, execVars, shutdownVars, backendVars, Held, Active, Owners!vars
<1>. QED
  BY <1>1, <1>2, <1>3, <1>4, <1>6, <1>7, <1>8, <1>9, <1>10
  DEF Next, GracefulNext, Startup, Serve, Shutdown, Elsewhere

(* However instances start, stop and crash, a task goes from one to the    *)
(* next only through the pending table, and one instance has it at a time  *)
(* (snapshot.py:107-330).                                                  *)
THEOREM Implements == Spec => OwnershipKept
<1>1. Init => Owners!Init
  BY DEF Init, Nowhere, Held, Active, Owners!Init
<1>. QED BY Invariance, <1>1, StepKeepsOwnership, PTL DEF Spec, OwnershipKept, Owners!Spec

-----------------------------------------------------------------------------
(* What the promise amounts to.                                            *)

(* Nobody has a task that another one has, nor one that is in the table.   *)
OneHolder ==
  /\ Held \in [Instances -> SUBSET born]
  /\ pendingTable \subseteq born
  /\ \A i, j \in Instances : i # j => Held[i] \cap Held[j] = {}
  /\ \A i \in Instances : Held[i] \cap pendingTable = {}

(* TaskOwnership gives every task one holder, by itself, for any function  *)
(* and any table that follow it (snapshot.py:107-330).                     *)
THEOREM OneHolderAlways == OwnershipKept => []OneHolder
<1>1. Owners!Init => OneHolder
  BY DEF Owners!Init, OneHolder
<1>2. OneHolder /\ [Owners!Next]_(Owners!vars) => OneHolder'
  <2> SUFFICES ASSUME OneHolder, Owners!Next PROVE OneHolder'
    BY DEF Owners!vars, OneHolder
  <2> USE DEF OneHolder
  <2>1. CASE Owners!Discard
    BY <2>1 DEF Owners!Discard
  <2>2. ASSUME NEW i \in Instances, NEW t \in Tasks, Owners!Submit(i, t) PROVE OneHolder'
    BY <2>2 DEF Owners!Submit
  <2>3. ASSUME NEW i \in Instances, NEW t \in Tasks, Owners!Take(i, t) PROVE OneHolder'
    BY <2>3 DEF Owners!Take
  <2>4. ASSUME NEW i \in Instances, NEW gone, Owners!LetGo(i, gone) PROVE OneHolder'
    BY <2>4 DEF Owners!LetGo
  <2>5. ASSUME NEW i \in Instances, NEW left, Owners!HandOver(i, left) PROVE OneHolder'
    BY <2>5 DEF Owners!HandOver
  <2>. QED BY <2>1, <2>2, <2>3, <2>4, <2>5 DEF Owners!Next
<1>. QED BY <1>1, <1>2, PTL DEF OwnershipKept, Owners!Spec
=============================================================================
