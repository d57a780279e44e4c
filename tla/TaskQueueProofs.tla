--------------------------- MODULE TaskQueueProofs ---------------------------
(***************************************************************************)
(* Theorems about TaskQueue for every set of tasks and every limit: typing,*)
(* the concurrency cap, the backpressure cap, the dispatch order, that the *)
(* queue implements WorkQueue, and that it loses no wake-up when all its   *)
(* producers are on the event loop.                                        *)
(***************************************************************************)
EXTENDS TaskQueue, FiniteSetTheorems, TLAPS

(* Without an operator the limits stay those of startup.                   *)
LimitsFixed ==
  /\ config = [concurrency |-> Concurrency, maxSize |-> MaxSize]
  /\ ~orphaned

(* A popped task is in the drainer's hands exactly between pop and dispatch.*)
HeldWhere ==
  /\ pc \in {"acquire", "blocked", "granted"} => held # NoTask
  /\ held # NoTask => pc \in {"acquire", "blocked", "granted", "cancelled", "closed"}

(* A task is in one place, and whatever is in a place was pushed.          *)
OnePlace ==
  /\ heap \cap running = {} /\ heap \cap finished = {} /\ running \cap finished = {}
  /\ held \notin heap \cup running \cup finished
  /\ \A t \in heap \cup running \cup finished \cup rejected \cup {held} :
       t # NoTask => (order[t] = 0 <=> t \in rejected)

(* Every permit is in the semaphore, on its way to the drainer, or in use. *)
InFlight == IF pc = "granted" THEN 1 ELSE 0
PermitsAccounted ==
  /\ IsFiniteSet(running)
  /\ Concurrency = NoLimit => permits = NoLimit /\ pc \notin {"blocked", "granted"}
  /\ Concurrency # NoLimit =>
       /\ permits \in Nat
       /\ permits + Cardinality(running) + InFlight = Concurrency
  /\ pc = "blocked" => permits = 0

HeapBounded ==
  /\ IsFiniteSet(heap)
  /\ MaxSize # NoLimit => Cardinality(heap) <= MaxSize

(* Nothing was popped after a task that was pushed later.                  *)
OrderKept ==
  /\ \A t \in Tasks : order[t] <= seq /\ poppedAt[t] <= seq
  /\ \A t \in heap, u \in Tasks :
       u \in running \cup finished \cup {held} /\ Precedes(t, u)
         => order[t] > poppedAt[u]

(* Whoever waits for a permit, or has been handed one, waits on a semaphore*)
(* that is there, unless an operator has replaced it.                      *)
SemaphoreIsThere ==
  /\ orphaned => pc \in {"blocked", "granted", "cancelled", "closed"}
  /\ pc \in {"blocked", "granted"} /\ ~orphaned => permits # NoLimit

(* What holds also while an operator changes the limits.                   *)
AdminInv ==
  /\ TypeOK
  /\ HeldWhere
  /\ OnePlace
  /\ OrderKept
  /\ SemaphoreIsThere

(* What holds with the limits of startup.                                  *)
IInv ==
  /\ AdminInv
  /\ LimitsFixed
  /\ PermitsAccounted
  /\ HeapBounded

-----------------------------------------------------------------------------
(* Init establishes the invariant.                                         *)
LEMMA InitIInv == Init => IInv
<1> SUFFICES ASSUME Init PROVE IInv
  OBVIOUS
<1> USE ConstantsAssumption DEF Init
<1>1. TypeOK
  BY DEF TypeOK, Config, Limit, DrainerPlaces
<1>2. LimitsFixed /\ HeldWhere
  BY DEF LimitsFixed, HeldWhere
<1>3. OnePlace
  BY DEF OnePlace
<1>4. PermitsAccounted
  BY FS_EmptySet DEF PermitsAccounted, InFlight, Limit
<1>5. HeapBounded
  BY FS_EmptySet DEF HeapBounded, Limit
<1>6. OrderKept
  BY DEF OrderKept
<1>7. SemaphoreIsThere
  BY DEF SemaphoreIsThere
<1> QED
  BY <1>1, <1>2, <1>3, <1>4, <1>5, <1>6, <1>7 DEF IInv, AdminInv

(* Every step keeps the variables in their types.                          *)
LEMMA TypeStep == AdminInv /\ [AdminNext]_vars => TypeOK'
<1> SUFFICES ASSUME AdminInv, [AdminNext]_vars PROVE TypeOK'
  OBVIOUS
<1> USE ConstantsAssumption DEF AdminInv, TypeOK, HeldWhere, Limit, DrainerPlaces
<1>1. ASSUME NEW t \in Tasks, EnqueueOnLoop(t) PROVE TypeOK'
  <2>1. CASE Push(t) /\ SetHasWork
    BY <1>1, <2>1 DEF EnqueueOnLoop, Push, SetHasWork, drainerVars, slotVars
  <2>2. CASE Reject(t) /\ UNCHANGED <<hasWork, pc>>
    BY <1>1, <2>2 DEF EnqueueOnLoop, Reject, drainerVars, slotVars
  <2> QED
    BY <1>1, <2>1, <2>2 DEF EnqueueOnLoop
<1>2. ASSUME NEW t \in Tasks, EnqueueInThread(t) PROVE TypeOK'
  BY <1>2 DEF EnqueueInThread, Push, Reject, producerVars, drainerVars, slotVars
<1>3. ASSUME NEW t \in Tasks, SignalFromThread(t) PROVE TypeOK'
  BY <1>3 DEF SignalFromThread, SetHasWork, producerVars, drainerVars, slotVars
<1>4. CASE WaitForWork
  BY <1>4 DEF WaitForWork, producerVars, drainerVars, slotVars
<1>5. CASE FallAsleep
  BY <1>5 DEF FallAsleep, producerVars, drainerVars, slotVars
<1>6. CASE WakeUp
  BY <1>6 DEF WakeUp, producerVars, drainerVars, slotVars
<1>7. CASE FindEmpty
  BY <1>7 DEF FindEmpty, producerVars, drainerVars, slotVars
<1>8. CASE Pop
  BY <1>8 DEF Pop, producerVars, drainerVars, slotVars
<1>9. CASE AcquireSlot
  <2>1. Dispatch /\ held \in Tasks
    BY <1>9 DEF AcquireSlot
  <2>2. permits' \in Limit
    BY <1>9 DEF AcquireSlot
  <2> QED
    BY <2>1, <2>2 DEF Dispatch, producerVars, drainerVars, slotVars
<1>10. CASE BlockOnSlot
  BY <1>10 DEF BlockOnSlot, producerVars, drainerVars, slotVars
<1>11. CASE ResumeWithSlot
  BY <1>11 DEF ResumeWithSlot, Dispatch, producerVars, drainerVars, slotVars
<1>12. ASSUME NEW t \in Tasks, FinishTask(t) PROVE TypeOK'
  BY <1>12 DEF FinishTask, LeaveSlot, producerVars, drainerVars, slotVars
<1>13. CASE CancelDrainer
  <2>1. pc = "granted" /\ ~orphaned => permits \in Nat
    BY DEF SemaphoreIsThere
  <2>2. permits' \in Limit
    BY <1>13, <2>1 DEF CancelDrainer
  <2> QED
    BY <1>13, <2>2 DEF CancelDrainer, producerVars, drainerVars, slotVars
<1>14. CASE CloseQueue
  BY <1>14 DEF CloseQueue, producerVars, drainerVars, slotVars
<1>15. ASSUME NEW new \in NewConfigs, UpdateQueueConfig(new) PROVE TypeOK'
  BY <1>15 DEF UpdateQueueConfig, Config, producerVars, drainerVars, slotVars
<1>16. CASE UNCHANGED vars
  BY <1>16 DEF vars, producerVars, drainerVars, slotVars
<1> QED
  BY <1>1, <1>2, <1>3, <1>4, <1>5, <1>6, <1>7, <1>8, <1>9, <1>10, <1>11, <1>12, <1>13, <1>14, <1>15,
     <1>16
  DEF AdminNext, Next, Producer, Drainer

(* The drainer holds a task only between pop and dispatch.                 *)
LEMMA PlaceStep == AdminInv /\ [AdminNext]_vars => HeldWhere'
<1> SUFFICES ASSUME AdminInv, [AdminNext]_vars PROVE HeldWhere'
  OBVIOUS
<1> USE ConstantsAssumption DEF AdminInv, TypeOK, HeldWhere
<1>1. ASSUME NEW t \in Tasks, EnqueueOnLoop(t) PROVE HeldWhere'
  BY <1>1 DEF EnqueueOnLoop, Push, Reject, SetHasWork, producerVars, drainerVars, slotVars
<1>2. ASSUME NEW t \in Tasks, EnqueueInThread(t) PROVE HeldWhere'
  BY <1>2 DEF EnqueueInThread, Push, Reject, producerVars, drainerVars, slotVars
<1>3. ASSUME NEW t \in Tasks, SignalFromThread(t) PROVE HeldWhere'
  BY <1>3 DEF SignalFromThread, SetHasWork, producerVars, drainerVars, slotVars
<1>4. CASE WaitForWork
  BY <1>4 DEF WaitForWork, producerVars, drainerVars, slotVars
<1>5. CASE FallAsleep
  BY <1>5 DEF FallAsleep, producerVars, drainerVars, slotVars
<1>6. CASE WakeUp
  BY <1>6 DEF WakeUp, producerVars, drainerVars, slotVars
<1>7. CASE FindEmpty
  BY <1>7 DEF FindEmpty, producerVars, drainerVars, slotVars
<1>8. CASE Pop
  BY <1>8 DEF Pop, producerVars, drainerVars, slotVars
<1>9. CASE AcquireSlot
  BY <1>9 DEF AcquireSlot, Dispatch, producerVars, drainerVars, slotVars
<1>10. CASE BlockOnSlot
  BY <1>10 DEF BlockOnSlot, producerVars, drainerVars, slotVars
<1>11. CASE ResumeWithSlot
  BY <1>11 DEF ResumeWithSlot, Dispatch, producerVars, drainerVars, slotVars
<1>12. ASSUME NEW t \in Tasks, FinishTask(t) PROVE HeldWhere'
  BY <1>12 DEF FinishTask, LeaveSlot, producerVars, drainerVars, slotVars
<1>13. CASE CancelDrainer
  BY <1>13 DEF CancelDrainer, producerVars, drainerVars, slotVars
<1>14. CASE CloseQueue
  BY <1>14 DEF CloseQueue, producerVars, drainerVars, slotVars
<1>15. ASSUME NEW new \in NewConfigs, UpdateQueueConfig(new) PROVE HeldWhere'
  BY <1>15 DEF UpdateQueueConfig, producerVars, drainerVars, slotVars
<1>16. CASE UNCHANGED vars
  BY <1>16 DEF vars, producerVars, drainerVars, slotVars
<1> QED
  BY <1>1, <1>2, <1>3, <1>4, <1>5, <1>6, <1>7, <1>8, <1>9, <1>10, <1>11, <1>12, <1>13, <1>14, <1>15,
     <1>16
  DEF AdminNext, Next, Producer, Drainer

(* Without an operator no step changes the limits.                         *)
LEMMA FixedStep == IInv /\ [Next]_vars => LimitsFixed'
<1> SUFFICES ASSUME IInv, [Next]_vars PROVE LimitsFixed'
  OBVIOUS
<1> USE ConstantsAssumption DEF IInv, AdminInv, LimitsFixed
<1>1. ASSUME NEW t \in Tasks, EnqueueOnLoop(t) PROVE LimitsFixed'
  BY <1>1 DEF EnqueueOnLoop, Push, Reject, SetHasWork, producerVars, drainerVars, slotVars
<1>2. ASSUME NEW t \in Tasks, EnqueueInThread(t) PROVE LimitsFixed'
  BY <1>2 DEF EnqueueInThread, Push, Reject, producerVars, drainerVars, slotVars
<1>3. ASSUME NEW t \in Tasks, SignalFromThread(t) PROVE LimitsFixed'
  BY <1>3 DEF SignalFromThread, SetHasWork, producerVars, drainerVars, slotVars
<1>4. CASE WaitForWork
  BY <1>4 DEF WaitForWork, producerVars, drainerVars, slotVars
<1>5. CASE FallAsleep
  BY <1>5 DEF FallAsleep, producerVars, drainerVars, slotVars
<1>6. CASE WakeUp
  BY <1>6 DEF WakeUp, producerVars, drainerVars, slotVars
<1>7. CASE FindEmpty
  BY <1>7 DEF FindEmpty, producerVars, drainerVars, slotVars
<1>8. CASE Pop
  BY <1>8 DEF Pop, producerVars, drainerVars, slotVars
<1>9. CASE AcquireSlot
  BY <1>9 DEF AcquireSlot, Dispatch, producerVars, drainerVars, slotVars
<1>10. CASE BlockOnSlot
  BY <1>10 DEF BlockOnSlot, producerVars, drainerVars, slotVars
<1>11. CASE ResumeWithSlot
  BY <1>11 DEF ResumeWithSlot, Dispatch, producerVars, drainerVars, slotVars
<1>12. ASSUME NEW t \in Tasks, FinishTask(t) PROVE LimitsFixed'
  BY <1>12 DEF FinishTask, LeaveSlot, producerVars, drainerVars, slotVars
<1>13. CASE CancelDrainer
  BY <1>13 DEF CancelDrainer, producerVars, drainerVars, slotVars
<1>14. CASE CloseQueue
  BY <1>14 DEF CloseQueue, producerVars, drainerVars, slotVars
<1>15. CASE UNCHANGED vars
  BY <1>15 DEF vars, producerVars, drainerVars, slotVars
<1> QED
  BY <1>1, <1>2, <1>3, <1>4, <1>5, <1>6, <1>7, <1>8, <1>9, <1>10, <1>11, <1>12, <1>13, <1>14, <1>15
  DEF Next, Producer, Drainer

(* No step puts a task in a second place.                                  *)
LEMMA OnePlaceStep == AdminInv /\ [AdminNext]_vars => OnePlace'
<1> SUFFICES ASSUME AdminInv, [AdminNext]_vars PROVE OnePlace'
  OBVIOUS
<1> USE ConstantsAssumption DEF AdminInv, TypeOK, HeldWhere, OnePlace, Fresh
<1>1. ASSUME NEW t \in Tasks, EnqueueOnLoop(t) PROVE OnePlace'
  BY <1>1 DEF EnqueueOnLoop, Push, Reject, SetHasWork, producerVars, drainerVars, slotVars
<1>2. ASSUME NEW t \in Tasks, EnqueueInThread(t) PROVE OnePlace'
  BY <1>2 DEF EnqueueInThread, Push, Reject, producerVars, drainerVars, slotVars
<1>3. ASSUME NEW t \in Tasks, SignalFromThread(t) PROVE OnePlace'
  BY <1>3 DEF SignalFromThread, SetHasWork, producerVars, drainerVars, slotVars
<1>4. CASE WaitForWork
  BY <1>4 DEF WaitForWork, producerVars, drainerVars, slotVars
<1>5. CASE FallAsleep
  BY <1>5 DEF FallAsleep, producerVars, drainerVars, slotVars
<1>6. CASE WakeUp
  BY <1>6 DEF WakeUp, producerVars, drainerVars, slotVars
<1>7. CASE FindEmpty
  BY <1>7 DEF FindEmpty, producerVars, drainerVars, slotVars
<1>8. CASE Pop
  BY <1>8 DEF Pop, producerVars, drainerVars, slotVars
<1>9. CASE AcquireSlot
  BY <1>9 DEF AcquireSlot, Dispatch, producerVars, drainerVars, slotVars
<1>10. CASE BlockOnSlot
  BY <1>10 DEF BlockOnSlot, producerVars, drainerVars, slotVars
<1>11. CASE ResumeWithSlot
  BY <1>11 DEF ResumeWithSlot, Dispatch, producerVars, drainerVars, slotVars
<1>12. ASSUME NEW t \in Tasks, FinishTask(t) PROVE OnePlace'
  BY <1>12 DEF FinishTask, LeaveSlot, producerVars, drainerVars, slotVars
<1>13. CASE CancelDrainer
  BY <1>13 DEF CancelDrainer, producerVars, drainerVars, slotVars
<1>14. CASE CloseQueue
  BY <1>14 DEF CloseQueue, producerVars, drainerVars, slotVars
<1>15. ASSUME NEW new \in NewConfigs, UpdateQueueConfig(new) PROVE OnePlace'
  BY <1>15 DEF UpdateQueueConfig, producerVars, drainerVars, slotVars
<1>16. CASE UNCHANGED vars
  BY <1>16 DEF vars, producerVars, drainerVars, slotVars
<1> QED
  BY <1>1, <1>2, <1>3, <1>4, <1>5, <1>6, <1>7, <1>8, <1>9, <1>10, <1>11, <1>12, <1>13, <1>14, <1>15,
     <1>16
  DEF AdminNext, Next, Producer, Drainer

(* No step creates or loses a permit.                                      *)
LEMMA PermitsStep == IInv /\ [Next]_vars => PermitsAccounted'
<1> SUFFICES ASSUME IInv, [Next]_vars PROVE PermitsAccounted'
  OBVIOUS
<1> USE ConstantsAssumption DEF IInv, AdminInv, TypeOK, HeldWhere, OnePlace, PermitsAccounted, InFlight, Limit
<1>a. IsFiniteSet(running) /\ Cardinality(running) \in Nat
  BY FS_CardinalityType
<1>b. ASSUME NEW t, t \notin running
      PROVE  /\ IsFiniteSet(running \cup {t})
             /\ Cardinality(running \cup {t}) = Cardinality(running) + 1
  BY <1>a, <1>b, FS_AddElement
<1>c. ASSUME NEW t, t \in running
      PROVE  /\ IsFiniteSet(running \ {t})
             /\ Cardinality(running \ {t}) = Cardinality(running) - 1
  BY <1>a, <1>c, FS_RemoveElement
<1>1. ASSUME NEW t \in Tasks, EnqueueOnLoop(t) PROVE PermitsAccounted'
  BY <1>1 DEF EnqueueOnLoop, Push, Reject, SetHasWork, producerVars, drainerVars, slotVars
<1>2. ASSUME NEW t \in Tasks, EnqueueInThread(t) PROVE PermitsAccounted'
  BY <1>2 DEF EnqueueInThread, Push, Reject, producerVars, drainerVars, slotVars
<1>3. ASSUME NEW t \in Tasks, SignalFromThread(t) PROVE PermitsAccounted'
  BY <1>3 DEF SignalFromThread, SetHasWork, producerVars, drainerVars, slotVars
<1>4. CASE WaitForWork
  BY <1>4 DEF WaitForWork, producerVars, drainerVars, slotVars
<1>5. CASE FallAsleep
  BY <1>5 DEF FallAsleep, producerVars, drainerVars, slotVars
<1>6. CASE WakeUp
  BY <1>6 DEF WakeUp, producerVars, drainerVars, slotVars
<1>7. CASE FindEmpty
  BY <1>7 DEF FindEmpty, producerVars, drainerVars, slotVars
<1>8. CASE Pop
  BY <1>8 DEF Pop, producerVars, drainerVars, slotVars
<1>9. CASE AcquireSlot
  <2>1. held \notin running
    BY <1>9 DEF AcquireSlot
  <2>2. running' = running \cup {held} /\ pc' = "pop"
    BY <1>9 DEF AcquireSlot, Dispatch
  <2>3. IsFiniteSet(running') /\ Cardinality(running') = Cardinality(running) + 1
    BY <1>b, <2>1, <2>2
  <2>4. CASE permits = NoLimit /\ UNCHANGED permits
    BY <1>9, <1>a, <2>2, <2>3, <2>4 DEF AcquireSlot
  <2>5. CASE permits # NoLimit /\ permits > 0 /\ permits' = permits - 1
    BY <1>9, <1>a, <2>2, <2>3, <2>5 DEF AcquireSlot
  <2> QED
    BY <1>9, <2>4, <2>5 DEF AcquireSlot
<1>10. CASE BlockOnSlot
  BY <1>10 DEF BlockOnSlot, producerVars, drainerVars, slotVars
<1>11. CASE ResumeWithSlot
  <2>1. held \notin running /\ Concurrency # NoLimit /\ permits' = permits
    BY <1>11 DEF ResumeWithSlot
  <2>2. running' = running \cup {held} /\ pc = "granted" /\ pc' = "pop"
    BY <1>11 DEF ResumeWithSlot, Dispatch
  <2>3. IsFiniteSet(running') /\ Cardinality(running') = Cardinality(running) + 1
    BY <1>b, <2>1, <2>2
  <2> QED
    BY <1>a, <2>1, <2>2, <2>3
<1>12. ASSUME NEW t \in Tasks, FinishTask(t) PROVE PermitsAccounted'
  <2>1. /\ IsFiniteSet(running')
        /\ Cardinality(running') = Cardinality(running) - 1
    BY <1>12, <1>a, <1>c DEF FinishTask, LeaveSlot
  <2> QED
    BY <1>12, <1>a, <2>1 DEF FinishTask, LeaveSlot, LimitsFixed, producerVars, drainerVars, slotVars
<1>13. CASE CancelDrainer
  <2>1. CASE pc = "granted"
    BY <1>13, <1>a, <2>1 DEF CancelDrainer, LimitsFixed, slotVars
  <2>2. CASE pc # "granted"
    BY <1>13, <1>a, <2>2 DEF CancelDrainer, slotVars
  <2> QED
    BY <2>1, <2>2
<1>14. CASE CloseQueue
  BY <1>14 DEF CloseQueue, producerVars, drainerVars, slotVars
<1>15. CASE UNCHANGED vars
  BY <1>15 DEF vars, producerVars, drainerVars, slotVars
<1> QED
  BY <1>1, <1>2, <1>3, <1>4, <1>5, <1>6, <1>7, <1>8, <1>9, <1>10, <1>11, <1>12, <1>13, <1>14, <1>15
  DEF Next, Producer, Drainer

(* No step overfills the heap.                                             *)
LEMMA BoundStep == IInv /\ [Next]_vars => HeapBounded'
<1> SUFFICES ASSUME IInv, [Next]_vars PROVE HeapBounded'
  OBVIOUS
<1> USE ConstantsAssumption DEF IInv, AdminInv, TypeOK, HeapBounded, HasRoom, Limit, LimitsFixed
<1>a. IsFiniteSet(heap) /\ Cardinality(heap) \in Nat
  BY FS_CardinalityType
<1>b. ASSUME NEW t
      PROVE  /\ IsFiniteSet(heap \cup {t})
             /\ Cardinality(heap \cup {t}) <= Cardinality(heap) + 1
  <2>1. CASE t \in heap
    BY <1>a, <2>1, FS_AddElement
  <2>2. CASE t \notin heap
    <3>1. IsFiniteSet(heap \cup {t}) /\ Cardinality(heap \cup {t}) = Cardinality(heap) + 1
      BY <1>a, <2>2, FS_AddElement
    <3> QED
      BY <1>a, <3>1
  <2> QED
    BY <2>1, <2>2
<1>c. ASSUME NEW t \in heap
      PROVE  /\ IsFiniteSet(heap \ {t})
             /\ Cardinality(heap \ {t}) \in Nat
             /\ Cardinality(heap \ {t}) <= Cardinality(heap)
  <2>1. IsFiniteSet(heap \ {t}) /\ Cardinality(heap \ {t}) = Cardinality(heap) - 1
    BY <1>a, <1>c, FS_RemoveElement
  <2>2. Cardinality(heap \ {t}) \in Nat
    BY <2>1, FS_CardinalityType
  <2> QED
    BY <1>a, <2>1, <2>2
<1>d. ASSUME NEW t \in Tasks, Push(t), UNCHANGED config PROVE HeapBounded'
  <2>1. /\ heap' = heap \cup {t}
        /\ config.maxSize # NoLimit => Cardinality(heap) < config.maxSize
        /\ config.maxSize = MaxSize
    BY <1>d DEF Push
  <2>2. IsFiniteSet(heap') /\ Cardinality(heap') <= Cardinality(heap) + 1
    BY <1>b, <2>1
  <2>3. Cardinality(heap') \in Nat
    BY <2>2, FS_CardinalityType
  <2> QED
    BY <1>a, <2>1, <2>2, <2>3
<1>1. ASSUME NEW t \in Tasks, EnqueueOnLoop(t) PROVE HeapBounded'
  BY <1>1, <1>d DEF EnqueueOnLoop, Reject, SetHasWork, producerVars, drainerVars, slotVars
<1>2. ASSUME NEW t \in Tasks, EnqueueInThread(t) PROVE HeapBounded'
  BY <1>2, <1>d DEF EnqueueInThread, Reject, producerVars, drainerVars, slotVars
<1>3. ASSUME NEW t \in Tasks, SignalFromThread(t) PROVE HeapBounded'
  BY <1>3 DEF SignalFromThread, SetHasWork, producerVars, drainerVars, slotVars
<1>4. CASE WaitForWork
  BY <1>4 DEF WaitForWork, producerVars, drainerVars, slotVars
<1>5. CASE FallAsleep
  BY <1>5 DEF FallAsleep, producerVars, drainerVars, slotVars
<1>6. CASE WakeUp
  BY <1>6 DEF WakeUp, producerVars, drainerVars, slotVars
<1>7. CASE FindEmpty
  BY <1>7 DEF FindEmpty, producerVars, drainerVars, slotVars
<1>8. CASE Pop
  <2>1. PICK t \in heap : heap' = heap \ {t}
    BY <1>8 DEF Pop
  <2> QED
    BY <1>8, <1>a, <1>c, <2>1 DEF Pop, producerVars, drainerVars, slotVars
<1>9. CASE AcquireSlot
  BY <1>9 DEF AcquireSlot, Dispatch, producerVars, drainerVars, slotVars
<1>10. CASE BlockOnSlot
  BY <1>10 DEF BlockOnSlot, producerVars, drainerVars, slotVars
<1>11. CASE ResumeWithSlot
  BY <1>11 DEF ResumeWithSlot, Dispatch, producerVars, drainerVars, slotVars
<1>12. ASSUME NEW t \in Tasks, FinishTask(t) PROVE HeapBounded'
  BY <1>12 DEF FinishTask, LeaveSlot, producerVars, drainerVars, slotVars
<1>13. CASE CancelDrainer
  BY <1>13 DEF CancelDrainer, producerVars, drainerVars, slotVars
<1>14. CASE CloseQueue
  BY <1>14 DEF CloseQueue, producerVars, drainerVars, slotVars
<1>15. CASE UNCHANGED vars
  BY <1>15 DEF vars, producerVars, drainerVars, slotVars
<1> QED
  BY <1>1, <1>2, <1>3, <1>4, <1>5, <1>6, <1>7, <1>8, <1>9, <1>10, <1>11, <1>12, <1>13, <1>14, <1>15
  DEF Next, Producer, Drainer

(* No step lets a later arrival overtake.                                  *)
LEMMA OrderStep == AdminInv /\ [AdminNext]_vars => OrderKept'
<1> SUFFICES ASSUME AdminInv, [AdminNext]_vars PROVE OrderKept'
  OBVIOUS
<1> USE ConstantsAssumption DEF AdminInv, TypeOK, OnePlace, HeldWhere, OrderKept, Precedes, Fresh
<1>1. ASSUME NEW t \in Tasks, EnqueueOnLoop(t) PROVE OrderKept'
  BY <1>1 DEF EnqueueOnLoop, Push, Reject, SetHasWork, producerVars, drainerVars, slotVars
<1>2. ASSUME NEW t \in Tasks, EnqueueInThread(t) PROVE OrderKept'
  BY <1>2 DEF EnqueueInThread, Push, Reject, producerVars, drainerVars, slotVars
<1>3. ASSUME NEW t \in Tasks, SignalFromThread(t) PROVE OrderKept'
  BY <1>3 DEF SignalFromThread, SetHasWork, producerVars, drainerVars, slotVars
<1>4. CASE WaitForWork
  BY <1>4 DEF WaitForWork, producerVars, drainerVars, slotVars
<1>5. CASE FallAsleep
  BY <1>5 DEF FallAsleep, producerVars, drainerVars, slotVars
<1>6. CASE WakeUp
  BY <1>6 DEF WakeUp, producerVars, drainerVars, slotVars
<1>7. CASE FindEmpty
  BY <1>7 DEF FindEmpty, producerVars, drainerVars, slotVars
<1>8. CASE Pop
  BY <1>8 DEF Pop, producerVars, drainerVars, slotVars
<1>9. CASE AcquireSlot
  BY <1>9 DEF AcquireSlot, Dispatch, producerVars, drainerVars, slotVars
<1>10. CASE BlockOnSlot
  BY <1>10 DEF BlockOnSlot, producerVars, drainerVars, slotVars
<1>11. CASE ResumeWithSlot
  BY <1>11 DEF ResumeWithSlot, Dispatch, producerVars, drainerVars, slotVars
<1>12. ASSUME NEW t \in Tasks, FinishTask(t) PROVE OrderKept'
  BY <1>12 DEF FinishTask, LeaveSlot, producerVars, drainerVars, slotVars
<1>13. CASE CancelDrainer
  BY <1>13 DEF CancelDrainer, producerVars, drainerVars, slotVars
<1>14. CASE CloseQueue
  BY <1>14 DEF CloseQueue, producerVars, drainerVars, slotVars
<1>15. ASSUME NEW new \in NewConfigs, UpdateQueueConfig(new) PROVE OrderKept'
  BY <1>15 DEF UpdateQueueConfig, producerVars, drainerVars, slotVars
<1>16. CASE UNCHANGED vars
  BY <1>16 DEF vars, producerVars, drainerVars, slotVars
<1> QED
  BY <1>1, <1>2, <1>3, <1>4, <1>5, <1>6, <1>7, <1>8, <1>9, <1>10, <1>11, <1>12, <1>13, <1>14, <1>15,
     <1>16
  DEF AdminNext, Next, Producer, Drainer

(* No step leaves the drainer waiting on no semaphore.                     *)
LEMMA SemaphoreStep == AdminInv /\ [AdminNext]_vars => SemaphoreIsThere'
<1> SUFFICES ASSUME AdminInv, [AdminNext]_vars PROVE SemaphoreIsThere'
  OBVIOUS
<1> USE ConstantsAssumption DEF AdminInv, TypeOK, Limit, SemaphoreIsThere
<1>1. ASSUME NEW t \in Tasks, EnqueueOnLoop(t) PROVE SemaphoreIsThere'
  BY <1>1 DEF EnqueueOnLoop, SetHasWork
<1>2. ASSUME NEW t \in Tasks, EnqueueInThread(t) PROVE SemaphoreIsThere'
  BY <1>2 DEF EnqueueInThread
<1>3. ASSUME NEW t \in Tasks, SignalFromThread(t) PROVE SemaphoreIsThere'
  BY <1>3 DEF SignalFromThread, SetHasWork
<1>4. CASE WaitForWork \/ FallAsleep \/ WakeUp \/ FindEmpty \/ Pop
  BY <1>4 DEF WaitForWork, FallAsleep, WakeUp, FindEmpty, Pop
<1>5. CASE AcquireSlot \/ ResumeWithSlot
  BY <1>5 DEF AcquireSlot, ResumeWithSlot, Dispatch
<1>6. CASE BlockOnSlot
  BY <1>6 DEF BlockOnSlot
<1>7. ASSUME NEW t \in Tasks, FinishTask(t) PROVE SemaphoreIsThere'
  BY <1>7 DEF FinishTask, LeaveSlot
<1>8. CASE CancelDrainer \/ CloseQueue
  BY <1>8 DEF CancelDrainer, CloseQueue
<1>9. ASSUME NEW new \in NewConfigs, UpdateQueueConfig(new) PROVE SemaphoreIsThere'
  BY <1>9 DEF UpdateQueueConfig
<1>10. CASE UNCHANGED vars
  BY <1>10 DEF vars
<1> QED
  BY <1>1, <1>2, <1>3, <1>4, <1>5, <1>6, <1>7, <1>8, <1>9, <1>10
  DEF AdminNext, Next, Producer, Drainer

(* What holds under an operator.                                           *)
LEMMA AdminInductive == AdminSpec => []AdminInv
<1>1. Init => AdminInv
  BY InitIInv DEF IInv
<1>2. AdminInv /\ [AdminNext]_vars => AdminInv'
  BY TypeStep, PlaceStep, OnePlaceStep, OrderStep, SemaphoreStep DEF AdminInv
<1> QED
  BY <1>1, <1>2, PTL DEF AdminSpec

(* A queue that no operator touches is one that an operator may.           *)
LEMMA NoOperator == Spec => AdminSpec
<1>1. [Next]_vars => [AdminNext]_vars
  BY DEF AdminNext
<1> QED
  BY <1>1, PTL DEF Spec, AdminSpec

(* What holds with the limits of startup.                                  *)
LEMMA Inductive == Spec => []IInv
<1>1. IInv /\ [Next]_vars /\ AdminInv' => IInv'
  BY FixedStep, PermitsStep, BoundStep DEF IInv
<1> QED
  BY InitIInv, AdminInductive, NoOperator, <1>1, PTL DEF Spec

-----------------------------------------------------------------------------
(* Every variable of the queue keeps its type, whatever the limits and     *)
(* whatever an operator changes them to (manager.py:100-205, 976-1040).    *)
THEOREM TypeCorrect == AdminSpec => []TypeOK
<1>1. AdminInv => TypeOK
  BY DEF AdminInv
<1> QED
  BY AdminInductive, <1>1, PTL

(* _run_slot() never runs more tasks at a time than QueueConfig.concurrency.*)
THEOREM CapHolds == Spec => []ConcurrencyCap
<1>1. IInv => ConcurrencyCap
  BY ConstantsAssumption, FS_CardinalityType
     DEF IInv, AdminInv, LimitsFixed, PermitsAccounted, InFlight, ConcurrencyCap, Limit
<1> QED
  BY Inductive, <1>1, PTL

(* The drainer blocks on the semaphore only while every slot is in use, so *)
(* the release that wakes it is still to come.                             *)
THEOREM NoIdleSlotHolds == Spec => []NoIdleSlot
<1>1. IInv => NoIdleSlot
  BY ConstantsAssumption, FS_CardinalityType
     DEF IInv, AdminInv, LimitsFixed, PermitsAccounted, InFlight, NoIdleSlot, Limit
<1> QED
  BY Inductive, <1>1, PTL

(* enqueue() never lets more than max_size tasks wait, but for the one the *)
(* drainer already holds.                                                  *)
THEOREM BackpressureHolds == Spec => []BackpressureCap
<1>1. IInv => BackpressureCap
  <2> SUFFICES ASSUME IInv, MaxSize # NoLimit
               PROVE  Cardinality(Waiting) <= MaxSize + 1
    BY DEF IInv, AdminInv, LimitsFixed, BackpressureCap
  <2> USE ConstantsAssumption DEF Limit
  <2>1. /\ IsFiniteSet(heap) /\ Cardinality(heap) \in Nat
        /\ MaxSize \in Nat /\ Cardinality(heap) <= MaxSize
    BY FS_CardinalityType DEF IInv, AdminInv, HeapBounded
  <2>2. CASE held = NoTask
    <3>1. Waiting = heap
      BY <2>2 DEF Waiting
    <3> QED
      BY <2>1, <3>1
  <2>3. CASE held # NoTask
    <3>1. Waiting = heap \cup {held} /\ held \notin heap
      BY <2>3 DEF Waiting, IInv, AdminInv, OnePlace
    <3>2. Cardinality(Waiting) = Cardinality(heap) + 1
      BY <2>1, <3>1, FS_AddElement
    <3> QED
      BY <2>1, <3>2
  <2> QED
    BY <2>2, <2>3
<1> QED
  BY Inductive, <1>1, PTL

(* The drainer starts tasks by priority, then by arrival, also while an    *)
(* operator replaces its semaphore under it (manager.py:997-1030).         *)
THEOREM DispatchOrderHolds == AdminSpec => []DispatchOrder
<1>1. AdminInv => DispatchOrder
  BY DEF AdminInv, TypeOK, OrderKept, DispatchOrder
<1> QED
  BY AdminInductive, <1>1, PTL

-----------------------------------------------------------------------------
(* The number of waiting tasks against the size of the heap.               *)
LEMMA WaitingCount ==
  ASSUME IInv
  PROVE  /\ IsFiniteSet(Waiting) /\ Cardinality(Waiting) \in Nat
         /\ Cardinality(heap) \in Nat
         /\ Cardinality(heap) <= Cardinality(Waiting)
         /\ Cardinality(Waiting) <= Cardinality(heap) + 1
<1>1. IsFiniteSet(heap) /\ Cardinality(heap) \in Nat
  BY FS_CardinalityType DEF IInv, AdminInv, HeapBounded
<1>2. CASE held = NoTask
  <2>1. Waiting = heap
    BY <1>2 DEF Waiting
  <2> QED
    BY <1>1, <2>1
<1>3. CASE held # NoTask
  <2>1. Waiting = heap \cup {held} /\ held \notin heap
    BY <1>3 DEF Waiting, IInv, AdminInv, OnePlace
  <2>2. IsFiniteSet(Waiting) /\ Cardinality(Waiting) = Cardinality(heap) + 1
    BY <1>1, <2>1, FS_AddElement
  <2> QED
    BY <1>1, <2>2
<1> QED
  BY <1>2, <1>3

(* Both modules count with the same operator.                              *)
LEMMA SameCount == ASSUME NEW S PROVE Promise!Cardinality(S) = Cardinality(S)
BY DEF Promise!Cardinality, Cardinality, Promise!IsFiniteSet, IsFiniteSet

(* An accepted add_task() is the abstract Accept.                          *)
LEMMA PushAccepts ==
  ASSUME IInv, NEW t \in Tasks, Fresh(t), Push(t),
         UNCHANGED <<held, running, finished>>
  PROVE  Promise!Accept(t)
<1>1. t \notin heap \cup running \cup finished \cup rejected /\ t # held
  BY ConstantsAssumption DEF IInv, AdminInv, OnePlace, Fresh
<1>2. Promise!Unseen(t)
  BY <1>1 DEF Promise!Unseen, Waiting
<1>3. MaxSize # NoLimit => Cardinality(Waiting) <= MaxSize
  BY WaitingCount, ConstantsAssumption DEF IInv, AdminInv, LimitsFixed, Push, HasRoom, Limit
<1>4. Waiting' = Waiting \cup {t}
  BY DEF Push, Waiting
<1> QED
  BY <1>2, <1>3, <1>4, SameCount DEF Promise!Accept, Push

(* A QueueFullError is the abstract Refuse.                                *)
LEMMA RejectRefuses ==
  ASSUME IInv, NEW t \in Tasks, Fresh(t), Reject(t),
         UNCHANGED <<held, running, finished>>
  PROVE  Promise!Refuse(t)
<1>1. t \notin heap \cup running \cup finished \cup rejected /\ t # held
  BY ConstantsAssumption DEF IInv, AdminInv, OnePlace, Fresh
<1>2. Promise!Unseen(t)
  BY <1>1 DEF Promise!Unseen, Waiting
<1>3. MaxSize # NoLimit /\ Cardinality(Waiting) >= MaxSize
  BY WaitingCount, ConstantsAssumption DEF IInv, AdminInv, LimitsFixed, Reject, HasRoom, Limit
<1>4. Waiting' = Waiting
  BY DEF Reject, Waiting
<1> QED
  BY <1>2, <1>3, <1>4, SameCount DEF Promise!Refuse, Reject

(* create_task(_run_slot) is the abstract Start.                           *)
LEMMA DispatchStarts ==
  ASSUME IInv, Dispatch, held # NoTask,
         Concurrency # NoLimit => Cardinality(running) < Concurrency,
         UNCHANGED rejected
  PROVE  Promise!Start(held)
<1>1. held \in Waiting /\ held \notin heap
  BY DEF Waiting, IInv, AdminInv, OnePlace
<1>2. Waiting' = Waiting \ {held}
  BY <1>1 DEF Dispatch, Waiting
<1> QED
  BY <1>1, <1>2, SameCount DEF Promise!Start, Dispatch

(* Every step of the queue is a step or a stutter of the promise.          *)
LEMMA StepKeepsPromise == IInv /\ [Next]_vars => [Promise!Next]_(Promise!vars)
<1> SUFFICES ASSUME IInv, [Next]_vars PROVE [Promise!Next]_(Promise!vars)
  OBVIOUS
<1> DEFINE Mapped == [Promise!Next]_(Promise!vars)
<1>a. ASSUME NEW t \in Tasks, Promise!Accept(t) \/ Promise!Refuse(t) \/ Promise!Start(t) \/ Promise!Finish(t)
      PROVE  Mapped
  BY <1>a DEF Promise!Next
<1>b. ASSUME Waiting' = Waiting, UNCHANGED <<running, finished, rejected>> PROVE Mapped
  BY <1>b DEF Promise!vars
<1>1. ASSUME NEW t \in Tasks, EnqueueOnLoop(t) \/ EnqueueInThread(t) PROVE Mapped
  <2>1. /\ Fresh(t) /\ UNCHANGED <<held, running, finished>>
        /\ Push(t) \/ Reject(t)
    BY <1>1 DEF EnqueueOnLoop, EnqueueInThread, drainerVars, slotVars
  <2> QED
    BY <2>1, <1>a, PushAccepts, RejectRefuses
<1>2. CASE Pop
  <2>1. PICK t \in heap : heap' = heap \ {t} /\ held' = t
    BY <1>2 DEF Pop
  <2>2. held = NoTask /\ t # NoTask
    BY <1>2, <2>1, ConstantsAssumption DEF IInv, AdminInv, TypeOK, HeldWhere, Pop
  <2>3. Waiting' = Waiting
    BY <2>1, <2>2 DEF Waiting
  <2> QED
    BY <1>2, <1>b, <2>3 DEF Pop, producerVars, slotVars
<1>3. CASE AcquireSlot
  <2>1. held # NoTask /\ held \in Tasks
    BY <1>3 DEF AcquireSlot, IInv, AdminInv, TypeOK, HeldWhere
  <2>2. Concurrency # NoLimit => Cardinality(running) < Concurrency
    BY <1>3, ConstantsAssumption, FS_CardinalityType
       DEF AcquireSlot, IInv, AdminInv, PermitsAccounted, InFlight, Limit
  <2>3. Dispatch /\ UNCHANGED rejected
    BY <1>3 DEF AcquireSlot, Dispatch, producerVars
  <2> QED
    BY <1>a, <2>1, <2>2, <2>3, DispatchStarts
<1>4. CASE ResumeWithSlot
  <2>1. held # NoTask /\ held \in Tasks
    BY <1>4 DEF ResumeWithSlot, IInv, AdminInv, TypeOK, HeldWhere
  <2>2. Concurrency # NoLimit => Cardinality(running) < Concurrency
    BY <1>4, ConstantsAssumption, FS_CardinalityType
       DEF ResumeWithSlot, IInv, AdminInv, PermitsAccounted, InFlight, Limit
  <2>3. Dispatch /\ UNCHANGED rejected
    BY <1>4 DEF ResumeWithSlot, Dispatch, producerVars
  <2> QED
    BY <1>a, <2>1, <2>2, <2>3, DispatchStarts
<1>5. ASSUME NEW t \in Tasks, FinishTask(t) PROVE Mapped
  <2>1. Waiting' = Waiting /\ UNCHANGED rejected
    BY <1>5 DEF FinishTask, LeaveSlot, Waiting, drainerVars, producerVars
  <2>2. Promise!Finish(t)
    BY <1>5, <2>1 DEF FinishTask, LeaveSlot, Promise!Finish
  <2> QED
    BY <1>a, <2>2
<1>6. ASSUME \/ \E t \in Tasks : SignalFromThread(t)
             \/ WaitForWork \/ FallAsleep \/ WakeUp \/ FindEmpty \/ BlockOnSlot
             \/ CancelDrainer \/ CloseQueue \/ UNCHANGED vars
      PROVE  Mapped
  <2>1. UNCHANGED <<heap, held, running, finished, rejected>>
    BY <1>6 DEF SignalFromThread, WaitForWork, FallAsleep, WakeUp, FindEmpty,
                BlockOnSlot, CancelDrainer, CloseQueue, vars, producerVars,
                drainerVars, slotVars
  <2> QED
    BY <1>b, <2>1 DEF Waiting
<1> QED
  BY <1>1, <1>2, <1>3, <1>4, <1>5, <1>6 DEF Next, Producer, Drainer

(* The queue implements what the guide promises: accept or refuse at once, *)
(* run at most `concurrency' tasks together, start each accepted task once.*)
THEOREM Implements == Spec => KeepsPromise
<1>1. Init => Promise!Init
  BY DEF Init, Promise!Init, Waiting
<1> QED
  BY Inductive, <1>1, StepKeepsPromise, PTL DEF Spec, KeepsPromise, Promise!Spec

-----------------------------------------------------------------------------
(* The event has_work, when every handler runs on the event loop: a set()  *)
(* from a pool thread may come between the drainer's look at the flag and  *)
(* its sleep.                                                              *)
AllOnLoop == LoopTasks = Tasks

(* Nothing waits in the heap while the drainer goes to sleep unless the    *)
(* flag says so.                                                           *)
FlagTells ==
  /\ signalling = {}
  /\ pc \in {"ready", "start", "arming", "asleep"} /\ heap # {} => hasWork
  /\ pc \in {"arming", "asleep"} => ~hasWork

LEMMA FlagStep == AllOnLoop /\ FlagTells /\ [AdminNext]_vars => FlagTells'
<1> SUFFICES ASSUME AllOnLoop, FlagTells, [AdminNext]_vars PROVE FlagTells'
  OBVIOUS
<1> USE DEF FlagTells, AtAwait, slotVars
<1>1. ASSUME NEW t \in Tasks, EnqueueOnLoop(t) PROVE FlagTells'
  BY <1>1 DEF EnqueueOnLoop, Push, Reject, SetHasWork
<1>2. ASSUME NEW t \in Tasks, EnqueueInThread(t) \/ SignalFromThread(t) PROVE FlagTells'
  BY <1>2 DEF EnqueueInThread, SignalFromThread, AllOnLoop
<1>3. CASE WaitForWork
  BY <1>3 DEF WaitForWork
<1>4. CASE FallAsleep \/ WakeUp
  BY <1>4 DEF FallAsleep, WakeUp
<1>5. CASE FindEmpty
  BY <1>5 DEF FindEmpty
<1>6. CASE Pop \/ BlockOnSlot
  BY <1>6 DEF Pop, BlockOnSlot
<1>7. CASE AcquireSlot \/ ResumeWithSlot
  BY <1>7 DEF AcquireSlot, ResumeWithSlot, Dispatch
<1>8. ASSUME NEW t \in Tasks, FinishTask(t) PROVE FlagTells'
  BY <1>8 DEF FinishTask, LeaveSlot
<1>9. CASE CancelDrainer \/ CloseQueue
  BY <1>9 DEF CancelDrainer, CloseQueue
<1>10. ASSUME NEW new \in NewConfigs, UpdateQueueConfig(new) PROVE FlagTells'
  BY <1>10 DEF UpdateQueueConfig, producerVars
<1>11. CASE UNCHANGED vars
  BY <1>11 DEF vars
<1> QED
  BY <1>1, <1>2, <1>3, <1>4, <1>5, <1>6, <1>7, <1>8, <1>9, <1>10, <1>11
  DEF AdminNext, Next, Producer, Drainer

(* The drainer never sleeps past an accepted task, when every handler is a *)
(* coroutine, whatever an operator does (manager.py:150-205).              *)
THEOREM NoLostWakeupHolds == AllOnLoop /\ AdminSpec => []NoLostWakeup
<1>1. Init => FlagTells
  BY DEF Init, FlagTells
<1>2. AllOnLoop => AllOnLoop'
  BY DEF AllOnLoop
<1>3. FlagTells => NoLostWakeup
  BY DEF FlagTells, NoLostWakeup
<1> QED
  BY <1>1, <1>2, <1>3, FlagStep, PTL DEF AdminSpec
=============================================================================
