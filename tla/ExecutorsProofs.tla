---------------------------- MODULE ExecutorsProofs ----------------------------
(***************************************************************************)
(* What holds of the executors for every number of tasks: of the semaphore *)
(* and the thread pools (Executors), and of the process pool               *)
(* (ProcessPool).                                                          *)
(*                                                                         *)
(* No cancellation loses a slot of max_concurrent_tasks or makes one: the  *)
(* list of waiters is exactly the tasks that wait and are not cancelled,   *)
(* so that every waiter that is woken takes one slot with it, and whoever  *)
(* leaves hands on as many slots as it had.                                *)
(*                                                                         *)
(* The wait for the dedicated pool ends with nothing left in it: some      *)
(* thread serves the pool once there is a call, the call that ends the     *)
(* threads is the last one, and a thread only ends when nothing is before  *)
(* it.  In the default pool nothing is left to begin when it is closed.    *)
(*                                                                         *)
(* A process pool that was reported to be reset is never used again, and a *)
(* shutdown that has drained leaves no call behind it, except in a pool    *)
(* that was given up though it was whole: a call that may still run is in  *)
(* the current pool, in one that was given up whole, or in the one that    *)
(* the shutdown waits for or has stopped to wait for; never in a broken    *)
(* one.                                                                    *)
(***************************************************************************)
EXTENDS Executors, ProcessPool, SequenceTheorems, FiniteSetTheorems, TLAPS

-----------------------------------------------------------------------------
(* The inductive invariant.                                                *)

(* The tasks that have a slot of the semaphore, or are woken with one.     *)
Holding == {t \in Tasks : at[t] \in {"granted", "running"} /\ kind[t] = "async"}

(* Who waits for a slot and can still be woken is in the list of waiters,  *)
(* once, and nobody else is.                                               *)
WaitersListed ==
  /\ \A i, j \in DOMAIN waiters : waiters[i] = waiters[j] => i = j
  /\ \A i \in DOMAIN waiters : at[waiters[i]] = "waiting" /\ waiters[i] \notin cancelling
  /\ \A t \in Tasks : at[t] = "waiting" /\ t \notin cancelling =>
                        \E i \in DOMAIN waiters : waiters[i] = t

(* Only coroutines take slots.                                             *)
CoroutinesOnly ==
  \A t \in Tasks : at[t] \in {"waiting", "granted", "running"} => kind[t] = "async"

(* Something serves the pool as soon as there is a call in it.             *)
Served ==
  /\ idle > 0 => \E w \in Threads : th[w] # "none"
  /\ (\E i \in DOMAIN calls : calls[i] # Quit) => \E w \in Threads : th[w] # "none"

(* The call that ends the threads comes last; only the last call that is   *)
(* left makes a thread of the dedicated pool end.                          *)
QuitLast ==
  /\ phase \in {"up", "stopping"} =>
       /\ \A w \in Threads : th[w] # "gone"
       /\ \A i \in DOMAIN calls : calls[i] # Quit
  /\ phase \in {"joining", "closed"} /\ dedicated =>
       /\ calls # <<>>
       /\ \A i \in DOMAIN calls : calls[i] = Quit <=> i = Len(calls)
       /\ (\E w \in Threads : th[w] = "gone") => Len(calls) = 1
  /\ phase = "joining" => dedicated
  /\ phase = "closed" /\ ~ dedicated => \A i \in DOMAIN calls : calls[i] = Quit

(* A task is in the priority queue once, and only before it begins.        *)
QueueListed ==
  /\ \A i, j \in DOMAIN queued : queued[i] = queued[j] => i = j
  /\ \A i \in DOMAIN queued : at[queued[i]] = "queued"

SlotsOK ==
  /\ kind \in Kinds /\ cancelling \subseteq Tasks
  /\ at \in [Tasks -> Places]
  /\ free \in 0 .. Slots /\ waiters \in Seq(Tasks)
  /\ inner \in [Tasks -> {"none", "running", "stopping", "ended", "stopped"}]
  /\ IsFiniteSet(Holding)
  /\ SlotsKept /\ WaitersListed /\ CoroutinesOnly

PoolOK ==
  /\ dedicated \in BOOLEAN
  /\ phase \in {"up", "stopping", "joining", "closed"}
  /\ calls \in Seq({Quit} \cup Tasks)
  /\ dropped \subseteq Tasks /\ replied \subseteq Tasks
  /\ idle \in Nat
  /\ th \in [Threads -> ThreadStates \cup Tasks]
  /\ Served /\ QuitLast /\ PoolIsEmpty

QueueOK == queued \in Seq(Tasks) /\ QueueListed

IInv == QueueOK /\ SlotsOK /\ PoolOK

WorkerTyped == worker \in {"ready", "asleep"}

(* The type invariant is a part of it.                                     *)
LEMMA Typed == IInv /\ WorkerTyped => TypeOK
  BY DEF IInv, WorkerTyped, QueueOK, SlotsOK, PoolOK, TypeOK

(* Init establishes it.                                                    *)
LEMMA InitIInv == Init => IInv
<1> SUFFICES ASSUME Init PROVE IInv
  OBVIOUS
<1> USE ExecutorsAssumption DEF ExecutorsAssumption
<1>1. Holding = {}
  BY DEF Init, Holding
<1>2. IsFiniteSet(Holding) /\ Cardinality(Holding) = 0
  BY <1>1, FS_EmptySet
<1>3. SlotsKept
  BY <1>2 DEF Init, SlotsKept, Holding
<1>4. WaitersListed /\ CoroutinesOnly
  BY DEF Init, WaitersListed, CoroutinesOnly
<1>5. SlotsOK
  BY <1>2, <1>3, <1>4 DEF Init, SlotsOK, Places
<1>6. PoolOK
  BY DEF Init, PoolOK, ThreadStates, Served, QuitLast, PoolIsEmpty
<1>. QED BY <1>5, <1>6 DEF Init, IInv, QueueOK, QueueListed

-----------------------------------------------------------------------------
(* The semaphore.                                                          *)

(* What is left of a sequence without its first k elements.                *)
LEMMA Suffix ==
  ASSUME NEW S, NEW s \in Seq(S), NEW k \in 0 .. Len(s)
  PROVE  /\ SubSeq(s, k + 1, Len(s)) \in Seq(S)
         /\ Len(SubSeq(s, k + 1, Len(s))) = Len(s) - k
         /\ DOMAIN SubSeq(s, k + 1, Len(s)) = 1 .. Len(s) - k
         /\ \A j \in 1 .. Len(s) - k :
               k + j \in DOMAIN s /\ SubSeq(s, k + 1, Len(s))[j] = s[k + j]
<1>1. Len(s) \in Nat /\ DOMAIN s = 1 .. Len(s) /\ k \in Nat /\ k <= Len(s)
  OBVIOUS
<1>2. \A i \in k + 1 .. Len(s) : s[i] \in S
  BY <1>1
<1>3. /\ SubSeq(s, k + 1, Len(s)) \in Seq(S)
      /\ Len(SubSeq(s, k + 1, Len(s))) =
           IF k + 1 <= Len(s) THEN Len(s) - (k + 1) + 1 ELSE 0
      /\ \A j \in 1 .. Len(s) - (k + 1) + 1 :
            SubSeq(s, k + 1, Len(s))[j] = s[(k + 1) + j - 1]
  BY <1>1, <1>2, SubSeqProperties
<1>4. \A l \in Nat : k <= l => (IF k + 1 <= l THEN l - (k + 1) + 1 ELSE 0) = l - k
  BY <1>1
<1>5. Len(SubSeq(s, k + 1, Len(s))) = Len(s) - k
  BY <1>1, <1>3, <1>4
<1>6. \A j \in 1 .. Len(s) - k : k + j = (k + 1) + j - 1 /\ k + j \in 1 .. Len(s)
  BY <1>1
<1>7. Len(s) - (k + 1) + 1 = Len(s) - k
  BY <1>1
<1>8. DOMAIN SubSeq(s, k + 1, Len(s)) = 1 .. Len(s) - k
  BY <1>3, <1>5
<1>. QED BY <1>1, <1>3, <1>5, <1>6, <1>7, <1>8

(* What is left when one element is taken out of a sequence.               *)
LEMMA RemovedAt ==
  ASSUME NEW S, NEW s \in Seq(S), NEW i \in DOMAIN s
  PROVE  /\ RemoveAt(s, i) \in Seq(S)
         /\ Len(RemoveAt(s, i)) = Len(s) - 1
         /\ \A j \in 1 .. Len(s) - 1 :
               RemoveAt(s, i)[j] = IF j < i THEN s[j] ELSE s[j + 1]
<1> DEFINE before == SubSeq(s, 1, i - 1)
           after == SubSeq(s, i + 1, Len(s))
<1>1. i \in 1 .. Len(s) /\ Len(s) \in Nat
  OBVIOUS
<1>2. /\ before \in Seq(S) /\ Len(before) = i - 1
      /\ \A j \in 1 .. i - 1 : before[j] = s[j]
  BY <1>1
<1>3. /\ after \in Seq(S) /\ Len(after) = Len(s) - i
      /\ \A j \in 1 .. Len(s) - i : after[j] = s[j + i]
  BY <1>1
<1> HIDE DEF before, after
<1>4. /\ before \o after \in Seq(S)
      /\ Len(before \o after) = Len(s) - 1
      /\ \A j \in 1 .. Len(s) - 1 :
            (before \o after)[j] = IF j <= i - 1 THEN before[j] ELSE after[j - (i - 1)]
  <2>1. before \o after \in Seq(S) /\ Len(before \o after) = Len(before) + Len(after)
    BY <1>2, <1>3, ConcatProperties
  <2>2. \A j \in 1 .. Len(before) + Len(after) :
          (before \o after)[j] = IF j <= Len(before) THEN before[j] ELSE after[j - Len(before)]
    BY <1>2, <1>3, ConcatProperties
  <2>3. Len(before) = i - 1 /\ Len(before) + Len(after) = Len(s) - 1
    BY <1>1, <1>2, <1>3
  <2>. QED BY <2>1, <2>2, <2>3
<1>5. ASSUME NEW j \in 1 .. Len(s) - 1
      PROVE  (before \o after)[j] = IF j < i THEN s[j] ELSE s[j + 1]
  <2>1. CASE j < i
    BY <1>1, <1>2, <1>4, <2>1
  <2>2. CASE ~ (j < i)
    <3>1. j - (i - 1) \in 1 .. Len(s) - i /\ (j - (i - 1)) + i = j + 1
      BY <1>1, <2>2
    <3>2. ~(j <= i - 1)
      BY <1>1, <2>2
    <3>3. (before \o after)[j] = after[j - (i - 1)]
      BY <1>4, <3>2
    <3>4. after[j - (i - 1)] = s[j + 1]
      BY <1>3, <3>1
    <3>. QED BY <2>2, <3>3, <3>4
  <2>. QED BY <2>1, <2>2
<1>6. RemoveAt(s, i) = before \o after
  BY DEF RemoveAt, before, after
<1>. QED BY <1>4, <1>5, <1>6

(* The first k waiters are k tasks.                                        *)
LEMMA WokenCount ==
  ASSUME waiters \in Seq(Tasks), \A i, j \in DOMAIN waiters : waiters[i] = waiters[j] => i = j,
         NEW k \in 0 .. Len(waiters)
  PROVE  /\ IsFiniteSet({waiters[i] : i \in 1 .. k})
         /\ Cardinality({waiters[i] : i \in 1 .. k}) = k
<1> DEFINE W == {waiters[i] : i \in 1 .. k}
           f == [i \in 1 .. k |-> waiters[i]]
<1>1. 1 .. k \subseteq DOMAIN waiters /\ Len(waiters) \in Nat
  OBVIOUS
<1>2. f \in Bijection(1 .. k, W)
  BY <1>1 DEF Bijection, Injection, Surjection, IsInjective
<1>3. IsFiniteSet(1 .. k) /\ Cardinality(1 .. k) = k
  BY <1>1, FS_Interval
<1>. QED BY <1>2, <1>3, FS_Bijection DEF ExistsBijection

(* The first k waiters are woken, with slots of the n that there are.      *)
Woken(k) == {waiters[i] : i \in 1 .. k}

Wakes(t, place, n, k) ==
  /\ k <= n
  /\ free' = n - k
  /\ waiters' = SubSeq(waiters, k + 1, Len(waiters))
  /\ at' = [u \in Tasks |-> IF u = t THEN place
                            ELSE IF u \in Woken(k) THEN "granted" ELSE at[u]]

(* Leave(): as many waiters are woken as slots go to them.                 *)
LEMMA LeaveWakes ==
  ASSUME waiters \in Seq(Tasks), NEW t, NEW place, NEW n \in Nat, NEW most \in Nat,
         Leave(t, place, n, most)
  PROVE  \E k \in 0 .. Len(waiters) : Wakes(t, place, n, k)
<1> DEFINE P(k) == /\ k <= most /\ k <= Len(waiters)
                   /\ k = n \/ k = most \/ k = Len(waiters)
           k0 == CHOOSE k \in 0 .. n : P(k)
<1>1. Len(waiters) \in Nat
  OBVIOUS
<1>2. \E k \in 0 .. n : P(k)
  <2>1. CASE n <= most /\ n <= Len(waiters)
    BY <1>1, <2>1
  <2>2. CASE most <= n /\ most <= Len(waiters)
    BY <1>1, <2>2
  <2>3. CASE Len(waiters) <= n /\ Len(waiters) <= most
    BY <1>1, <2>3
  <2>. QED BY <1>1, <2>1, <2>2, <2>3
<1>3. k0 \in 0 .. n /\ P(k0)
  BY <1>2
<1>4. k0 \in 0 .. Len(waiters) /\ k0 <= n
  BY <1>1, <1>3
<1>5. Wakes(t, place, n, k0)
  BY <1>4 DEF Leave, Wakes, Woken
<1> HIDE DEF k0
<1>. QED BY <1>4, <1>5

(* The other waiters move up.                                              *)
LEMMA WakesRest ==
  ASSUME waiters \in Seq(Tasks), NEW t, NEW place, NEW n, NEW k \in 0 .. Len(waiters),
         Wakes(t, place, n, k)
  PROVE  /\ waiters' \in Seq(Tasks) /\ Len(waiters') = Len(waiters) - k
         /\ DOMAIN waiters' = 1 .. Len(waiters) - k
         /\ \A j \in 1 .. Len(waiters) - k : k + j \in DOMAIN waiters /\ waiters'[j] = waiters[k + j]
<1> DEFINE rest == SubSeq(waiters, k + 1, Len(waiters))
<1>1. /\ rest \in Seq(Tasks) /\ Len(rest) = Len(waiters) - k
      /\ DOMAIN rest = 1 .. Len(waiters) - k
      /\ \A j \in 1 .. Len(waiters) - k : k + j \in DOMAIN waiters /\ rest[j] = waiters[k + j]
  BY Suffix
<1>2. waiters' = rest
  BY DEF Wakes
<1> HIDE DEF rest
<1>. QED BY <1>1, <1>2

(* A task that leaves its place in the semaphore hands its slots on: what  *)
(* is free and what is held still make up max_concurrent_tasks.            *)
LEMMA LeaveKeepsSlots ==
  ASSUME SlotsOK,
         NEW t \in Tasks, kind[t] = "async", \A i \in DOMAIN waiters : waiters[i] # t,
         NEW place \in {"running", "done", "cancelled"}, NEW n \in Nat, NEW most \in Nat,
         Leave(t, place, n, most),
         n + Cardinality((Holding \ {t}) \cup (IF place = "running" THEN {t} ELSE {})) = Slots,
         inner' \in [Tasks -> {"none", "running", "stopping", "ended", "stopped"}],
         \A u \in Tasks : u # t => inner'[u] = inner[u],
         inner'[t] # "none" => place = "running",
         cancelling' \in {cancelling, cancelling \ {t}}, UNCHANGED kind
  PROVE  SlotsOK'
<1>1. /\ waiters \in Seq(Tasks) /\ Len(waiters) \in Nat /\ DOMAIN waiters = 1 .. Len(waiters)
      /\ at \in [Tasks -> Places]
      /\ \A i \in DOMAIN waiters : waiters[i] \in Tasks
      /\ IsFiniteSet(Holding) /\ SlotsKept /\ WaitersListed /\ CoroutinesOnly
  BY DEF SlotsOK
<1>2. PICK k \in 0 .. Len(waiters) : Wakes(t, place, n, k)
  BY <1>1, LeaveWakes
<1> DEFINE W == Woken(k)
           H == (Holding \ {t}) \cup (IF place = "running" THEN {t} ELSE {})
<1>0. /\ \A i, j \in DOMAIN waiters : waiters[i] = waiters[j] => i = j
      /\ \A i \in DOMAIN waiters : at[waiters[i]] = "waiting" /\ waiters[i] \notin cancelling
      /\ \A u \in Tasks : at[u] = "waiting" /\ u \notin cancelling =>
                            \E i \in DOMAIN waiters : waiters[i] = u
  BY <1>1 DEF WaitersListed
<1>3. IsFiniteSet(W) /\ Cardinality(W) = k
  BY <1>1, <1>0, WokenCount DEF Woken
<1>4. IsFiniteSet(H)
  <2>1. IsFiniteSet(Holding \ {t})
    BY <1>1, FS_RemoveElement
  <2>2. IsFiniteSet((Holding \ {t}) \cup {t})
    BY <2>1, FS_AddElement
  <2>3. (Holding \ {t}) \cup {} = Holding \ {t}
    OBVIOUS
  <2>. QED BY <2>1, <2>2, <2>3
<1>5. \A u \in W : u \in Tasks /\ u # t /\ at[u] = "waiting" /\ u \notin cancelling
                   /\ kind[u] = "async"
  <2> SUFFICES ASSUME NEW i \in 1 .. k
               PROVE  /\ waiters[i] \in Tasks /\ waiters[i] # t /\ at[waiters[i]] = "waiting"
                      /\ waiters[i] \notin cancelling /\ kind[waiters[i]] = "async"
    BY DEF Woken
  <2>1. i \in DOMAIN waiters
    BY <1>1
  <2>. QED BY <1>0, <1>1, <2>1 DEF CoroutinesOnly
<1>6. H \cap W = {}
  BY <1>5 DEF Holding
<1>7. /\ at'[t] = place
      /\ \A u \in Tasks : u # t => at'[u] = (IF u \in W THEN "granted" ELSE at[u])
  BY <1>2 DEF Wakes
<1>8. at' \in [Tasks -> Places]
  BY <1>1, <1>2 DEF Places, Wakes
<1>9. Holding' = H \cup W
  <2>1. ASSUME NEW u \in Tasks PROVE u \in Holding' <=> u \in H \cup W
    <3>1. CASE u = t
      BY <1>5, <1>7, <3>1 DEF Holding
    <3>2. CASE u # t
      BY <1>5, <1>7, <3>2 DEF Holding
    <3>. QED BY <3>1, <3>2
  <2>2. H \cup W \subseteq Tasks /\ Holding' \subseteq Tasks
    BY <1>5 DEF Holding
  <2>. QED BY <2>1, <2>2
<1>10. IsFiniteSet(H \cup W) /\ Cardinality(H \cup W) = Cardinality(H) + k
  <2>1. Cardinality(H \cap W) = 0
    BY <1>6, FS_EmptySet
  <2>2. Cardinality(H) \in Nat /\ Cardinality(W) \in Nat
    BY <1>3, <1>4, FS_CardinalityType
  <2>3. /\ IsFiniteSet(H \cup W)
        /\ Cardinality(H \cup W) = Cardinality(H) + Cardinality(W) - Cardinality(H \cap W)
    <3> HIDE DEF H, W
    <3>. QED BY <1>3, <1>4, FS_Union
  <2> HIDE DEF H, W
  <2>. QED BY <1>3, <2>1, <2>2, <2>3
<1>11. Cardinality(H) \in Nat
  BY <1>4, FS_CardinalityType
<1>12. free' \in 0 .. Slots /\ free' + Cardinality(Holding') = Slots
  <2>1. n + Cardinality(H) = Slots
    OBVIOUS
  <2>2. free' = n - k /\ k <= n /\ k \in Nat
    BY <1>1, <1>2 DEF Wakes
  <2> HIDE DEF H, W
  <2>. QED BY <1>9, <1>10, <1>11, <2>1, <2>2
<1>13. \A u \in Tasks : inner'[u] # "none" => at'[u] = "running"
  BY <1>1, <1>5, <1>7 DEF SlotsKept
<1>14. SlotsKept' /\ IsFiniteSet(Holding)'
  BY <1>9, <1>10, <1>12, <1>13 DEF SlotsKept, Holding
<1>15. CoroutinesOnly'
  BY <1>1, <1>5, <1>7 DEF CoroutinesOnly
<1>16. /\ waiters' \in Seq(Tasks) /\ Len(waiters') = Len(waiters) - k
       /\ DOMAIN waiters' = 1 .. Len(waiters) - k
       /\ \A j \in 1 .. Len(waiters) - k : k + j \in DOMAIN waiters /\ waiters'[j] = waiters[k + j]
  <2>1. waiters \in Seq(Tasks) /\ k \in 0 .. Len(waiters) /\ Wakes(t, place, n, k)
    BY <1>1, <1>2
  <2>. QED BY ONLY <2>1, WakesRest
<1>17. WaitersListed'
  <2>1. \A i, j \in DOMAIN waiters' : waiters'[i] = waiters'[j] => i = j
    <3> SUFFICES ASSUME NEW i \in DOMAIN waiters', NEW j \in DOMAIN waiters',
                        waiters'[i] = waiters'[j]
                 PROVE  i = j
      OBVIOUS
    <3>1. /\ k + i \in DOMAIN waiters /\ k + j \in DOMAIN waiters
          /\ waiters[k + i] = waiters[k + j]
      BY <1>16
    <3>2. k + i = k + j
      BY <1>0, <3>1
    <3>. QED BY <1>1, <1>2, <1>16, <3>2
  <2>2. \A i \in DOMAIN waiters' : waiters'[i] \notin W
    <3> SUFFICES ASSUME NEW i \in DOMAIN waiters', NEW j \in 1 .. k, waiters'[i] = waiters[j]
                 PROVE  FALSE
      BY DEF Woken
    <3>0. \A m \in Nat : k \in 0 .. m => 1 .. k \subseteq 1 .. m
      OBVIOUS
    <3>1. j \in DOMAIN waiters /\ k + i \in DOMAIN waiters /\ waiters[k + i] = waiters[j]
      BY <1>1, <1>2, <1>16, <3>0
    <3>2. k + i = j
      BY <1>0, <3>1
    <3>. QED BY <1>1, <1>2, <1>16, <3>2
  <2>3. \A i \in DOMAIN waiters' : at'[waiters'[i]] = "waiting" /\ waiters'[i] \notin cancelling'
    <3> SUFFICES ASSUME NEW i \in DOMAIN waiters'
                 PROVE  at'[waiters'[i]] = "waiting" /\ waiters'[i] \notin cancelling'
      OBVIOUS
    <3>1. k + i \in DOMAIN waiters /\ waiters'[i] = waiters[k + i] /\ waiters'[i] \notin W
      BY <1>16, <2>2
    <3>2. waiters'[i] \in Tasks /\ waiters'[i] # t
          /\ at[waiters'[i]] = "waiting" /\ waiters'[i] \notin cancelling
      BY <1>0, <1>1, <3>1
    <3>. QED BY <1>7, <3>1, <3>2
  <2>4. ASSUME NEW u \in Tasks, at'[u] = "waiting", u \notin cancelling'
        PROVE  \E i \in DOMAIN waiters' : waiters'[i] = u
    <3>1. u # t /\ u \notin W /\ at[u] = "waiting" /\ u \notin cancelling
      BY <1>7, <2>4
    <3>2. PICK i \in DOMAIN waiters : waiters[i] = u
      BY <1>0, <3>1
    <3>3. i \notin 1 .. k
      BY <3>1, <3>2 DEF Woken
    <3>4. i - k \in 1 .. Len(waiters) - k /\ k + (i - k) = i
      BY <1>1, <3>2, <3>3
    <3>. QED BY <1>16, <3>2, <3>4
  <2>. QED BY <2>1, <2>3, <2>4 DEF WaitersListed
<1>18. kind' \in Kinds /\ cancelling' \subseteq Tasks
  BY DEF SlotsOK
<1>. QED BY <1>8, <1>12, <1>14, <1>15, <1>16, <1>17, <1>18 DEF SlotsOK

InSemaphore == {"waiting", "granted", "running"}

(* What a step does to tasks outside of the semaphore, and the progress of *)
(* a coroutine inside, changes no slot.                                    *)
LEMMA SlotsFrame ==
  ASSUME SlotsOK, UNCHANGED <<kind, free, waiters>>,
         at' \in [Tasks -> Places], cancelling' \subseteq Tasks,
         inner' \in [Tasks -> {"none", "running", "stopping", "ended", "stopped"}],
         \A u \in Tasks : inner'[u] = "none" <=> inner[u] = "none",
         \A u \in Tasks : at[u] \in InSemaphore \/ at'[u] \in InSemaphore => at'[u] = at[u],
         \A u \in Tasks : at[u] = "waiting" => (u \in cancelling' <=> u \in cancelling)
  PROVE  SlotsOK'
<1> USE DEF InSemaphore
<1>1. Holding' = Holding
  BY DEF Holding
<1>2. \A i \in DOMAIN waiters : waiters[i] \in Tasks
  BY DEF SlotsOK
<1>3. SlotsKept'
  BY <1>1 DEF SlotsOK, SlotsKept, Holding
<1>4. WaitersListed'
  BY <1>2 DEF SlotsOK, WaitersListed
<1>5. CoroutinesOnly'
  BY DEF SlotsOK, CoroutinesOnly
<1>. QED BY <1>1, <1>3, <1>4, <1>5 DEF SlotsOK

(* The steps of a task that takes a slot, waits for one or gives one back. *)
LEMMA SlotSteps ==
  ASSUME SlotsOK, NEW t \in Tasks,
         \/ Acquire(t) \/ Wait(t) \/ Resume(t) \/ GiveUp(t) \/ Release(t) \/ CancelWaiting(t)
  PROVE  SlotsOK'
<1>1. /\ waiters \in Seq(Tasks) /\ Len(waiters) \in Nat /\ DOMAIN waiters = 1 .. Len(waiters)
      /\ at \in [Tasks -> Places] /\ free \in 0 .. Slots
      /\ inner \in [Tasks -> {"none", "running", "stopping", "ended", "stopped"}]
      /\ cancelling \subseteq Tasks
      /\ \A i \in DOMAIN waiters : waiters[i] \in Tasks
      /\ \A i, j \in DOMAIN waiters : waiters[i] = waiters[j] => i = j
      /\ \A i \in DOMAIN waiters : at[waiters[i]] = "waiting" /\ waiters[i] \notin cancelling
      /\ \A u \in Tasks : at[u] = "waiting" /\ u \notin cancelling =>
                            \E i \in DOMAIN waiters : waiters[i] = u
      /\ \A u \in Tasks : at[u] \in {"waiting", "granted", "running"} => kind[u] = "async"
  BY DEF SlotsOK, WaitersListed, CoroutinesOnly
<1>2. /\ Slots \in Nat /\ IsFiniteSet(Holding) /\ Cardinality(Holding) \in Nat
      /\ free + Cardinality(Holding) = Slots
      /\ \A u \in Tasks : inner[u] # "none" => at[u] = "running"
  BY ExecutorsAssumption, FS_CardinalityType DEF ExecutorsAssumption, SlotsOK, SlotsKept, Holding
<1>3. CASE Acquire(t)
  <2>1. /\ kind[t] = "async" /\ at[t] = "created" /\ free > 0 /\ free' = free - 1
        /\ at' = [at EXCEPT ![t] = "running"] /\ inner' = [inner EXCEPT ![t] = "running"]
        /\ UNCHANGED <<kind, cancelling, waiters>>
    BY <1>3 DEF Acquire, CanAcquire, loopVars
  <2>2. t \notin Holding /\ Holding' = Holding \cup {t}
    BY <1>1, <2>1 DEF Holding
  <2>3. IsFiniteSet(Holding') /\ Cardinality(Holding') = Cardinality(Holding) + 1
    BY <1>2, <2>2, FS_AddElement
  <2>4. free' \in 0 .. Slots /\ free' + Cardinality(Holding') = Slots
    BY <1>1, <1>2, <2>1, <2>3
  <2>5. at' \in [Tasks -> Places]
        /\ inner' \in [Tasks -> {"none", "running", "stopping", "ended", "stopped"}]
    BY <1>1, <2>1 DEF Places
  <2>6. \A u \in Tasks : inner'[u] # "none" => at'[u] = "running"
    BY <1>1, <1>2, <2>1
  <2>7. SlotsKept'
    BY <2>4, <2>6 DEF SlotsKept, Holding
  <2>8. WaitersListed'
    BY <1>1, <2>1 DEF WaitersListed
  <2>9. CoroutinesOnly'
    BY <1>1, <2>1 DEF CoroutinesOnly
  <2>. QED BY <1>1, <2>1, <2>3, <2>4, <2>5, <2>7, <2>8, <2>9 DEF SlotsOK
<1>4. CASE Wait(t)
  <2>1. /\ kind[t] = "async" /\ at[t] = "created" /\ t \notin cancelling
        /\ waiters' = Append(waiters, t) /\ at' = [at EXCEPT ![t] = "waiting"]
        /\ UNCHANGED <<kind, cancelling, free, inner>>
    BY <1>4 DEF Wait, loopVars
  <2>2. Holding' = Holding
    BY <1>1, <2>1 DEF Holding
  <2>3. at' \in [Tasks -> Places] /\ at'[t] = "waiting" /\ \A u \in Tasks \ {t} : at'[u] = at[u]
    BY <1>1, <2>1 DEF Places
  <2>4. SlotsKept'
    BY <1>2, <2>1, <2>2, <2>3 DEF SlotsKept, Holding
  <2>5. /\ waiters' \in Seq(Tasks) /\ DOMAIN waiters' = 1 .. Len(waiters) + 1
        /\ waiters'[Len(waiters) + 1] = t
        /\ \A i \in 1 .. Len(waiters) : waiters'[i] = waiters[i]
    BY <1>1, <2>1
  <2>6. \A i \in DOMAIN waiters' : i \in DOMAIN waiters \/ i = Len(waiters) + 1
    BY <1>1, <2>5
  <2>7. \A i \in DOMAIN waiters : waiters[i] # t
    BY <1>1, <2>1
  <2>8. \A i, j \in DOMAIN waiters' : waiters'[i] = waiters'[j] => i = j
    BY <1>1, <2>5, <2>6, <2>7
  <2>9. \A i \in DOMAIN waiters' : at'[waiters'[i]] = "waiting" /\ waiters'[i] \notin cancelling'
    <3> SUFFICES ASSUME NEW i \in DOMAIN waiters'
                 PROVE  at'[waiters'[i]] = "waiting" /\ waiters'[i] \notin cancelling
      BY <2>1
    <3>1. CASE i \in DOMAIN waiters
      BY <1>1, <2>3, <2>5, <2>7, <3>1
    <3>2. CASE i = Len(waiters) + 1
      BY <2>1, <2>3, <2>5, <3>2
    <3>. QED BY <2>6, <3>1, <3>2
  <2>10. ASSUME NEW u \in Tasks, at'[u] = "waiting", u \notin cancelling'
         PROVE  \E i \in DOMAIN waiters' : waiters'[i] = u
    <3>1. CASE u = t
      <4>1. Len(waiters) + 1 \in DOMAIN waiters'
        BY <1>1, <2>5
      <4>. QED BY <2>5, <3>1, <4>1
    <3>2. CASE u # t
      <4>1. PICK i \in DOMAIN waiters : waiters[i] = u
        BY <1>1, <2>1, <2>3, <2>10, <3>2
      <4>2. i \in DOMAIN waiters' /\ waiters'[i] = u
        BY <1>1, <2>5, <4>1
      <4>. QED BY <4>2
    <3>. QED BY <3>1, <3>2
  <2>11. WaitersListed'
    BY <2>8, <2>9, <2>10 DEF WaitersListed
  <2>12. CoroutinesOnly'
    BY <1>1, <2>1, <2>3 DEF CoroutinesOnly
  <2>. QED BY <2>1, <2>2, <2>3, <2>4, <2>5, <2>11, <2>12 DEF SlotsOK
<1>5. CASE Resume(t)
  <2> DEFINE place == "running"
             H == (Holding \ {t}) \cup (IF place = "running" THEN {t} ELSE {})
  <2>1. /\ at[t] = "granted" /\ Leave(t, place, free, Len(waiters))
        /\ inner' = [inner EXCEPT ![t] = "running"] /\ UNCHANGED <<kind, cancelling>>
    BY <1>5 DEF Resume, loopVars
  <2>2. kind[t] = "async" /\ (\A i \in DOMAIN waiters : waiters[i] # t)
    BY <1>1, <2>1
  <2>3. H = Holding
    BY <2>1, <2>2 DEF Holding
  <2>4. free \in Nat /\ free + Cardinality(H) = Slots
    <3> HIDE DEF H
    <3>. QED BY <1>1, <1>2, <2>3
  <2>5. /\ inner' \in [Tasks -> {"none", "running", "stopping", "ended", "stopped"}]
        /\ \A u \in Tasks : u # t => inner'[u] = inner[u]
    BY <1>1, <2>1
  <2>6. place \in {"running", "done", "cancelled"} /\ (inner'[t] # "none" => place = "running")
    OBVIOUS
  <2>7. Len(waiters) \in Nat /\ cancelling' = cancelling /\ kind' = kind
    BY <1>1, <2>1
  <2> HIDE DEF place
  <2>. QED BY <2>1, <2>2, <2>4, <2>5, <2>6, <2>7, LeaveKeepsSlots
<1>6. CASE GiveUp(t)
  <2> DEFINE n == IF at[t] = "granted" THEN free + 1 ELSE free
  <2>1. /\ kind[t] = "async" /\ t \in cancelling /\ at[t] \in {"waiting", "granted"}
        /\ Leave(t, "cancelled", n, Len(waiters))
        /\ cancelling' = cancelling \ {t} /\ UNCHANGED <<kind, inner>>
    BY <1>6 DEF GiveUp, loopVars
  <2>2. \A i \in DOMAIN waiters : waiters[i] # t
    BY <1>1, <2>1
  <2>3. n \in Nat /\ n + Cardinality(Holding \ {t}) = Slots
    <3>1. t \in Holding <=> at[t] = "granted"
      BY <2>1 DEF Holding
    <3>2. Cardinality(Holding \ {t}) =
            IF t \in Holding THEN Cardinality(Holding) - 1 ELSE Cardinality(Holding)
      BY <1>2, FS_RemoveElement
    <3>. QED BY <1>1, <1>2, <3>1, <3>2
  <2>4. (Holding \ {t}) \cup (IF "cancelled" = "running" THEN {t} ELSE {}) = Holding \ {t}
    OBVIOUS
  <2>5. inner'[t] = "none" /\ \A u \in Tasks : u # t => inner'[u] = inner[u]
    BY <1>2, <2>1
  <2> HIDE DEF n
  <2>. QED BY <1>1, <2>1, <2>2, <2>3, <2>4, <2>5, LeaveKeepsSlots
<1>7. CASE Release(t)
  <2> DEFINE place == IF inner[t] = "stopped" \/ t \in cancelling THEN "cancelled" ELSE "done"
  <2>1. /\ inner[t] \in {"ended", "stopped"}
        /\ Leave(t, place, free + 1, 1)
        /\ inner' = [inner EXCEPT ![t] = "none"]
        /\ cancelling' = cancelling \ {t} /\ UNCHANGED kind
    BY <1>7 DEF Release, loopVars
  <2>2. place \in {"running", "done", "cancelled"} /\ place # "running"
    OBVIOUS
  <2>3. at[t] = "running" /\ kind[t] = "async" /\ t \in Holding
        /\ (\A i \in DOMAIN waiters : waiters[i] # t)
    BY <1>1, <1>2, <2>1 DEF Holding
  <2>4. free + 1 \in Nat /\ (free + 1) + Cardinality(Holding \ {t}) = Slots
    <3>1. Cardinality(Holding \ {t}) = Cardinality(Holding) - 1
      BY <1>2, <2>3, FS_RemoveElement
    <3>. QED BY <1>1, <1>2, <3>1
  <2>5. (Holding \ {t}) \cup (IF place = "running" THEN {t} ELSE {}) = Holding \ {t}
    BY <2>2
  <2>6. /\ inner' \in [Tasks -> {"none", "running", "stopping", "ended", "stopped"}]
        /\ inner'[t] = "none" /\ \A u \in Tasks : u # t => inner'[u] = inner[u]
    BY <1>1, <2>1
  <2> HIDE DEF place
  <2>. QED BY <2>1, <2>2, <2>3, <2>4, <2>5, <2>6, LeaveKeepsSlots
<1>8. CASE CancelWaiting(t)
  <2>1. /\ at[t] = "waiting" /\ t \notin cancelling /\ cancelling' = cancelling \cup {t}
        /\ UNCHANGED <<kind, at, free, inner>>
    BY <1>8 DEF CancelWaiting, loopVars
  <2>2. PICK k \in DOMAIN waiters : waiters[k] = t /\ waiters' = RemoveAt(waiters, k)
    BY <1>8 DEF CancelWaiting
  <2>3. /\ waiters' \in Seq(Tasks) /\ DOMAIN waiters' = 1 .. Len(waiters) - 1
        /\ k \in 1 .. Len(waiters)
        /\ \A j \in 1 .. Len(waiters) - 1 :
              waiters'[j] = IF j < k THEN waiters[j] ELSE waiters[j + 1]
    BY <1>1, <2>2, RemovedAt
  <2> DEFINE old(j) == IF j < k THEN j ELSE j + 1
  <2>4. \A j \in DOMAIN waiters' :
           old(j) \in DOMAIN waiters /\ waiters'[j] = waiters[old(j)] /\ old(j) # k
    BY <1>1, <2>3
  <2>5. \A i, j \in DOMAIN waiters' : old(i) = old(j) => i = j
    BY <1>1, <2>3
  <2>6. \A i, j \in DOMAIN waiters' : waiters'[i] = waiters'[j] => i = j
    BY <1>1, <2>4, <2>5
  <2>7. \A j \in DOMAIN waiters' : at'[waiters'[j]] = "waiting" /\ waiters'[j] \notin cancelling'
    BY <1>1, <2>1, <2>2, <2>4
  <2>8. ASSUME NEW u \in Tasks, at'[u] = "waiting", u \notin cancelling'
        PROVE  \E j \in DOMAIN waiters' : waiters'[j] = u
    <3>1. PICK i \in DOMAIN waiters : waiters[i] = u
      BY <1>1, <2>1, <2>8
    <3>2. i # k /\ i \in 1 .. Len(waiters)
      BY <1>1, <2>1, <2>2, <2>8, <3>1
    <3>3. CASE i < k
      BY <1>1, <2>3, <3>1, <3>2, <3>3
    <3>4. CASE i > k
      <4>1. i - 1 \in 1 .. Len(waiters) - 1 /\ ~ (i - 1 < k) /\ (i - 1) + 1 = i
        BY <1>1, <2>3, <3>2, <3>4
      <4>. QED BY <2>3, <3>1, <4>1
    <3>. QED BY <1>1, <2>3, <3>2, <3>3, <3>4
  <2>9. WaitersListed'
    BY <2>6, <2>7, <2>8 DEF WaitersListed
  <2>10. Holding' = Holding /\ SlotsKept' /\ CoroutinesOnly'
    BY <2>1 DEF Holding, SlotsOK, SlotsKept, CoroutinesOnly
  <2>. QED BY <2>1, <2>3, <2>9, <2>10 DEF SlotsOK
<1>. QED BY <1>3, <1>4, <1>5, <1>6, <1>7, <1>8

-----------------------------------------------------------------------------
(* The pool.                                                               *)

(* A step that leaves the pool and the phase alone keeps it in order.      *)
LEMMA PoolFrame ==
  PoolOK /\ UNCHANGED <<dedicated, phase, calls, dropped, idle, th, replied>> => PoolOK'
  BY DEF PoolOK, Served, QuitLast, PoolIsEmpty

(* _adjust_thread_count() claims an idle thread or starts one: afterwards  *)
(* there is one, and none has ended.                                       *)
LEMMA AdjustServes ==
  ASSUME PoolOK, AdjustThreadCount
  PROVE  /\ idle' \in Nat /\ th' \in [Threads -> ThreadStates \cup Tasks]
         /\ \E w \in Threads : th'[w] # "none"
         /\ \A w \in Threads : th'[w] = "gone" => th[w] = "gone"
<1> DEFINE started == {w \in Threads : th[w] # "none"}
<1>1. /\ MaxThreads \in Nat \ {0} /\ idle \in Nat
      /\ th \in [Threads -> ThreadStates \cup Tasks] /\ Served
  BY ExecutorsAssumption DEF ExecutorsAssumption, PoolOK
<1>2. CASE idle > 0
  BY <1>1, <1>2 DEF AdjustThreadCount, Served
<1>3. CASE ~ (idle > 0)
  <2>1. UNCHANGED idle
    BY <1>3 DEF AdjustThreadCount
  <2>2. CASE started = Threads
    <3>1. UNCHANGED th
      BY <1>3, <2>2 DEF AdjustThreadCount
    <3>2. 1 \in Threads
      BY <1>1 DEF Threads
    <3>. QED BY <1>1, <2>1, <2>2, <3>1, <3>2
  <2>3. CASE started # Threads
    <3>1. IsFiniteSet(Threads) /\ Cardinality(Threads) = MaxThreads
      BY <1>1, FS_Interval DEF Threads
    <3>2. started \in SUBSET Threads
      OBVIOUS
    <3>3. /\ Cardinality(started) \in Nat
          /\ Cardinality(started) <= MaxThreads /\ Cardinality(started) # MaxThreads
      <4> HIDE DEF started
      <4>. QED BY <2>3, <3>1, <3>2, FS_Subset, FS_CardinalityType
    <3>4. Cardinality(started) + 1 \in Threads
      <4> HIDE DEF started
      <4>. QED BY <1>1, <3>3 DEF Threads
    <3>5. th' = [th EXCEPT ![Cardinality(started) + 1] = "looking"]
      BY <1>3, <2>3 DEF AdjustThreadCount
    <3> HIDE DEF started
    <3>. QED BY <1>1, <2>1, <3>4, <3>5 DEF ThreadStates
  <2>. QED BY <2>2, <2>3
<1>. QED BY <1>2, <1>3

(* The steps of the event loop that reach the pool.                        *)
LEMMA PoolCallerSteps ==
  ASSUME PoolOK, NEW t \in Tasks, Submit(t) \/ PoolReturns(t) \/ CancelCall(t)
  PROVE  PoolOK'
<1> USE ExecutorsAssumption DEF ExecutorsAssumption
<1>1. CASE Submit(t)
  <2>1. /\ phase \in {"up", "stopping"} /\ calls' = Append(calls, t) /\ AdjustThreadCount
        /\ UNCHANGED <<dedicated, phase, dropped, replied>>
    BY <1>1 DEF Submit, Loop, loopVars, PoolOK
  <2>2. /\ idle' \in Nat /\ th' \in [Threads -> ThreadStates \cup Tasks]
        /\ \E w \in Threads : th'[w] # "none"
        /\ \A w \in Threads : th'[w] = "gone" => th[w] = "gone"
    BY <2>1, AdjustServes
  <2>3. calls \in Seq({Quit} \cup Tasks) /\ calls' \in Seq({Quit} \cup Tasks)
    BY <2>1 DEF PoolOK
  <2>4. \A i \in DOMAIN calls' : (i \in DOMAIN calls /\ calls'[i] = calls[i]) \/ calls'[i] = t
    BY <2>1, <2>3
  <2>5. Served'
    BY <2>2 DEF Served
  <2>6. QuitLast'
    BY <2>1, <2>2, <2>4 DEF QuitLast, PoolOK
  <2>7. PoolIsEmpty'
    BY <2>1 DEF PoolIsEmpty
  <2>. QED BY <2>1, <2>2, <2>3, <2>5, <2>6, <2>7 DEF PoolOK
<1>2. CASE PoolReturns(t) \/ CancelCall(t)
  <2>1. /\ UNCHANGED <<dedicated, phase, calls, idle, th>>
        /\ dropped' \subseteq Tasks /\ replied' \subseteq Tasks
    BY <1>2 DEF PoolReturns, CancelCall, loopVars, PoolOK
  <2>. QED BY <2>1 DEF PoolOK, Served, QuitLast, PoolIsEmpty
<1>. QED BY <1>1, <1>2

(* The steps of a thread.                                                  *)
LEMMA ThreadSteps ==
  ASSUME PoolOK, NEW w \in Threads, Thread(w)
  PROVE  PoolOK'
<1> USE ExecutorsAssumption DEF ExecutorsAssumption
<1>1. /\ calls \in Seq({Quit} \cup Tasks) /\ th \in [Threads -> ThreadStates \cup Tasks]
      /\ Served /\ QuitLast /\ PoolIsEmpty
  BY DEF PoolOK
<1>2. CASE TakeCall(w)
  <2>1. /\ th[w] \in {"looking", "blocked"} /\ calls # <<>> /\ Head(calls) # Quit
        /\ calls' = Tail(calls) /\ dropped' = dropped \ {Head(calls)}
        /\ th' = [th EXCEPT ![w] = IF Head(calls) \in dropped THEN "looking" ELSE Head(calls)]
        /\ UNCHANGED <<dedicated, phase, idle, replied>>
    BY <1>2 DEF TakeCall, loopVars
  <2>2. /\ Head(calls) \in Tasks /\ Head(calls) = calls[1] /\ 1 \in DOMAIN calls
        /\ Len(calls) \in Nat \ {0} /\ DOMAIN calls = 1 .. Len(calls)
    BY <1>1, <2>1
  <2>3. /\ calls' \in Seq({Quit} \cup Tasks) /\ Len(calls') = Len(calls) - 1
        /\ DOMAIN calls' = 1 .. Len(calls) - 1
        /\ \A i \in 1 .. Len(calls) - 1 : calls'[i] = calls[i + 1] /\ i + 1 \in DOMAIN calls
    BY <1>1, <2>1, <2>2
  <2>4. /\ th' \in [Threads -> ThreadStates \cup Tasks]
        /\ th'[w] # "none" /\ th'[w] # "gone" /\ \A v \in Threads \ {w} : th'[v] = th[v]
    BY <1>1, <2>1, <2>2 DEF ThreadStates
  <2>5. Served'
    BY <2>4 DEF Served
  <2>6. phase # "closed"
    BY <1>1, <2>1, <2>2 DEF PoolIsEmpty, QuitLast
  <2>7. QuitLast'
    <3>1. CASE phase \in {"up", "stopping"}
      BY <1>1, <2>1, <2>3, <2>4, <3>1 DEF QuitLast
    <3>2. CASE phase = "joining"
      <4>1. /\ dedicated /\ \A i \in DOMAIN calls : calls[i] = Quit <=> i = Len(calls)
            /\ (\E v \in Threads : th[v] = "gone") => Len(calls) = 1
        BY <1>1, <3>2 DEF QuitLast
      <4>2. Len(calls) > 1
        BY <2>1, <2>2, <4>1
      <4>3. calls' # <<>> /\ \A i \in DOMAIN calls' : calls'[i] = Quit <=> i = Len(calls')
        <5>1. /\ Len(calls) \in Nat /\ Len(calls) > 1 /\ Len(calls') = Len(calls) - 1
              /\ DOMAIN calls' = 1 .. Len(calls) - 1
          BY <2>2, <2>3, <4>2
        <5>2. calls' # <<>>
          BY <2>3, <5>1
        <5>3. \A i \in 1 .. Len(calls) - 1 : calls'[i] = Quit <=> i + 1 = Len(calls)
          BY <2>3, <4>1
        <5>4. \A i \in 1 .. Len(calls) - 1 : i + 1 = Len(calls) <=> i = Len(calls')
          BY ONLY <5>1
        <5>. QED BY <5>1, <5>2, <5>3, <5>4
      <4>4. \A v \in Threads : th'[v] # "gone"
        BY <2>4, <4>1, <4>2
      <4>. QED BY <2>1, <3>2, <4>1, <4>3, <4>4 DEF QuitLast
    <3>3. phase \in {"up", "stopping", "joining", "closed"}
      BY DEF PoolOK
    <3>. QED BY <2>6, <3>1, <3>2, <3>3
  <2>8. PoolIsEmpty'
    BY <2>1, <2>6 DEF PoolIsEmpty
  <2>. QED BY <2>1, <2>3, <2>4, <2>5, <2>7, <2>8 DEF PoolOK
<1>3. CASE TakeQuit(w)
  <2>1. /\ th[w] \in {"looking", "blocked"} /\ calls # <<>> /\ Head(calls) = Quit
        /\ calls' = Append(Tail(calls), Quit) /\ th' = [th EXCEPT ![w] = "gone"]
        /\ UNCHANGED <<dedicated, phase, dropped, idle, replied>>
    BY <1>3 DEF TakeQuit, loopVars
  <2>2. /\ calls[1] = Quit /\ 1 \in DOMAIN calls
        /\ Len(calls) \in Nat \ {0} /\ DOMAIN calls = 1 .. Len(calls)
    BY <1>1, <2>1
  <2>3. /\ calls' \in Seq({Quit} \cup Tasks) /\ Len(calls') = Len(calls)
        /\ DOMAIN calls' = 1 .. Len(calls)
    BY <1>1, <2>1, <2>2
  <2>4. \A i \in DOMAIN calls' : calls'[i] = Quit \/ (i + 1 \in DOMAIN calls /\ calls'[i] = calls[i + 1])
    BY <1>1, <2>1, <2>2
  <2>5. /\ th' \in [Threads -> ThreadStates \cup Tasks] /\ th'[w] # "none"
    BY <1>1, <2>1 DEF ThreadStates
  <2>6. Served'
    BY <2>5 DEF Served
  <2>7. phase \notin {"up", "stopping"} /\ (phase = "closed" => ~ dedicated)
    BY <1>1, <2>1, <2>2 DEF QuitLast, PoolIsEmpty
  <2>8. CASE phase = "joining"
    <3>1. dedicated /\ Len(calls) = 1
      BY <1>1, <2>2, <2>8 DEF QuitLast
    <3>2. calls' # <<>> /\ Len(calls') = 1 /\ \A i \in DOMAIN calls' : i = 1 /\ calls'[i] = Quit
      BY <2>2, <2>3, <2>4, <3>1
    <3>3. QuitLast'
      BY <2>1, <2>8, <3>1, <3>2 DEF QuitLast
    <3>. QED BY <2>1, <2>3, <2>5, <2>6, <2>8, <3>3 DEF PoolOK, PoolIsEmpty
  <2>9. CASE phase = "closed" /\ ~ dedicated
    <3>1. \A i \in DOMAIN calls' : calls'[i] = Quit
      BY <1>1, <2>4, <2>9 DEF QuitLast
    <3>2. QuitLast'
      BY <2>1, <2>9, <3>1 DEF QuitLast
    <3>. QED BY <2>1, <2>3, <2>5, <2>6, <2>9, <3>2 DEF PoolOK, PoolIsEmpty
  <2>. QED BY <2>7, <2>8, <2>9 DEF PoolOK
<1>4. CASE NoCall(w) \/ Rest(w) \/ CallEnds(w)
  <2>1. /\ UNCHANGED <<dedicated, phase, calls, dropped>>
        /\ idle' \in Nat /\ replied' \subseteq Tasks
        /\ th[w] \notin {"none", "gone"}
        /\ th' \in [Threads -> ThreadStates \cup Tasks]
        /\ th'[w] \notin {"none", "gone"} /\ \A v \in Threads \ {w} : th'[v] = th[v]
    BY <1>1, <1>4 DEF NoCall, Rest, CallEnds, loopVars, PoolOK, ThreadStates
  <2>2. Served'
    BY <2>1 DEF Served
  <2>3. QuitLast' /\ PoolIsEmpty'
    BY <1>1, <2>1 DEF QuitLast, PoolIsEmpty
  <2>. QED BY <2>1, <2>2, <2>3 DEF PoolOK
<1>. QED BY <1>2, <1>3, <1>4 DEF Thread

(* The steps of shutdown().                                                *)
LEMMA ShutdownSteps ==
  ASSUME PoolOK, StopWorker \/ CloseDedicated \/ Joined \/ CloseDefault
  PROVE  PoolOK'
<1> USE ExecutorsAssumption DEF ExecutorsAssumption
<1>1. /\ calls \in Seq({Quit} \cup Tasks) /\ Len(calls) \in Nat /\ DOMAIN calls = 1 .. Len(calls)
      /\ Served /\ QuitLast /\ PoolIsEmpty
  BY DEF PoolOK
<1>2. CASE StopWorker
  BY <1>2 DEF StopWorker, poolVars, PoolOK, Served, QuitLast, PoolIsEmpty
<1>3. CASE CloseDedicated
  <2>1. /\ phase = "stopping" /\ dedicated /\ phase' = "joining" /\ calls' = Append(calls, Quit)
        /\ UNCHANGED <<dedicated, dropped, idle, th, replied>>
    BY <1>3 DEF CloseDedicated
  <2>2. (\A v \in Threads : th[v] # "gone") /\ \A i \in DOMAIN calls : calls[i] # Quit
    BY <1>1, <2>1 DEF QuitLast
  <2>3. /\ calls' \in Seq({Quit} \cup Tasks) /\ calls' # <<>>
        /\ Len(calls') = Len(calls) + 1 /\ DOMAIN calls' = 1 .. Len(calls) + 1
        /\ calls'[Len(calls) + 1] = Quit
        /\ \A i \in 1 .. Len(calls) : calls'[i] = calls[i]
    BY <1>1, <2>1
  <2>4. \A i \in DOMAIN calls' : calls'[i] = Quit <=> i = Len(calls')
    BY <1>1, <2>2, <2>3
  <2>5. QuitLast'
    BY <2>1, <2>2, <2>3, <2>4 DEF QuitLast
  <2>6. Served'
    <3>1. \A i \in DOMAIN calls' : calls'[i] # Quit => i \in DOMAIN calls /\ calls[i] # Quit
      BY <1>1, <2>3
    <3>. QED BY <1>1, <2>1, <3>1 DEF Served
  <2>. QED BY <2>1, <2>3, <2>5, <2>6 DEF PoolOK, PoolIsEmpty
<1>4. CASE Joined
  <2>1. /\ phase = "joining" /\ (\A v \in Threads : th[v] \in {"none", "gone"}) /\ phase' = "closed"
        /\ UNCHANGED <<dedicated, calls, dropped, idle, th, replied>>
    BY <1>4 DEF Joined, poolVars
  <2>2. /\ dedicated /\ calls # <<>>
        /\ \A i \in DOMAIN calls : calls[i] = Quit <=> i = Len(calls)
        /\ (\E v \in Threads : th[v] = "gone") => Len(calls) = 1
    BY <1>1, <2>1 DEF QuitLast
  <2>3. \A i \in DOMAIN calls : calls[i] = Quit
    <3>1. CASE \E v \in Threads : th[v] = "gone"
      BY <1>1, <2>2, <3>1
    <3>2. CASE ~ \E v \in Threads : th[v] = "gone"
      BY <1>1, <2>1, <3>2 DEF Served
    <3>. QED BY <3>1, <3>2
  <2>4. QuitLast' /\ PoolIsEmpty' /\ Served'
    BY <1>1, <2>1, <2>2, <2>3 DEF QuitLast, PoolIsEmpty, Served
  <2>. QED BY <2>1, <2>4 DEF PoolOK
<1>5. CASE CloseDefault
  <2>1. /\ phase = "stopping" /\ ~ dedicated /\ phase' = "closed" /\ calls' = <<Quit>> /\ dropped' = {}
        /\ UNCHANGED <<dedicated, idle, th, replied>>
    BY <1>5 DEF CloseDefault
  <2>2. calls' \in Seq({Quit} \cup Tasks) /\ \A i \in DOMAIN calls' : calls'[i] = Quit
    BY <2>1
  <2>. QED BY <2>1, <2>2 DEF PoolOK, Served, QuitLast, PoolIsEmpty
<1>. QED BY <1>2, <1>3, <1>4, <1>5

-----------------------------------------------------------------------------
(* The priority queue.                                                     *)

(* A step that leaves the queue and the tasks in it alone keeps it.        *)
LEMMA QueueFrame ==
  ASSUME QueueOK, UNCHANGED queued,
         \A u \in Tasks : at[u] = "queued" => at'[u] = "queued"
  PROVE  QueueOK'
<1>1. \A i \in DOMAIN queued : queued[i] \in Tasks
  BY DEF QueueOK
<1>. QED BY <1>1 DEF QueueOK, QueueListed

(* A woken waiter was not in it.                                           *)
LEMMA LeaveFrame ==
  ASSUME SlotsOK, NEW t \in Tasks, at[t] # "queued", NEW place, NEW n \in Nat, NEW most \in Nat,
         Leave(t, place, n, most)
  PROVE  \A u \in Tasks : at[u] = "queued" => at'[u] = "queued"
<1>1. waiters \in Seq(Tasks) /\ \A i \in DOMAIN waiters : at[waiters[i]] = "waiting"
  BY DEF SlotsOK, WaitersListed
<1>2. PICK k \in 0 .. Len(waiters) : Wakes(t, place, n, k)
  BY <1>1, LeaveWakes
<1>3. \A i \in 1 .. k : at[waiters[i]] = "waiting"
  BY <1>1
<1>4. at' = [u \in Tasks |-> IF u = t THEN place
                            ELSE IF u \in Woken(k) THEN "granted" ELSE at[u]]
  BY <1>2 DEF Wakes
<1>. QED BY <1>3, <1>4 DEF Woken

(* The steps of the queue itself.                                          *)
LEMMA QueueSteps ==
  ASSUME QueueOK, at \in [Tasks -> Places],
         Take \/ \E t \in Tasks, w \in {"ready", "asleep"} : Put(t, w)
  PROVE  QueueOK'
<1>1. /\ queued \in Seq(Tasks) /\ Len(queued) \in Nat /\ DOMAIN queued = 1 .. Len(queued)
      /\ \A i, j \in DOMAIN queued : queued[i] = queued[j] => i = j
      /\ \A i \in DOMAIN queued : queued[i] \in Tasks /\ at[queued[i]] = "queued"
  BY DEF QueueOK, QueueListed
<1>2. ASSUME NEW t \in Tasks, NEW w \in {"ready", "asleep"}, Put(t, w) PROVE QueueOK'
  <2>1. at[t] = "new" /\ at' = [at EXCEPT ![t] = "queued"] /\ queued' = Append(queued, t)
    BY <1>2 DEF Put
  <2>2. /\ queued' \in Seq(Tasks) /\ DOMAIN queued' = 1 .. Len(queued) + 1
        /\ queued'[Len(queued) + 1] = t /\ \A i \in 1 .. Len(queued) : queued'[i] = queued[i]
    BY <1>1, <2>1
  <2>3. \A i \in DOMAIN queued' : i \in DOMAIN queued \/ i = Len(queued) + 1
    BY <1>1, <2>2
  <2>4. \A i \in DOMAIN queued : queued[i] # t
    BY <1>1, <2>1
  <2>5. \A i, j \in DOMAIN queued' : queued'[i] = queued'[j] => i = j
    BY <1>1, <2>2, <2>3, <2>4
  <2>6. \A i \in DOMAIN queued' : at'[queued'[i]] = "queued"
    BY <1>1, <2>1, <2>2, <2>3
  <2>. QED BY <2>2, <2>5, <2>6 DEF QueueOK, QueueListed
<1>3. CASE Take
  <2>1. PICK k \in DOMAIN queued : /\ at' = [at EXCEPT ![queued[k]] = "created"]
                                   /\ queued' = RemoveAt(queued, k)
    BY <1>3 DEF Take
  <2>2. /\ queued' \in Seq(Tasks) /\ DOMAIN queued' = 1 .. Len(queued) - 1
        /\ k \in 1 .. Len(queued)
        /\ \A j \in 1 .. Len(queued) - 1 :
              queued'[j] = IF j < k THEN queued[j] ELSE queued[j + 1]
    <3>1. /\ RemoveAt(queued, k) \in Seq(Tasks) /\ Len(RemoveAt(queued, k)) = Len(queued) - 1
          /\ \A j \in 1 .. Len(queued) - 1 :
                RemoveAt(queued, k)[j] = IF j < k THEN queued[j] ELSE queued[j + 1]
      <4>1. queued \in Seq(Tasks)
        BY <1>1
      <4>. QED BY ONLY <4>1, RemovedAt
    <3>2. \A r \in Seq(Tasks) : DOMAIN r = 1 .. Len(r)
      OBVIOUS
    <3>. QED BY <1>1, <2>1, <3>1, <3>2
  <2> DEFINE old(j) == IF j < k THEN j ELSE j + 1
  <2>3. \A j \in DOMAIN queued' :
           old(j) \in DOMAIN queued /\ queued'[j] = queued[old(j)] /\ old(j) # k
    BY <1>1, <2>2
  <2>4. \A i, j \in DOMAIN queued' : old(i) = old(j) => i = j
    <3>1. k \in Nat /\ \A i \in DOMAIN queued' : i \in Nat
      BY <1>1, <2>2
    <3>. QED BY ONLY <3>1
  <2>5. \A i, j \in DOMAIN queued' : queued'[i] = queued'[j] => i = j
    <3> HIDE DEF old
    <3>. QED BY <1>1, <2>3, <2>4
  <2>6. \A j \in DOMAIN queued' : at'[queued'[j]] = "queued"
    <3> SUFFICES ASSUME NEW j \in DOMAIN queued' PROVE at'[queued'[j]] = "queued"
      OBVIOUS
    <3>1. queued'[j] \in Tasks /\ queued'[j] # queued[k] /\ at[queued'[j]] = "queued"
      BY <1>1, <2>3
    <3>. QED BY <2>1, <3>1
  <2>. QED BY <2>2, <2>5, <2>6 DEF QueueOK, QueueListed
<1>. QED BY <1>2, <1>3

-----------------------------------------------------------------------------
(* Every step keeps the invariant.                                         *)
LEMMA StepIInv == IInv /\ [Next]_vars => IInv'
<1> SUFFICES ASSUME IInv, [Next]_vars PROVE IInv'
  OBVIOUS
<1>1. /\ QueueOK /\ SlotsOK /\ PoolOK
      /\ cancelling \subseteq Tasks /\ at \in [Tasks -> Places]
      /\ inner \in [Tasks -> {"none", "running", "stopping", "ended", "stopped"}]
      /\ \A u \in Tasks : inner[u] # "none" => at[u] = "running"
  BY DEF IInv, SlotsOK, SlotsKept
<1>2. ASSUME NEW t \in Tasks, Add(t) PROVE IInv'
  <2>1. SlotsOK'
    BY <1>1, <1>2, SlotsFrame DEF Add, loopVars, slotVars, Places, InSemaphore
  <2>2. QueueOK'
    BY <1>1, <1>2, QueueFrame DEF Add, loopVars
  <2>. QED BY <1>1, <1>2, <2>1, <2>2, PoolFrame DEF Add, loopVars, poolVars, IInv
<1>3. ASSUME NEW t \in Tasks, EnqueuePriority(t) \/ EnqueueInThread(t) PROVE IInv'
  <2>1. PICK w \in {"ready", "asleep"} : Put(t, w)
    BY <1>3 DEF EnqueuePriority, EnqueueInThread
  <2>2. SlotsOK'
    BY <1>1, <2>1, SlotsFrame DEF Put, slotVars, Places, InSemaphore
  <2>3. QueueOK'
    BY <1>1, <2>1, QueueSteps
  <2>. QED BY <1>1, <2>1, <2>2, <2>3, PoolFrame DEF Put, poolVars, IInv
<1>4. ASSUME NEW t \in Tasks, \/ Acquire(t) \/ Wait(t) \/ Resume(t) \/ GiveUp(t)
                              \/ Release(t) \/ CancelWaiting(t)
      PROVE  IInv'
  <2>1. SlotsOK'
    BY <1>1, <1>4, SlotSteps
  <2>2. UNCHANGED <<loopVars, poolVars>>
    BY <1>4 DEF Acquire, Wait, Resume, GiveUp, Release, CancelWaiting
  <2>3. \A u \in Tasks : at[u] = "queued" => at'[u] = "queued"
    <3>1. CASE Acquire(t) \/ Wait(t) \/ CancelWaiting(t)
      BY <1>1, <3>1 DEF Acquire, Wait, CancelWaiting
    <3>2. /\ free \in Nat /\ waiters \in Seq(Tasks) /\ Len(waiters) \in Nat
      BY <1>1 DEF SlotsOK
    <3>3. CASE Resume(t)
      BY <1>1, <3>2, <3>3, LeaveFrame DEF Resume
    <3>4. CASE GiveUp(t)
      <4> DEFINE n == IF at[t] = "granted" THEN free + 1 ELSE free
      <4>1. n \in Nat /\ Leave(t, "cancelled", n, Len(waiters)) /\ at[t] # "queued"
        BY <3>2, <3>4 DEF GiveUp
      <4> HIDE DEF n
      <4>. QED BY <1>1, <3>2, <4>1, LeaveFrame
    <3>5. CASE Release(t)
      <4>1. at[t] = "running"
        BY <1>1, <3>5 DEF Release
      <4>2. PICK place : Leave(t, place, free + 1, 1)
        BY <3>5 DEF Release
      <4>. QED BY <1>1, <3>2, <4>1, <4>2, LeaveFrame
    <3>. QED BY <1>4, <3>1, <3>3, <3>4, <3>5
  <2>4. QueueOK'
    BY <1>1, <2>2, <2>3, QueueFrame DEF loopVars
  <2>. QED BY <1>1, <2>1, <2>2, <2>4, PoolFrame DEF loopVars, poolVars, IInv
<1>5. ASSUME NEW t \in Tasks, NeverBegin(t) \/ Refused(t) PROVE IInv'
  <2>1. SlotsOK'
    BY <1>1, <1>5, SlotsFrame DEF NeverBegin, Refused, loopVars, slotVars, Places, InSemaphore
  <2>2. UNCHANGED <<loopVars, poolVars>>
    BY <1>5 DEF NeverBegin, Refused
  <2>3. QueueOK'
    BY <1>1, <1>5, <2>2, QueueFrame DEF NeverBegin, Refused, loopVars
  <2>. QED BY <1>1, <2>1, <2>2, <2>3, PoolFrame DEF loopVars, poolVars, IInv
<1>6. ASSUME NEW t \in Tasks, Ends(t) \/ Stops(t) \/ Persists(t) \/ CancelCoroutine(t)
      PROVE  IInv'
  <2>1. SlotsOK'
    BY <1>1, <1>6, SlotsFrame
    DEF Ends, Stops, Persists, CancelCoroutine, loopVars, InSemaphore
  <2>2. UNCHANGED <<loopVars, poolVars>>
    BY <1>6 DEF Ends, Stops, Persists, CancelCoroutine
  <2>3. QueueOK'
    BY <1>1, <1>6, <2>2, QueueFrame DEF Ends, Stops, Persists, CancelCoroutine, loopVars
  <2>. QED BY <1>1, <2>1, <2>2, <2>3, PoolFrame DEF loopVars, poolVars, IInv
<1>7. ASSUME NEW t \in Tasks, CancelLater(t) PROVE IInv'
  <2>1. at[t] # "waiting"
    BY <1>1, <1>7 DEF CancelLater
  <2>2. SlotsOK'
    BY <1>1, <1>7, <2>1, SlotsFrame DEF CancelLater, loopVars, slotVars, InSemaphore
  <2>3. UNCHANGED <<loopVars, poolVars>>
    BY <1>7 DEF CancelLater
  <2>4. QueueOK'
    BY <1>1, <1>7, <2>3, QueueFrame DEF CancelLater, loopVars
  <2>. QED BY <1>1, <2>2, <2>3, <2>4, PoolFrame DEF loopVars, poolVars, IInv
<1>8. ASSUME NEW t \in Tasks, Submit(t) \/ PoolReturns(t) \/ CancelCall(t) PROVE IInv'
  <2>1. SlotsOK'
    BY <1>1, <1>8, SlotsFrame
    DEF Submit, PoolReturns, CancelCall, loopVars, slotVars, Places, InSemaphore
  <2>2. PoolOK'
    BY <1>1, <1>8, PoolCallerSteps
  <2>3. QueueOK'
    BY <1>1, <1>8, QueueFrame DEF Submit, PoolReturns, CancelCall, loopVars
  <2>. QED BY <1>1, <2>1, <2>2, <2>3 DEF IInv
<1>9. CASE Take
  <2>1. PICK i \in DOMAIN queued : at' = [at EXCEPT ![queued[i]] = "created"]
    BY <1>9 DEF Take
  <2>2. queued[i] \in Tasks /\ at[queued[i]] = "queued"
    BY <1>1 DEF QueueOK, QueueListed
  <2>3. UNCHANGED <<kind, cancelling, slotVars, dedicated, phase, poolVars>>
    BY <1>9 DEF Take
  <2>4. SlotsOK'
    BY <1>1, <2>1, <2>2, <2>3, SlotsFrame DEF slotVars, Places, InSemaphore
  <2>5. QueueOK'
    BY <1>1, <1>9, QueueSteps
  <2>. QED BY <1>1, <2>3, <2>4, <2>5, PoolFrame DEF poolVars, IInv
<1>10. ASSUME NEW w \in Threads, Thread(w) PROVE IInv'
  <2>1. PoolOK'
    BY <1>1, <1>10, ThreadSteps
  <2>2. UNCHANGED <<loopVars, at, cancelling, slotVars>>
    BY <1>10 DEF Thread, TakeCall, TakeQuit, NoCall, Rest, CallEnds
  <2>3. SlotsOK'
    BY <1>1, <2>2, SlotsFrame DEF loopVars, slotVars, InSemaphore
  <2>4. QueueOK'
    BY <1>1, <2>2, QueueFrame DEF loopVars
  <2>. QED BY <2>1, <2>3, <2>4 DEF IInv
<1>11. CASE StopWorker \/ CloseDedicated \/ Joined \/ CloseDefault
  <2>1. PoolOK'
    BY <1>1, <1>11, ShutdownSteps
  <2>2. /\ UNCHANGED <<kind, queued, at, slotVars>>
        /\ cancelling' \subseteq cancelling \cup {t \in Tasks : at[t] = "inpool"}
        /\ cancelling \subseteq cancelling'
    <3>1. CASE CloseDefault
      <4>1. ToSet(calls) \subseteq Tasks
        BY <1>1, <3>1 DEF CloseDefault, PoolOK, QuitLast, ToSet
      <4>. QED BY <3>1, <4>1 DEF CloseDefault
    <3>2. CASE StopWorker \/ CloseDedicated \/ Joined
      BY <3>2 DEF StopWorker, CloseDedicated, Joined
    <3>. QED BY <1>11, <3>1, <3>2
  <2>3. SlotsOK'
    BY <1>1, <2>2, SlotsFrame DEF slotVars, InSemaphore
  <2>4. QueueOK'
    BY <1>1, <2>2, QueueFrame
  <2>. QED BY <2>1, <2>3, <2>4 DEF IInv
<1>12. CASE Await \/ UNCHANGED vars
  <2>1. UNCHANGED <<kind, dedicated, phase, queued, at, cancelling, slotVars, poolVars>>
    BY <1>12 DEF Await, vars, slotVars, poolVars
  <2>2. SlotsOK'
    BY <1>1, <2>1, SlotsFrame DEF slotVars, InSemaphore
  <2>3. QueueOK'
    BY <1>1, <2>1, QueueFrame
  <2>. QED BY <1>1, <2>1, <2>2, <2>3, PoolFrame DEF poolVars, IInv
<1>. QED
  BY <1>2, <1>3, <1>4, <1>5, <1>6, <1>7, <1>8, <1>9, <1>10, <1>11, <1>12
  DEF Next, Dispatch, Coroutine, Cancel

(* It is an invariant.                                                     *)
LEMMA Invariance == Spec => []IInv
  BY InitIInv, StepIInv, PTL DEF Spec

(* The worker of the priority queue goes on or sleeps.                     *)
LEMMA WorkerInvariance == Spec => []WorkerTyped
<1>1. Init => WorkerTyped
  BY DEF Init, WorkerTyped
<1>2. WorkerTyped /\ [Next]_vars => WorkerTyped'
  <2> SUFFICES ASSUME WorkerTyped, [Next]_vars PROVE WorkerTyped'
    OBVIOUS
  <2>1. CASE \E t \in Tasks : EnqueuePriority(t) \/ EnqueueInThread(t)
    BY <2>1 DEF EnqueuePriority, EnqueueInThread, Put, WorkerTyped
  <2>2. CASE Await \/ StopWorker
    BY <2>2 DEF Await, StopWorker, WorkerTyped
  <2>3. CASE UNCHANGED worker
    BY <2>3 DEF WorkerTyped
  <2>4. ASSUME NEW w \in Threads, Thread(w) PROVE UNCHANGED worker
    BY <2>4 DEF Thread, TakeCall, TakeQuit, NoCall, Rest, CallEnds, loopVars
  <2>5. ASSUME NEW t \in Tasks, Add(t) \/ Dispatch(t) PROVE UNCHANGED worker
    BY <2>5 DEF Add, Dispatch, Acquire, Wait, Resume, GiveUp, NeverBegin, Release, Submit,
                Refused, PoolReturns, loopVars
  <2>6. ASSUME NEW t \in Tasks, Coroutine(t) \/ Persists(t) \/ Cancel(t) PROVE UNCHANGED worker
    BY <2>6 DEF Coroutine, Ends, Stops, Persists, Cancel, CancelWaiting, CancelCoroutine,
                CancelCall, CancelLater, loopVars
  <2>7. CASE Take \/ CloseDedicated \/ Joined \/ CloseDefault \/ UNCHANGED vars
    <3>1. UNCHANGED worker
      BY <2>7 DEF Take, CloseDedicated, Joined, CloseDefault, vars
    <3>. QED BY <2>3, <3>1
  <2>. QED BY <2>1, <2>2, <2>3, <2>4, <2>5, <2>6, <2>7 DEF Next
<1>. QED BY <1>1, <1>2, PTL DEF Spec

-----------------------------------------------------------------------------
(* Every reachable state of the semaphore, the pool and the priority queue *)
(* is well typed, for every number of tasks, slots and threads             *)
(* (async_executor.py:46-108, manager.py:1079).                            *)
THEOREM TypeCorrect == Spec => []TypeOK
  BY Invariance, WorkerInvariance, Typed, PTL

(* Wherever a cancellation strikes, what is free and what is held make up  *)
(* max_concurrent_tasks, and no coroutine runs without a slot              *)
(* (async_executor.py:88-108).                                             *)
THEOREM SlotsKeptAlways == Spec => []SlotsKept
<1>1. IInv => SlotsKept
  BY DEF IInv, SlotsOK
<1>. QED BY <1>1, Invariance, PTL

(* When the wait for the dedicated pool is over no function of it runs or  *)
(* will run, however many threads it has and whatever its queue held       *)
(* (manager.py:823).                                                       *)
THEOREM PoolIsEmptyAlways == Spec => []PoolIsEmpty
<1>1. IInv => PoolIsEmpty
  BY DEF IInv, PoolOK
<1>. QED BY <1>1, Invariance, PTL

(* Once the default pool is closed no function of a saved task begins: its *)
(* queue holds nothing but the call that ends a thread, and submit() is    *)
(* refused (manager.py:826-828).                                           *)
THEOREM NoneBeginsAlways == Spec => NoneBeginsAfterClose
<1> DEFINE Closed == phase = "closed" /\ ~ dedicated
<1>1. IInv /\ [Next]_vars => [Closed => Started' \subseteq Started]_vars
  <2> SUFFICES ASSUME IInv, Next, Closed PROVE Started' \subseteq Started
    OBVIOUS
  <2>1. /\ Tasks \cap ThreadStates = {} /\ th \in [Threads -> ThreadStates \cup Tasks]
        /\ calls \in Seq({Quit} \cup Tasks) /\ \A i \in DOMAIN calls : calls[i] = Quit
    BY ExecutorsAssumption DEF ExecutorsAssumption, IInv, PoolOK, QuitLast
  <2>2. calls # <<>> => Head(calls) = Quit
    BY <2>1
  <2>3. ASSUME NEW w \in Threads, Thread(w) PROVE Started' \subseteq Started
    <3>1. ~ TakeCall(w)
      BY <2>2 DEF TakeCall
    <3>2. \E s \in ThreadStates : th' = [th EXCEPT ![w] = s]
      BY <2>3, <3>1 DEF Thread, TakeQuit, NoCall, Rest, CallEnds, ThreadStates
    <3>. QED BY <2>1, <3>2 DEF Started
  <2>4. CASE UNCHANGED th
    BY <2>4 DEF Started
  <2>5. (\E w \in Threads : Thread(w)) \/ UNCHANGED th
    BY DEF Next, Dispatch, Coroutine, Cancel, Add, EnqueuePriority, EnqueueInThread, Put, Take,
           Await, Acquire, Wait, Resume,
           GiveUp, NeverBegin, Release, Submit, Refused, PoolReturns, Ends, Stops, Persists,
           CancelWaiting, CancelCoroutine, CancelCall, CancelLater, StopWorker, CloseDedicated,
           Joined, CloseDefault, poolVars
  <2>. QED BY <2>3, <2>4, <2>5
<1>. QED BY <1>1, Invariance, PTL DEF Spec, NoneBeginsAfterClose

-----------------------------------------------------------------------------
(* The process pool.                                                       *)

(* A call that waits in a pool or runs in one.                             *)
Alive(t) == stage[t] \in InPool \/ t \in ghost

(* A ghost is the call of a dispatch that was cancelled.                   *)
GhostsCancelled == \A t \in ghost : stage[t] = "cancelled"

(* A dispatch that hears of a death was in a pool that broke.              *)
LostBroken == \A t \in ProcessTasks : stage[t] = "lost" => home[t] \in broken

(* Where a call that may still run is.                                     *)
AliveHome ==
    \A t \in ProcessTasks : Alive(t) =>
        /\ home[t] \in (1 .. made) \ broken
        /\ \/ home[t] = pool
           \/ home[t] \in abandoned
           \/ /\ shut \in {"draining", "forced"}
              /\ home[t] = closing
              /\ swept => stage[t] # "queued"

ProcessInv ==
  /\ ProcessTypeOK
  /\ pool # NoPool => pool <= made
  /\ shut = "up" => ~swept
  /\ GhostsCancelled /\ LostBroken /\ AliveHome /\ ResetHolds

(* Init establishes it.                                                    *)
LEMMA ProcessInvInit == ProcessInit => ProcessInv
<1> SUFFICES ASSUME ProcessInit PROVE ProcessInv
  OBVIOUS
<1> USE PoolAssumption DEF PoolAssumption
<1>0. swept \in BOOLEAN
  BY DEF ProcessInit
<1>1. ProcessTypeOK
  BY <1>0 DEF ProcessInit, ProcessTypeOK, InPool, Ended
<1>2. GhostsCancelled /\ LostBroken /\ AliveHome /\ ResetHolds
  BY DEF ProcessInit, GhostsCancelled, LostBroken, AliveHome, ResetHolds, Alive,
         InPool
<1>. QED BY <1>1, <1>2 DEF ProcessInv, ProcessInit

(* No step breaks the types.                                               *)
LEMMA ProcessTypeStep == ProcessInv /\ [ProcessNext]_processVars => ProcessTypeOK'
<1> SUFFICES ASSUME ProcessInv, [ProcessNext]_processVars PROVE ProcessTypeOK'
  OBVIOUS
<1> USE PoolAssumption DEF PoolAssumption, ProcessInv, ProcessTypeOK, Pools,
        InPool, Ended, pools, closure
<1>1. ASSUME NEW t \in ProcessTasks, DispatchToPool(t) PROVE ProcessTypeOK'
  BY <1>1 DEF DispatchToPool, EnsurePool
<1>2. ASSUME NEW t \in ProcessTasks, DispatchRefused(t) PROVE ProcessTypeOK'
  BY <1>2 DEF DispatchRefused, AttemptFails
<1>3. ASSUME NEW t \in ProcessTasks, Begin(t) PROVE ProcessTypeOK'
  BY <1>3 DEF Begin
<1>4. ASSUME NEW t \in ProcessTasks, NEW o \in {"returned", "raised"}, Finish(t, o)
      PROVE  ProcessTypeOK'
  BY <1>4 DEF Finish
<1>5. ASSUME NEW t \in ProcessTasks, GhostEnds(t) PROVE ProcessTypeOK'
  BY <1>5 DEF GhostEnds
<1>6. ASSUME NEW t \in ProcessTasks, Return(t) PROVE ProcessTypeOK'
  BY <1>6 DEF Return
<1>7. ASSUME NEW t \in ProcessTasks, Raise(t) PROVE ProcessTypeOK'
  BY <1>7 DEF Raise, AttemptFails
<1>8. ASSUME NEW t \in ProcessTasks, ReportBroken(t) PROVE ProcessTypeOK'
  <2>1. home[t] \in 1 .. made
    BY <1>8 DEF ReportBroken, LostBroken
  <2>2. reported' \subseteq 1 .. made /\ abandoned' \subseteq 1 .. made
    <3>1. pool # NoPool => pool \in 1 .. MaxPools
      OBVIOUS
    <3>. QED BY <1>8, <2>1, <3>1 DEF ReportBroken
  <2>. QED BY <1>8, <2>2 DEF ReportBroken, AttemptFails
<1>9. ASSUME NEW t \in ProcessTasks, CancelDispatch(t) PROVE ProcessTypeOK'
  BY <1>9 DEF CancelDispatch
<1>10. ASSUME NEW p \in Pools, WorkerDies(p) PROVE ProcessTypeOK'
  BY <1>10 DEF WorkerDies
<1>11. CASE Shutdown \/ CutQueued
  BY <1>11 DEF Shutdown, CutQueued
<1>12. CASE Drained \/ Forced
  BY <1>12 DEF Drained, Forced
<1>13. CASE UNCHANGED processVars
  BY <1>13 DEF processVars
<1>. QED
  BY <1>1, <1>2, <1>3, <1>4, <1>5, <1>6, <1>7, <1>8, <1>9, <1>10, <1>11, <1>12, <1>13
  DEF ProcessNext

(* Where the calls are, and that the current pool has not been reported.   *)
LEMMA HomesStep ==
  ProcessInv /\ [ProcessNext]_processVars =>
           /\ (pool # NoPool => pool <= made)'
           /\ (shut = "up" => ~swept)'
           /\ GhostsCancelled' /\ LostBroken' /\ AliveHome' /\ ResetHolds'
<1> DEFINE Homes == /\ pool # NoPool => pool <= made
                    /\ shut = "up" => ~swept
                    /\ GhostsCancelled /\ LostBroken /\ AliveHome /\ ResetHolds
<1> SUFFICES ASSUME ProcessInv, [ProcessNext]_processVars PROVE Homes'
  OBVIOUS
<1> USE PoolAssumption DEF PoolAssumption, ProcessInv, ProcessTypeOK, Pools,
        InPool, Ended, pools, closure, GhostsCancelled, LostBroken,
        AliveHome, ResetHolds, Alive
<1>1. ASSUME NEW t \in ProcessTasks, DispatchToPool(t) PROVE Homes'
  BY <1>1 DEF DispatchToPool, EnsurePool
<1>2. ASSUME NEW t \in ProcessTasks, DispatchRefused(t) PROVE Homes'
  BY <1>2 DEF DispatchRefused, AttemptFails
<1>3. ASSUME NEW t \in ProcessTasks, Begin(t) PROVE Homes'
  BY <1>3 DEF Begin
<1>4. ASSUME NEW t \in ProcessTasks, NEW o \in {"returned", "raised"}, Finish(t, o) PROVE Homes'
  BY <1>4 DEF Finish
<1>5. ASSUME NEW t \in ProcessTasks, GhostEnds(t) PROVE Homes'
  BY <1>5 DEF GhostEnds
<1>6. ASSUME NEW t \in ProcessTasks, Return(t) PROVE Homes'
  BY <1>6 DEF Return
<1>7. ASSUME NEW t \in ProcessTasks, Raise(t) PROVE Homes'
  BY <1>7 DEF Raise, AttemptFails
<1>8. ASSUME NEW t \in ProcessTasks, ReportBroken(t) PROVE Homes'
  BY <1>8 DEF ReportBroken, AttemptFails
<1>9. ASSUME NEW t \in ProcessTasks, CancelDispatch(t) PROVE Homes'
  BY <1>9 DEF CancelDispatch
<1>10. ASSUME NEW p \in Pools, WorkerDies(p) PROVE Homes'
  BY <1>10 DEF WorkerDies
<1>11. CASE Shutdown \/ CutQueued
  BY <1>11 DEF Shutdown, CutQueued
<1>12. CASE Drained \/ Forced
  BY <1>12 DEF Drained, Forced, Busy
<1>13. CASE UNCHANGED processVars
  BY <1>13 DEF processVars
<1>. QED
  BY <1>1, <1>2, <1>3, <1>4, <1>5, <1>6, <1>7, <1>8, <1>9, <1>10, <1>11, <1>12, <1>13
  DEF ProcessNext

(* It is an invariant.                                                     *)
LEMMA ProcessInvariance == ProcessSpec => []ProcessInv
<1>1. ProcessInv /\ [ProcessNext]_processVars => ProcessInv'
  BY ProcessTypeStep, HomesStep DEF ProcessInv
<1>. QED BY ProcessInvInit, <1>1, PTL DEF ProcessSpec

-----------------------------------------------------------------------------
(* Every reachable state of the executor is well typed, for every number   *)
(* of tasks, retries and pools (process_executor.py:452-605).              *)
THEOREM ProcessTypeCorrect == ProcessSpec => []ProcessTypeOK
<1>1. ProcessInv => ProcessTypeOK
  BY DEF ProcessInv
<1>. QED BY <1>1, ProcessInvariance, PTL

(* "The process pool has been reset" (process_executor.py:583): no         *)
(* dispatch is ever given a pool again that one has reported.              *)
THEOREM ResetAlways == ProcessSpec => []ResetHolds
<1>1. ProcessInv => ResetHolds
  BY DEF ProcessInv
<1>. QED BY <1>1, ProcessInvariance, PTL

(* When shutdown() has drained the pool none of its calls waits or runs,   *)
(* and none waits once the waiting ones were cancelled, except in a pool   *)
(* that the late report of another one's death has given up                *)
(* (process_executor.py:617-630).                                          *)
THEOREM ShutdownStopsAlways == ProcessSpec => []ShutdownStopsAll
<1>1. ASSUME ProcessInv, NEW t \in ProcessTasks, Alive(t), shut # "up"
      PROVE  \/ home[t] \in abandoned
             \/ /\ shut \in {"draining", "forced"}
                /\ swept => stage[t] # "queued"
  <2>1. pool = NoPool /\ made \in Nat /\ NoPool \notin Nat
    BY <1>1, PoolAssumption DEF PoolAssumption, ProcessInv, ProcessTypeOK
  <2>2. home[t] \in 1 .. made
    BY <1>1 DEF ProcessInv, AliveHome
  <2>3. home[t] # pool
    BY <2>1, <2>2
  <2>. QED BY <1>1, <2>3 DEF ProcessInv, AliveHome
<1>2. ProcessInv => ShutdownStopsAll
  <2> SUFFICES ASSUME ProcessInv, NEW t \in ProcessTasks
               PROVE  /\ swept /\ stage[t] = "queued" => home[t] \in abandoned
                      /\ shut = "drained" /\ Alive(t) => home[t] \in abandoned
    BY DEF ShutdownStopsAll, Alive
  <2>1. swept => shut # "up"
    BY DEF ProcessInv
  <2>. QED BY <1>1, <2>1 DEF Alive, InPool
<1>. QED BY <1>2, ProcessInvariance, PTL
================================================================================
