---------------------------- MODULE DashboardProofs ----------------------------
(***************************************************************************)
(* What holds of the dashboard for every number of tasks, retries, streams *)
(* and requests: a retry loses no work, no deletion takes a task that has  *)
(* not ended, and a cache that is fresh lacks no row that was there when   *)
(* the one before it expired.                                              *)
(*                                                                         *)
(* The argument for the cache: only the caller at the head of the lock     *)
(* loads, and it began to when the cache had expired, so that the cache is *)
(* not fresh while anybody loads; `steady' only shrinks until the next     *)
(* expiry, which needs a fresh cache, and so it stays within what a load   *)
(* has read, whatever is deleted or saved before the load returns.         *)
(***************************************************************************)
EXTENDS Dashboard, SequenceTheorems, TLAPS

-----------------------------------------------------------------------------
(* The inductive invariant, by the parts of the state that move together.  *)

(* What was dispatched has a record.                                       *)
DispatchedExist == \A n \in dispatched : status[n] # "none"

RecordsOK ==
  /\ status \in [Ids -> {"none", "pending"} \cup Final]
  /\ store \subseteq Ids /\ dispatched \subseteq Ids /\ removing \subseteq Ids
  /\ origin \in [Ids -> Ids \cup {Nobody}]
  /\ fanDue \in BOOLEAN
  /\ behind \in [Streams -> SUBSET Ids]
  /\ UnfinishedStays
  /\ DispatchedExist
  /\ RetryKeepsWork

TableOK ==
  /\ history \subseteq Ids /\ saving \subseteq Ids
  /\ cut \subseteq Ids /\ cache \subseteq Ids
  /\ pruner \in {"idle", "deleting", "sweeping", "returning"}
  /\ backend \in BOOLEAN /\ fresh \in BOOLEAN
  /\ steady \subseteq history
  /\ CacheNotBehind

Has(c) == phase[c] \in {"loading", "loaded"}

(* The lock lists every caller in merged_list() once; who loads, holds it. *)
CallsOK ==
  /\ lock \in Seq(Callers)
  /\ phase \in [Callers -> {"idle", "waiting", "loading", "loaded"}]
  /\ want \in [Callers -> {"failed"} \cup Ids]
  /\ live \in [Callers -> SUBSET Ids]
  /\ rows \in [Callers -> SUBSET Ids]
  /\ \A i, j \in DOMAIN lock : lock[i] = lock[j] => i = j
  /\ \A i \in DOMAIN lock : phase[lock[i]] # "idle"
  /\ \A c \in Callers : phase[c] # "idle" => \E i \in DOMAIN lock : lock[i] = c
  /\ \A c \in Callers : Has(c) => lock # <<>> /\ Head(lock) = c

(* A load replaces a cache that has expired, and it has read every row     *)
(* that has been in the table since.                                       *)
LoadsOK ==
  \A c \in Callers : /\ Has(c) => ~ fresh
                     /\ phase[c] = "loaded" => steady \subseteq rows[c]

StreamsOK ==
  /\ open \subseteq Streams /\ ending \subseteq Streams
  /\ queue \in [Streams -> {"empty", "change", "end"}]
  /\ \A s \in Streams : s \notin open => phase[s] = "idle"

IInv == RecordsOK /\ TableOK /\ CallsOK /\ LoadsOK /\ StreamsOK

(* The type invariant is a part of it.                                     *)
LEMMA Typed == IInv => TypeOK
  BY DEF IInv, RecordsOK, TableOK, CallsOK, StreamsOK, TypeOK, Has

(* Init establishes it.                                                    *)
LEMMA InitIInv == Init => IInv
<1> SUFFICES ASSUME Init PROVE IInv
  OBVIOUS
<1>1. status \in [Ids -> {"none", "pending"} \cup Final] /\ UnfinishedStays
  BY DEF Init, Final, UnfinishedStays
<1>2. RecordsOK
  BY <1>1 DEF Init, RecordsOK, DispatchedExist, RetryKeepsWork
<1>3. TableOK
  BY DEF Init, TableOK, CacheNotBehind
<1>4. CallsOK /\ LoadsOK
  BY DEF Init, CallsOK, LoadsOK, Has
<1>5. StreamsOK
  BY DEF Init, StreamsOK, Callers
<1>. QED BY <1>2, <1>3, <1>4, <1>5 DEF IInv

-----------------------------------------------------------------------------
(* Frames: a step that leaves the variables of a part alone keeps it.      *)

(* The records.                                                            *)
LEMMA RecordsFrame ==
  RecordsOK /\ UNCHANGED <<records, fanDue, behind>> => RecordsOK'
  BY DEF RecordsOK, records, UnfinishedStays, DispatchedExist, RetryKeepsWork

(* The history table and the cache.                                        *)
LEMMA TableFrame ==
  TableOK /\ UNCHANGED <<table, pruning, cached, steady>> => TableOK'
  BY DEF TableOK, table, pruning, cached, CacheNotBehind

(* The callers of merged_list().                                           *)
LEMMA CallsFrame ==
  CallsOK /\ LoadsOK /\ UNCHANGED <<calls, fresh, steady>> => CallsOK' /\ LoadsOK'
  BY DEF CallsOK, LoadsOK, calls, Has

(* The streams.                                                            *)
LEMMA StreamsFrame ==
  StreamsOK /\ UNCHANGED <<sse, phase>> => StreamsOK'
  BY DEF StreamsOK, sse

-----------------------------------------------------------------------------
(* The helpers that several actions call.                                  *)

(* What Touch() does to the streams' views.                                *)
LEMMA TouchTyped ==
  ASSUME behind \in [Streams -> SUBSET Ids], NEW S \in SUBSET Ids, Touch(S)
  PROVE  behind' \in [Streams -> SUBSET Ids]
  BY DEF Touch

(* The new records of a retry: each has an id that was free, names the     *)
(* task that it repeats, and all others stay as they were.                 *)
LEMMA CopiesMade ==
  ASSUME RecordsOK, NEW S, S \subseteq {x \in Ids : status[x] = "failed"},
         NEW f \in Copies(S), CreateCopies(S, f)
  PROVE  /\ {f[x] : x \in S} \subseteq Unused
         /\ status' \in [Ids -> {"none", "pending"} \cup Final]
         /\ origin' \in [Ids -> Ids \cup {Nobody}]
         /\ \A x \in S : status'[f[x]] = "pending" /\ origin'[f[x]] = x
         /\ \A n \in Ids \ {f[x] : x \in S} : status'[n] = status[n] /\ origin'[n] = origin[n]
<1>1. f \in [S -> Unused] /\ \A x, y \in S : f[x] = f[y] => x = y
  BY DEF Copies
<1>2. Unused \subseteq Ids
  BY DEF Unused, Ids
<1>3. \A x \in S : f[x] \in Ids /\ (CHOOSE y \in S : f[y] = f[x]) = x
  BY <1>1, <1>2
<1>4. S \subseteq Ids
  OBVIOUS
<1>5. status' \in [Ids -> {"none", "pending"} \cup Final]
  BY DEF CreateCopies, RecordsOK
<1>6. origin' \in [Ids -> Ids \cup {Nobody}]
  <2>1. \A n \in Ids : (\E x \in S : f[x] = n) => (CHOOSE x \in S : f[x] = n) \in Ids
    BY <1>4
  <2>. QED BY <2>1 DEF CreateCopies, RecordsOK
<1>7. \A x \in S : status'[f[x]] = "pending"
  BY <1>3 DEF CreateCopies
<1>8. \A x \in S : origin'[f[x]] = x
  <2> SUFFICES ASSUME NEW x \in S PROVE origin'[f[x]] = x
    OBVIOUS
  <2>1. origin'[f[x]] = (CHOOSE y \in S : f[y] = f[x])
    BY <1>3 DEF CreateCopies
  <2>. QED BY <2>1, <1>3
<1>9. \A n \in Ids \ {f[x] : x \in S} : status'[n] = status[n] /\ origin'[n] = origin[n]
  BY DEF CreateCopies
<1>10. {f[x] : x \in S} \subseteq Unused
  BY <1>1
<1>. QED BY <1>5, <1>6, <1>7, <1>8, <1>9, <1>10

(* A retry keeps the records in order, also one that a full queue ends.    *)
LEMMA RetryKeepsRecords ==
  ASSUME RecordsOK, NEW S, S \subseteq {x \in Ids : status[x] = "failed"}, RetryAll(S)
  PROVE  RecordsOK'
<1>1. ASSUME NEW f \in Copies(S), CreateCopies(S, f),
             dispatched' = dispatched \cup {f[x] : x \in S},
             store' = (store \cup {f[x] : x \in S}) \ (IF Replaces THEN S ELSE {}),
             removing' = IF Replaces /\ backend THEN removing \cup S ELSE removing,
             Notify(TRUE), Touch(S \cup {f[x] : x \in S})
      PROVE  RecordsOK'
  <2> DEFINE new == {f[x] : x \in S}
  <2>1. /\ new \subseteq Unused
        /\ status' \in [Ids -> {"none", "pending"} \cup Final]
        /\ origin' \in [Ids -> Ids \cup {Nobody}]
        /\ \A x \in S : status'[f[x]] = "pending" /\ origin'[f[x]] = x
        /\ \A n \in Ids \ new : status'[n] = status[n] /\ origin'[n] = origin[n]
    BY <1>1, CopiesMade
  <2>2. new \subseteq Ids /\ (\A n \in new : status[n] = "none" /\ n \notin S)
    BY <2>1 DEF Unused, Ids
  <2>3. behind' \in [Streams -> SUBSET Ids]
    BY <1>1, <2>2, TouchTyped DEF RecordsOK
  <2>4. store' \subseteq Ids /\ dispatched' \subseteq Ids /\ removing' \subseteq Ids
    BY <1>1, <2>2 DEF RecordsOK
  <2>5. fanDue' \in BOOLEAN
    BY <1>1 DEF Notify, RecordsOK
  <2>6. UnfinishedStays'
    BY <1>1, <2>1, <2>2 DEF UnfinishedStays, RecordsOK
  <2>7. DispatchedExist'
    BY <1>1, <2>1, <2>2 DEF DispatchedExist, RecordsOK
  <2>8. RetryKeepsWork'
    <3>1. ASSUME NEW x \in removing PROVE \E n \in dispatched' : origin'[n] = x
      <4>1. PICK n \in dispatched : origin[n] = x
        BY DEF RecordsOK, RetryKeepsWork
      <4>2. n \in Ids \ new
        BY <2>2 DEF RecordsOK, DispatchedExist
      <4>. QED BY <1>1, <2>1, <4>1, <4>2
    <3>2. ASSUME NEW x \in S PROVE \E n \in dispatched' : origin'[n] = x
      BY <1>1, <2>1
    <3>. QED BY <1>1, <3>1, <3>2 DEF RetryKeepsWork
  <2>. QED BY <2>1, <2>3, <2>4, <2>5, <2>6, <2>7, <2>8 DEF RecordsOK
<1>2. ASSUME NEW refused \in S, NEW D \in SUBSET (S \ {refused}),
             NEW f \in Copies(D \cup {refused}), CreateCopies(D \cup {refused}, f),
             dispatched' = dispatched \cup {f[x] : x \in D},
             store' = store \cup {f[x] : x \in D \cup {refused}},
             Notify(TRUE), Touch({f[x] : x \in D \cup {refused}}), UNCHANGED removing
      PROVE  RecordsOK'
  <2> DEFINE R == D \cup {refused}
             new == {f[x] : x \in R}
  <2>1. /\ new \subseteq Unused
        /\ status' \in [Ids -> {"none", "pending"} \cup Final]
        /\ origin' \in [Ids -> Ids \cup {Nobody}]
        /\ \A x \in R : status'[f[x]] = "pending" /\ origin'[f[x]] = x
        /\ \A n \in Ids \ new : status'[n] = status[n] /\ origin'[n] = origin[n]
    <3>1. R \subseteq {x \in Ids : status[x] = "failed"}
      OBVIOUS
    <3>. QED BY <1>2, <3>1, CopiesMade
  <2>2. new \subseteq Ids /\ \A n \in new : status[n] = "none"
    BY <2>1 DEF Unused, Ids
  <2>3. behind' \in [Streams -> SUBSET Ids]
    BY <1>2, <2>2, TouchTyped DEF RecordsOK
  <2>4. store' \subseteq Ids /\ dispatched' \subseteq Ids /\ removing' \subseteq Ids
    BY <1>2, <2>2 DEF RecordsOK
  <2>5. fanDue' \in BOOLEAN
    BY <1>2 DEF Notify, RecordsOK
  <2>6. UnfinishedStays'
    BY <1>2, <2>1, <2>2 DEF UnfinishedStays, RecordsOK
  <2>7. DispatchedExist'
    BY <1>2, <2>1, <2>2 DEF DispatchedExist, RecordsOK
  <2>8. RetryKeepsWork'
    <3>1. ASSUME NEW x \in removing PROVE \E n \in dispatched' : origin'[n] = x
      <4>1. PICK n \in dispatched : origin[n] = x
        BY DEF RecordsOK, RetryKeepsWork
      <4>2. n \in Ids \ new
        BY <2>2 DEF RecordsOK, DispatchedExist
      <4>. QED BY <1>2, <2>1, <4>1, <4>2
    <3>. QED BY <1>2, <3>1 DEF RetryKeepsWork
  <2>. QED BY <2>1, <2>3, <2>4, <2>5, <2>6, <2>7, <2>8 DEF RecordsOK
<1>. QED BY <1>1, <1>2 DEF RetryAll

(* So does whatever a caller makes of the view that merged_list() gave it. *)
LEMMA AnswerKeepsRecords ==
  ASSUME RecordsOK, TableOK, NEW c, NEW w, NEW view \in SUBSET Ids, Answer(c, w, view)
  PROVE  RecordsOK'
<1>1. CASE c \in Streams /\ UNCHANGED <<records, fanDue>>
             /\ behind' = [behind EXCEPT ![c] =
                             {x \in Ids : (x \in store \cup history) # (x \in view)}]
  <2>1. behind' \in [Streams -> SUBSET Ids]
    BY <1>1 DEF RecordsOK
  <2>. QED BY <1>1, <2>1 DEF RecordsOK, records, UnfinishedStays, DispatchedExist, RetryKeepsWork
<1>2. ASSUME NEW S \in SUBSET {x \in view : status[x] = "failed"},
             IF S = {} THEN UNCHANGED <<records, fanDue, behind>> ELSE RetryAll(S)
      PROVE  RecordsOK'
  <2>1. CASE S = {}
    BY <1>2, <2>1, RecordsFrame
  <2>2. CASE S # {}
    <3>1. S \subseteq {x \in Ids : status[x] = "failed"}
      OBVIOUS
    <3>. QED BY <1>2, <2>2, <3>1, RetryKeepsRecords
  <2>. QED BY <2>1, <2>2
<1>. QED BY <1>1, <1>2 DEF Answer

-----------------------------------------------------------------------------
(* The lock of merged_list().                                              *)

(* What is left when one element is taken out of a sequence.               *)
LEMMA RemovedAt ==
  ASSUME NEW S, NEW s \in Seq(S), NEW i \in DOMAIN s
  PROVE  /\ RemoveAt(s, i) \in Seq(S)
         /\ Len(RemoveAt(s, i)) = Len(s) - 1
         /\ \A j \in 1 .. Len(s) - 1 :
               RemoveAt(s, i)[j] = IF j < i THEN s[j] ELSE s[j + 1]
<1> DEFINE before == SubSeq(s, 1, i - 1)
           after == SubSeq(s, i + 1, Len(s))
<1>1. i \in 1 .. Len(s) /\ Len(s) \in Nat
  OBVIOUS
<1>2. /\ before \in Seq(S) /\ Len(before) = i - 1
      /\ \A j \in 1 .. i - 1 : before[j] = s[j]
  BY <1>1
<1>3. /\ after \in Seq(S) /\ Len(after) = Len(s) - i
      /\ \A j \in 1 .. Len(s) - i : after[j] = s[j + i]
  BY <1>1
<1> HIDE DEF before, after
<1>4. /\ before \o after \in Seq(S)
      /\ Len(before \o after) = Len(s) - 1
      /\ \A j \in 1 .. Len(s) - 1 :
            (before \o after)[j] = IF j <= i - 1 THEN before[j] ELSE after[j - (i - 1)]
  <2>1. before \o after \in Seq(S) /\ Len(before \o after) = Len(before) + Len(after)
    BY <1>2, <1>3, ConcatProperties
  <2>2. \A j \in 1 .. Len(before) + Len(after) :
          (before \o after)[j] = IF j <= Len(before) THEN before[j] ELSE after[j - Len(before)]
    BY <1>2, <1>3, ConcatProperties
  <2>3. Len(before) = i - 1 /\ Len(before) + Len(after) = Len(s) - 1
    BY <1>1, <1>2, <1>3
  <2>. QED BY <2>1, <2>2, <2>3
<1>5. ASSUME NEW j \in 1 .. Len(s) - 1
      PROVE  (before \o after)[j] = IF j < i THEN s[j] ELSE s[j + 1]
  <2>1. CASE j < i
    BY <1>1, <1>2, <1>4, <2>1
  <2>2. CASE ~ (j < i)
    <3>1. j - (i - 1) \in 1 .. Len(s) - i /\ (j - (i - 1)) + i = j + 1
      BY <1>1, <2>2
    <3>2. (before \o after)[j] = after[j - (i - 1)]
      BY <1>1, <1>4, <2>2
    <3>3. after[j - (i - 1)] = s[j + 1]
      BY <1>3, <3>1
    <3>. QED BY <2>2, <3>2, <3>3
  <2>. QED BY <2>1, <2>2
<1>6. RemoveAt(s, i) = before \o after
  BY DEF RemoveAt, before, after
<1>. QED BY <1>4, <1>5, <1>6

(* At most one caller loads.                                               *)
LEMMA OneLoads ==
  ASSUME CallsOK, NEW c \in Callers, NEW d \in Callers, Has(c), Has(d)
  PROVE  c = d
  BY DEF CallsOK

(* Done(): the caller leaves the lock, and nobody else moves.              *)
LEMMA DoneKeepsCalls ==
  ASSUME CallsOK, NEW c \in Callers, Done(c)
  PROVE  CallsOK' /\ phase' = [phase EXCEPT ![c] = "idle"]
<1>1. /\ phase' = [phase EXCEPT ![c] = "idle"]
      /\ phase' \in [Callers -> {"idle", "waiting", "loading", "loaded"}]
      /\ want' \in [Callers -> {"failed"} \cup Ids]
      /\ live' \in [Callers -> SUBSET Ids]
      /\ rows' \in [Callers -> SUBSET Ids]
  BY DEF Done, CallsOK
<1>2. CASE phase[c] = "idle"
  BY <1>1, <1>2 DEF Done, CallsOK, Has
<1>3. CASE phase[c] # "idle"
  <2>1. PICK k \in DOMAIN lock : lock[k] = c /\ lock' = RemoveAt(lock, k)
    BY <1>3 DEF Done
  <2>2. lock \in Seq(Callers) /\ DOMAIN lock = 1 .. Len(lock) /\ Len(lock) \in Nat
        /\ k \in 1 .. Len(lock)
    BY <2>1 DEF CallsOK
  <2>3. /\ lock' \in Seq(Callers)
        /\ Len(lock') = Len(lock) - 1
        /\ \A j \in 1 .. Len(lock) - 1 : lock'[j] = IF j < k THEN lock[j] ELSE lock[j + 1]
    BY <2>1, <2>2, RemovedAt
  <2>4. DOMAIN lock' = 1 .. Len(lock) - 1
    BY <2>3
  <2> DEFINE old(j) == IF j < k THEN j ELSE j + 1
  <2>5. \A j \in DOMAIN lock' : old(j) \in DOMAIN lock /\ lock'[j] = lock[old(j)] /\ old(j) # k
    BY <2>2, <2>3, <2>4
  <2>6. \A i, j \in DOMAIN lock : lock[i] = lock[j] => i = j
    BY DEF CallsOK
  <2>7. \A i, j \in DOMAIN lock' : old(i) = old(j) => i = j
    BY <2>2, <2>4
  <2>8. \A i, j \in DOMAIN lock' : lock'[i] = lock'[j] => i = j
    BY <2>5, <2>6, <2>7
  <2>9. \A j \in DOMAIN lock' : lock'[j] # c /\ lock'[j] \in Callers
    BY <2>1, <2>2, <2>5, <2>6
  <2>10. \A j \in DOMAIN lock' : phase'[lock'[j]] # "idle"
    BY <1>1, <2>5, <2>9 DEF CallsOK
  <2>11. ASSUME NEW d \in Callers, phase'[d] # "idle"
         PROVE  \E j \in DOMAIN lock' : lock'[j] = d
    <3>1. d # c /\ phase[d] # "idle"
      BY <1>1, <2>11 DEF CallsOK
    <3>2. PICK i \in DOMAIN lock : lock[i] = d
      BY <3>1 DEF CallsOK
    <3>3. i # k /\ i \in 1 .. Len(lock)
      BY <2>1, <2>2, <3>1, <3>2
    <3>4. CASE i < k
      BY <2>2, <2>3, <2>4, <3>2, <3>3, <3>4
    <3>5. CASE i > k
      <4>1. i - 1 \in 1 .. Len(lock) - 1 /\ ~ (i - 1 < k) /\ (i - 1) + 1 = i
        BY <2>2, <3>3, <3>5
      <4>. QED BY <2>3, <2>4, <3>2, <4>1
    <3>. QED BY <2>2, <3>3, <3>4, <3>5
  <2>12. ASSUME NEW d \in Callers, Has(d)'
         PROVE  lock' # <<>> /\ Head(lock') = d
    <3>1. d # c /\ Has(d)
      BY <1>1, <2>12 DEF CallsOK, Has
    <3>2. lock # <<>> /\ Head(lock) = d
      BY <3>1 DEF CallsOK
    <3>3. 1 \in DOMAIN lock /\ lock[1] = d
      BY <2>2, <3>2
    <3>4. PICK i \in DOMAIN lock' : lock'[i] = d
      BY <1>1, <2>11, <3>1 DEF CallsOK, Has
    <3>5. 1 < k
      BY <2>1, <2>2, <3>1, <3>3
    <3>6. 1 \in 1 .. Len(lock) - 1 /\ lock'[1] = d
      BY <2>2, <2>3, <3>3, <3>5
    <3>. QED BY <2>3, <3>6
  <2>. QED BY <1>1, <2>3, <2>8, <2>10, <2>11, <2>12 DEF CallsOK
<1>. QED BY <1>2, <1>3

(* With the cache as it was, a caller that leaves changes no other's load. *)
LEMMA DoneKeepsLoads ==
  ASSUME CallsOK, LoadsOK, NEW c \in Callers, Done(c), UNCHANGED <<fresh, steady>>
  PROVE  LoadsOK'
<1>1. phase' = [phase EXCEPT ![c] = "idle"] /\ rows' = [rows EXCEPT ![c] = {}]
  BY DEF Done
<1>2. phase \in [Callers -> {"idle", "waiting", "loading", "loaded"}]
      /\ rows \in [Callers -> SUBSET Ids]
  BY DEF CallsOK
<1>3. \A d \in Callers : d # c => phase'[d] = phase[d] /\ rows'[d] = rows[d]
  BY <1>1, <1>2
<1>4. phase'[c] = "idle"
  BY <1>1, <1>2
<1>. QED BY <1>3, <1>4 DEF LoadsOK, Has

(* Ask(): the caller is answered at once, or takes its place in            *)
(* the lock; it loads at once only if the lock was free.                   *)
LEMMA AskKeeps ==
  ASSUME RecordsOK, TableOK, CallsOK, LoadsOK,
         NEW c \in Callers, NEW w \in Ids \cup {"failed"}, phase[c] = "idle",
         Ask(c, w), UNCHANGED <<cached, steady>>
  PROVE  /\ RecordsOK' /\ CallsOK' /\ LoadsOK'
         /\ \A d \in Callers \ {c} : phase'[d] = phase[d]
<1>1. CASE Answer(c, w, store \cup cache) /\ UNCHANGED calls
  <2>1. store \cup cache \in SUBSET Ids
    BY DEF RecordsOK, TableOK
  <2>2. RecordsOK'
    BY <1>1, <2>1, AnswerKeepsRecords
  <2>3. CallsOK' /\ LoadsOK'
    BY <1>1, CallsFrame DEF cached
  <2>. QED BY <1>1, <2>2, <2>3 DEF calls
<1>2. CASE /\ ~fresh
           /\ lock' = Append(lock, c)
           /\ phase' = [phase EXCEPT ![c] = IF lock = <<>> THEN "loading" ELSE "waiting"]
           /\ want' = [want EXCEPT ![c] = w]
           /\ live' = [live EXCEPT ![c] = store]
           /\ UNCHANGED <<records, fanDue, behind, rows>>
  <2>1. RecordsOK'
    BY <1>2, RecordsFrame
  <2>2. /\ lock \in Seq(Callers) /\ Len(lock) \in Nat /\ DOMAIN lock = 1 .. Len(lock)
        /\ phase \in [Callers -> {"idle", "waiting", "loading", "loaded"}]
    BY DEF CallsOK
  <2>3. /\ lock' \in Seq(Callers) /\ DOMAIN lock' = 1 .. Len(lock) + 1
        /\ lock'[Len(lock) + 1] = c
        /\ \A i \in 1 .. Len(lock) : lock'[i] = lock[i]
    BY <1>2, <2>2
  <2>4. /\ phase' \in [Callers -> {"idle", "waiting", "loading", "loaded"}]
        /\ phase'[c] = IF lock = <<>> THEN "loading" ELSE "waiting"
        /\ \A d \in Callers \ {c} : phase'[d] = phase[d]
    BY <1>2, <2>2
  <2>5. \A i \in DOMAIN lock : lock[i] \in Callers /\ lock[i] # c
    BY <2>2 DEF CallsOK
  <2>6. \A i, j \in DOMAIN lock' : lock'[i] = lock'[j] => i = j
    <3>1. \A i \in DOMAIN lock' : i \in DOMAIN lock \/ i = Len(lock) + 1
      BY <2>2, <2>3
    <3>2. \A i, j \in DOMAIN lock : lock[i] = lock[j] => i = j
      BY DEF CallsOK
    <3>. QED BY <2>2, <2>3, <2>5, <3>1, <3>2
  <2>7. \A i \in DOMAIN lock' : phase'[lock'[i]] # "idle"
    <3> SUFFICES ASSUME NEW i \in DOMAIN lock' PROVE phase'[lock'[i]] # "idle"
      OBVIOUS
    <3>1. CASE i = Len(lock) + 1
      BY <2>3, <2>4, <3>1
    <3>2. CASE i \in DOMAIN lock
      BY <2>2, <2>3, <2>4, <2>5, <3>2 DEF CallsOK
    <3>. QED BY <2>2, <2>3, <3>1, <3>2
  <2>8. \A d \in Callers : phase'[d] # "idle" => \E i \in DOMAIN lock' : lock'[i] = d
    <3> SUFFICES ASSUME NEW d \in Callers, phase'[d] # "idle"
                 PROVE  \E i \in DOMAIN lock' : lock'[i] = d
      OBVIOUS
    <3>1. CASE d = c
      BY <2>2, <2>3, <3>1
    <3>2. CASE d # c
      <4>1. PICK i \in DOMAIN lock : lock[i] = d
        BY <2>4, <3>2 DEF CallsOK
      <4>2. i \in DOMAIN lock' /\ lock'[i] = d
        BY <2>2, <2>3, <4>1
      <4>. QED BY <4>2
    <3>. QED BY <3>1, <3>2
  <2>9. \A d \in Callers : Has(d)' => lock' # <<>> /\ Head(lock') = d
    <3> SUFFICES ASSUME NEW d \in Callers, Has(d)' PROVE lock' # <<>> /\ Head(lock') = d
      OBVIOUS
    <3>1. CASE d = c
      <4>1. lock = <<>>
        BY <2>4, <3>1 DEF Has
      <4>. QED BY <1>2, <3>1, <4>1
    <3>2. CASE d # c
      <4>1. lock # <<>> /\ Head(lock) = d
        BY <2>4, <3>2 DEF Has, CallsOK
      <4>2. 1 \in 1 .. Len(lock) /\ lock[1] = d
        BY <2>2, <4>1
      <4>. QED BY <2>2, <2>3, <4>2
    <3>. QED BY <3>1, <3>2
  <2>10. /\ want' \in [Callers -> {"failed"} \cup Ids]
         /\ live' \in [Callers -> SUBSET Ids]
         /\ rows' \in [Callers -> SUBSET Ids]
    BY <1>2 DEF CallsOK, RecordsOK
  <2>11. CallsOK'
    BY <2>3, <2>4, <2>6, <2>7, <2>8, <2>9, <2>10 DEF CallsOK
  <2>12. LoadsOK'
    BY <1>2, <2>4 DEF LoadsOK, Has, cached
  <2>. QED BY <2>1, <2>4, <2>11, <2>12
<1>. QED BY <1>1, <1>2 DEF Ask

-----------------------------------------------------------------------------
(* The steps.                                                              *)

(* Those of the store and of the streams' queues.                          *)
LEMMA RecordSteps ==
  ASSUME IInv, \/ \E x \in Tasks, onLoop \in BOOLEAN : Submit(x, onLoop)
               \/ \E x \in Ids, final \in Final, onLoop \in BOOLEAN : Finish(x, final, onLoop)
               \/ FanOut \/ NotifyShutdown
               \/ \E S \in SUBSET Ids : RetryNow(S)
  PROVE  IInv'
<1> USE DEF IInv
<1>1. ASSUME NEW x \in Tasks, NEW onLoop \in BOOLEAN, Submit(x, onLoop) PROVE IInv'
  <2>1. x \in Ids
    BY DEF Ids
  <2>2. behind' \in [Streams -> SUBSET Ids]
    BY <1>1, <2>1, TouchTyped DEF Submit, RecordsOK
  <2>3. RecordsOK'
    BY <1>1, <2>1, <2>2
       DEF Submit, RecordsOK, Notify, UnfinishedStays, DispatchedExist, RetryKeepsWork
  <2>4. TableOK' /\ CallsOK' /\ LoadsOK' /\ StreamsOK'
    BY <1>1, TableFrame, CallsFrame, StreamsFrame DEF Submit, cached, calls
  <2>. QED BY <2>3, <2>4
<1>2. ASSUME NEW x \in Ids, NEW final \in Final, NEW onLoop \in BOOLEAN,
             Finish(x, final, onLoop)
      PROVE  IInv'
  <2>1. behind' \in [Streams -> SUBSET Ids]
    BY <1>2, TouchTyped DEF Finish, RecordsOK
  <2>2. RecordsOK'
    BY <1>2, <2>1
       DEF Finish, RecordsOK, Notify, Final, UnfinishedStays, DispatchedExist, RetryKeepsWork
  <2>3. TableOK' /\ CallsOK' /\ LoadsOK' /\ StreamsOK'
    BY <1>2, TableFrame, CallsFrame, StreamsFrame DEF Finish, cached, calls
  <2>. QED BY <2>2, <2>3
<1>3. CASE FanOut \/ NotifyShutdown
  <2>1. RecordsOK'
    BY <1>3 DEF FanOut, NotifyShutdown, RecordsOK, records, UnfinishedStays,
                DispatchedExist, RetryKeepsWork
  <2>2. TableOK' /\ CallsOK' /\ LoadsOK'
    BY <1>3, TableFrame, CallsFrame DEF FanOut, NotifyShutdown, cached
  <2>3. StreamsOK'
    BY <1>3 DEF FanOut, NotifyShutdown, StreamsOK, calls
  <2>. QED BY <2>1, <2>2, <2>3
<1>4. ASSUME NEW S \in SUBSET Ids, RetryNow(S) PROVE IInv'
  <2>1. S \subseteq {x \in Ids : status[x] = "failed"} /\ RetryAll(S)
    BY <1>4 DEF RetryNow
  <2>2. RecordsOK'
    BY <2>1, RetryKeepsRecords
  <2>3. TableOK' /\ CallsOK' /\ LoadsOK' /\ StreamsOK'
    BY <1>4, TableFrame, CallsFrame, StreamsFrame DEF RetryNow, cached, calls
  <2>. QED BY <2>2, <2>3
<1>. QED BY <1>1, <1>2, <1>3, <1>4

(* Those of the history table and of the cache's timestamp.                *)
LEMMA TableSteps ==
  ASSUME IInv, \/ \E x \in Ids : DeleteRecord(x)
               \/ \E x \in Tasks : PeerFlush(x)
               \/ FlushList \/ FlushSave
               \/ PruneStore \/ PruneBackend \/ Invalidate
               \/ Expire
  PROVE  IInv'
<1> USE DEF IInv
<1>1. ASSUME NEW x \in Ids, DeleteRecord(x) PROVE IInv'
  <2>1. behind' \in [Streams -> SUBSET Ids]
    BY <1>1, TouchTyped DEF DeleteRecord, RecordsOK
  <2>2. RecordsOK'
    BY <1>1, <2>1
       DEF DeleteRecord, RecordsOK, UnfinishedStays, DispatchedExist, RetryKeepsWork
  <2>3. TableOK'
    BY <1>1 DEF DeleteRecord, TableOK, CacheNotBehind, pruning, cached
  <2>4. CallsOK' /\ LoadsOK' /\ StreamsOK'
    BY <1>1, StreamsFrame DEF DeleteRecord, CallsOK, LoadsOK, Has, calls, cached
  <2>. QED BY <2>2, <2>3, <2>4
<1>2. ASSUME NEW x \in Tasks, PeerFlush(x) PROVE IInv'
  <2>1. x \in Ids
    BY DEF Ids
  <2>2. behind' \in [Streams -> SUBSET Ids]
    BY <1>2, <2>1, TouchTyped DEF PeerFlush, RecordsOK
  <2>3. RecordsOK'
    BY <1>2, <2>2
       DEF PeerFlush, RecordsOK, records, UnfinishedStays, DispatchedExist, RetryKeepsWork
  <2>4. TableOK'
    BY <1>2, <2>1 DEF PeerFlush, TableOK, CacheNotBehind, pruning, cached
  <2>5. CallsOK' /\ LoadsOK' /\ StreamsOK'
    BY <1>2, CallsFrame, StreamsFrame DEF PeerFlush, calls, cached
  <2>. QED BY <2>3, <2>4, <2>5
<1>3. CASE FlushList
  <2>1. TableOK'
    BY <1>3 DEF FlushList, TableOK, CacheNotBehind, pruning, cached, Finished
  <2>. QED BY <1>3, <2>1, RecordsFrame, CallsFrame, StreamsFrame DEF FlushList, calls, cached
<1>4. CASE FlushSave
  <2>1. saving \ history \in SUBSET Ids
    BY DEF TableOK
  <2>2. behind' \in [Streams -> SUBSET Ids]
    BY <1>4, <2>1, TouchTyped DEF FlushSave, RecordsOK
  <2>3. RecordsOK'
    BY <1>4, <2>2
       DEF FlushSave, RecordsOK, records, UnfinishedStays, DispatchedExist, RetryKeepsWork
  <2>4. TableOK'
    BY <1>4 DEF FlushSave, TableOK, CacheNotBehind, pruning, cached
  <2>. QED BY <1>4, <2>3, <2>4, CallsFrame, StreamsFrame DEF FlushSave, calls, cached
<1>5. CASE PruneStore
  <2>1. PICK S \in SUBSET Finished \ {{}} :
               /\ store' = store \ S /\ Touch(store \cap S)
               /\ \/ cut' = S /\ pruner' \in {"deleting", "sweeping"}
                  \/ UNCHANGED pruning
    BY <1>5 DEF PruneStore
  <2>2. store \cap S \in SUBSET Ids /\ S \subseteq Ids /\ \A x \in S : status[x] # "pending"
    BY DEF Finished, Final
  <2>3. behind' \in [Streams -> SUBSET Ids]
    BY <2>1, <2>2, TouchTyped DEF RecordsOK
  <2>4. UNCHANGED <<status, dispatched, origin, removing, fanDue>>
    BY <1>5 DEF PruneStore
  <2>5. RecordsOK'
    BY <2>1, <2>2, <2>3, <2>4
       DEF RecordsOK, UnfinishedStays, DispatchedExist, RetryKeepsWork
  <2>6. cut' \subseteq Ids /\ pruner' \in {"idle", "deleting", "sweeping", "returning"}
    BY <2>1, <2>2 DEF pruning, TableOK
  <2>7. TableOK'
    BY <1>5, <2>6 DEF PruneStore, TableOK, CacheNotBehind, table, cached
  <2>. QED BY <1>5, <2>5, <2>7, CallsFrame, StreamsFrame DEF PruneStore, calls, cached
<1>6. CASE PruneBackend
  <2> DEFINE gone == {x \in history \cap cut : status[x] # "cancelled"}
  <2>1. history' = history \ gone /\ Touch(gone) /\ cut' = {} /\ steady' = steady \cap history'
        /\ UNCHANGED <<records, saving, cached, calls, sse, fanDue>>
    BY <1>6 DEF PruneBackend
  <2>2. gone \in SUBSET Ids
    BY DEF TableOK
  <2>3. behind' \in [Streams -> SUBSET Ids]
    BY <2>1, <2>2, TouchTyped DEF RecordsOK
  <2>4. RecordsOK'
    BY <2>1, <2>3
       DEF RecordsOK, records, UnfinishedStays, DispatchedExist, RetryKeepsWork
  <2>5. pruner' \in {"idle", "deleting", "sweeping", "returning"}
    BY <1>6 DEF PruneBackend
  <2>6. TableOK'
    BY <2>1, <2>5 DEF TableOK, CacheNotBehind, cached
  <2>7. CallsOK' /\ LoadsOK' /\ StreamsOK'
    BY <2>1, StreamsFrame DEF CallsOK, LoadsOK, Has, calls, cached
  <2>. QED BY <2>4, <2>6, <2>7
<1>7. CASE Invalidate
  <2>1. TableOK'
    BY <1>7 DEF Invalidate, TableOK, CacheNotBehind, table
  <2>2. CallsOK' /\ LoadsOK'
    BY <1>7 DEF Invalidate, CallsOK, LoadsOK, Has, calls
  <2>. QED BY <1>7, <2>1, <2>2, RecordsFrame, StreamsFrame DEF Invalidate, calls
<1>8. CASE Expire
  <2>1. TableOK'
    BY <1>8 DEF Expire, TableOK, CacheNotBehind, table, pruning
  <2>2. CallsOK' /\ LoadsOK'
    BY <1>8 DEF Expire, CallsOK, LoadsOK, Has, calls
  <2>. QED BY <1>8, <2>1, <2>2, RecordsFrame, StreamsFrame DEF Expire, calls
<1>. QED BY <1>1, <1>2, <1>3, <1>4, <1>5, <1>6, <1>7, <1>8

(* A caller that leaves merged_list() with the cache as it was.            *)
LEMMA LeaveStep ==
  ASSUME IInv, NEW c \in Callers, Done(c), UNCHANGED <<cached, steady>>
  PROVE  CallsOK' /\ LoadsOK' /\ \A s \in Streams : phase[s] = "idle" => phase'[s] = "idle"
<1>1. CallsOK' /\ phase' = [phase EXCEPT ![c] = "idle"]
  BY DoneKeepsCalls DEF IInv
<1>2. LoadsOK'
  BY DoneKeepsLoads DEF IInv, cached
<1>. QED BY <1>1, <1>2 DEF IInv, CallsOK, Callers

(* Those of a caller of merged_list().                                     *)
LEMMA CallerSteps ==
  ASSUME IInv, NEW c \in Callers,
         \/ c \in Requests /\ \E w \in Ids \cup {"failed"} : RetryFailed(c, w)
         \/ Wake(c) \/ LoadRead(c) \/ LoadReturns(c)
         \/ c \in Requests /\ LoadFails(c)
  PROVE  IInv'
<1> USE DEF IInv
<1>1. ASSUME c \in Requests, NEW w \in Ids \cup {"failed"}, RetryFailed(c, w) PROVE IInv'
  <2>1. /\ RecordsOK' /\ CallsOK' /\ LoadsOK'
        /\ \A d \in Callers \ {c} : phase'[d] = phase[d]
    BY <1>1, AskKeeps DEF RetryFailed
  <2>2. TableOK'
    BY <1>1, TableFrame DEF RetryFailed
  <2>3. c \notin Streams
    BY <1>1, CallersAssumption DEF CallersAssumption
  <2>4. StreamsOK'
    BY <1>1, <2>1, <2>3 DEF RetryFailed, StreamsOK, sse, Callers
  <2>. QED BY <2>1, <2>2, <2>4
<1>2. CASE Wake(c)
  <2>1. TableOK'
    BY <1>2, TableFrame DEF Wake
  <2>2. CASE fresh /\ Answer(c, want[c], live[c] \cup cache) /\ Done(c)
    <3>1. live[c] \cup cache \in SUBSET Ids
      BY DEF CallsOK, TableOK
    <3>2. RecordsOK'
      BY <2>2, <3>1, AnswerKeepsRecords
    <3>3. CallsOK' /\ LoadsOK' /\ \A s \in Streams : phase[s] = "idle" => phase'[s] = "idle"
      BY <1>2, <2>2, LeaveStep DEF Wake
    <3>4. StreamsOK'
      BY <1>2, <3>3 DEF Wake, StreamsOK, sse
    <3>. QED BY <2>1, <3>2, <3>3, <3>4
  <2>3. CASE /\ ~fresh /\ phase' = [phase EXCEPT ![c] = "loading"]
             /\ UNCHANGED <<lock, want, live, rows, records, fanDue, behind>>
    <3>1. lock # <<>> /\ Head(lock) = c /\ phase[c] = "waiting"
      BY <1>2 DEF Wake
    <3>2. /\ phase' \in [Callers -> {"idle", "waiting", "loading", "loaded"}]
          /\ phase'[c] = "loading" /\ \A d \in Callers \ {c} : phase'[d] = phase[d]
      BY <2>3 DEF CallsOK
    <3>3. \A i \in DOMAIN lock : lock[i] \in Callers
      BY DEF CallsOK
    <3>4. CallsOK'
      BY <2>3, <3>1, <3>2, <3>3 DEF CallsOK, Has
    <3>5. LoadsOK'
      BY <1>2, <2>3, <3>2 DEF Wake, LoadsOK, Has, cached
    <3>6. \A s \in Streams : phase[s] = "idle" => phase'[s] = "idle"
      BY <3>1, <3>2 DEF Callers
    <3>7. StreamsOK'
      BY <1>2, <3>6 DEF Wake, StreamsOK, sse
    <3>. QED BY <2>1, <2>3, <3>4, <3>5, <3>7, RecordsFrame
  <2>. QED BY <1>2, <2>2, <2>3 DEF Wake
<1>3. CASE LoadRead(c)
  <2>1. TableOK' /\ RecordsOK'
    BY <1>3, TableFrame, RecordsFrame DEF LoadRead
  <2>2. /\ phase' \in [Callers -> {"idle", "waiting", "loading", "loaded"}]
        /\ rows' \in [Callers -> SUBSET Ids]
        /\ phase[c] = "loading" /\ phase'[c] = "loaded" /\ rows'[c] = history
        /\ \A d \in Callers \ {c} : phase'[d] = phase[d] /\ rows'[d] = rows[d]
    BY <1>3 DEF LoadRead, CallsOK, TableOK
  <2>3. \A i \in DOMAIN lock : lock[i] \in Callers
    BY DEF CallsOK
  <2>4. CallsOK'
    BY <1>3, <2>2, <2>3 DEF LoadRead, CallsOK, Has
  <2>5. LoadsOK'
    BY <1>3, <2>2 DEF LoadRead, LoadsOK, Has, cached, TableOK
  <2>6. StreamsOK'
    BY <1>3, <2>2 DEF LoadRead, StreamsOK, sse, Callers
  <2>. QED BY <2>1, <2>4, <2>5, <2>6
<1>4. CASE LoadReturns(c)
  <2>1. phase[c] = "loaded" /\ Has(c) /\ cache' = rows[c] /\ fresh' = TRUE /\ Done(c)
        /\ Answer(c, want[c], live[c] \cup rows[c])
        /\ UNCHANGED <<table, pruning, backend, sse, steady>>
    BY <1>4 DEF LoadReturns, Has
  <2>2. TableOK'
    BY <2>1 DEF TableOK, CallsOK, LoadsOK, CacheNotBehind, table, pruning
  <2>3. live[c] \cup rows[c] \in SUBSET Ids
    BY DEF CallsOK
  <2>4. RecordsOK'
    BY <2>1, <2>3, AnswerKeepsRecords
  <2>5. CallsOK' /\ phase' = [phase EXCEPT ![c] = "idle"]
    BY <2>1, DoneKeepsCalls
  <2>6. \A d \in Callers : phase'[d] = (IF d = c THEN "idle" ELSE phase[d])
    BY <2>5 DEF CallsOK
  <2>7. LoadsOK'
    <3>1. ASSUME NEW d \in Callers PROVE ~ Has(d)'
      <4>1. CASE d = c
        BY <2>6, <4>1 DEF Has
      <4>2. CASE d # c
        BY <2>1, <2>6, <4>2, OneLoads DEF Has
      <4>. QED BY <4>1, <4>2
    <3>. QED BY <3>1 DEF LoadsOK, Has
  <2>8. StreamsOK'
    BY <2>1, <2>6 DEF StreamsOK, sse, Callers
  <2>. QED BY <2>2, <2>4, <2>5, <2>7, <2>8
<1>5. CASE LoadFails(c)
  <2>1. CallsOK' /\ LoadsOK' /\ \A s \in Streams : phase[s] = "idle" => phase'[s] = "idle"
    BY <1>5, LeaveStep DEF LoadFails
  <2>2. StreamsOK'
    BY <1>5, <2>1 DEF LoadFails, StreamsOK, sse
  <2>. QED BY <1>5, <2>1, <2>2, RecordsFrame, TableFrame DEF LoadFails
<1>. QED BY <1>1, <1>2, <1>3, <1>4, <1>5

(* Those of a stream.                                                      *)
LEMMA StreamSteps ==
  ASSUME IInv, NEW s \in Streams,
         Open(s) \/ TakeChange(s) \/ TimeoutPoll(s) \/ TakeSentinel(s) \/ Disconnect(s)
  PROVE  IInv'
<1> USE DEF IInv
<1>0. s \in Callers
  BY DEF Callers
<1>1. CASE Open(s) \/ TakeChange(s) \/ TimeoutPoll(s)
  <2>1. phase[s] = "idle" /\ Ask(s, "failed") /\ UNCHANGED <<table, pruning, cached, ending, steady>>
    BY <1>1 DEF Open, TakeChange, TimeoutPoll, Idle, StreamsOK, sse
  <2>2. /\ RecordsOK' /\ CallsOK' /\ LoadsOK'
        /\ \A d \in Callers \ {s} : phase'[d] = phase[d]
    BY <1>0, <2>1, AskKeeps
  <2>3. TableOK'
    BY <2>1, TableFrame
  <2>4. s \in open' /\ open \subseteq open' /\ open' \subseteq Streams
        /\ queue' \in [Streams -> {"empty", "change", "end"}]
    BY <1>1 DEF Open, TakeChange, TimeoutPoll, Idle, StreamsOK, sse
  <2>5. StreamsOK'
    BY <2>1, <2>2, <2>4 DEF StreamsOK, Callers
  <2>. QED BY <2>2, <2>3, <2>5
<1>2. ASSUME Close(s), \A d \in Streams : phase[d] = "idle" => phase'[d] = "idle", phase'[s] = "idle"
      PROVE  RecordsOK' /\ TableOK' /\ StreamsOK'
  <2>1. behind' \in [Streams -> SUBSET Ids]
    BY <1>2 DEF Close, RecordsOK
  <2>2. RecordsOK'
    BY <1>2, <2>1
       DEF Close, RecordsOK, records, UnfinishedStays, DispatchedExist, RetryKeepsWork
  <2>3. TableOK'
    BY <1>2, TableFrame DEF Close
  <2>4. StreamsOK'
    BY <1>2 DEF Close, StreamsOK
  <2>. QED BY <2>2, <2>3, <2>4
<1>3. CASE TakeSentinel(s)
  <2>1. Close(s) /\ UNCHANGED calls /\ phase[s] = "idle"
    BY <1>3 DEF TakeSentinel, Idle
  <2>2. CallsOK' /\ LoadsOK'
    BY <2>1, CallsFrame DEF Close, cached
  <2>. QED BY <1>2, <2>1, <2>2 DEF calls
<1>4. CASE Disconnect(s)
  <2>1. Close(s) /\ Done(s)
    BY <1>4 DEF Disconnect
  <2>2. CallsOK' /\ LoadsOK' /\ \A d \in Streams : phase[d] = "idle" => phase'[d] = "idle"
    BY <1>0, <2>1, LeaveStep DEF Close
  <2>3. phase'[s] = "idle"
    BY <1>0, <2>1 DEF Done, CallsOK
  <2>. QED BY <1>2, <2>1, <2>2, <2>3
<1>. QED BY <1>1, <1>3, <1>4

(* Every step keeps the invariant.                                         *)
LEMMA StepIInv == IInv /\ [Next]_vars => IInv'
<1> SUFFICES ASSUME IInv, [Next]_vars PROVE IInv'
  OBVIOUS
<1>1. CASE UNCHANGED vars
  BY <1>1, RecordsFrame, TableFrame, CallsFrame, StreamsFrame DEF vars, IInv, cached, calls
<1>2. CASE Next
  <2>1. \A r \in Requests : r \in Callers
    BY DEF Callers
  <2>. QED BY <1>2, <2>1, RecordSteps, TableSteps, CallerSteps, StreamSteps DEF Next
<1>. QED BY <1>1, <1>2

(* The inductive invariant holds of every reachable state.                 *)
LEMMA Invariance == Spec => []IInv
  BY InitIInv, StepIInv, PTL DEF Spec

-----------------------------------------------------------------------------
(* Every reachable state is well typed; in particular only the caller at   *)
(* the head of _backend_cache_lock loads (manager.py, merged_list()).      *)
THEOREM TypeCorrect == Spec => []TypeOK
  BY Typed, Invariance, PTL

(* A retry loses no work: before the record of a task is scheduled for     *)
(* deletion, a queue or the event loop has accepted the task that repeats  *)
(* it, also when a full queue ends the loop (router.py, retry endpoints).  *)
THEOREM RetryKeepsWorkAlways == Spec => []RetryKeepsWork
<1>1. IInv => RetryKeepsWork
  BY DEF IInv, RecordsOK
<1>. QED BY <1>1, Invariance, PTL

(* No deletion of old records and no retry takes the record of a task that *)
(* has not ended out of the store (store.py, snapshot.py, router.py).      *)
THEOREM UnfinishedStaysAlways == Spec => []UnfinishedStays
<1>1. IInv => UnfinishedStays
  BY DEF IInv, RecordsOK
<1>. QED BY <1>1, Invariance, PTL

(* A fresh cache lacks no row that was there at the last expiry and has    *)
(* stayed, whichever loads, deletions and disconnections came in between   *)
(* (manager.py, merged_list()).                                            *)
THEOREM CacheNotBehindAlways == Spec => []CacheNotBehind
<1>1. IInv => CacheNotBehind
  BY DEF IInv, TableOK
<1>. QED BY <1>1, Invariance, PTL
================================================================================
