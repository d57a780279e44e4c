----------------------------- MODULE BackendsProofs -----------------------------
(***************************************************************************)
(* What holds of every backend for any number of clients and of keys: each *)
(* row is claimed once, each load meets its contract, and Redis loses a    *)
(* row from its index only in the two ways that are known.                 *)
(*                                                                         *)
(* The argument: whoever may still claim a row is told apart from whoever  *)
(* has it by the row itself; in PostgreSQL, where a claim is a transaction *)
(* of several steps, the rows that a transaction has locked are there and  *)
(* are nobody else's.                                                      *)
(***************************************************************************)
EXTENDS Backends, TLAPS

-----------------------------------------------------------------------------
(* The inductive invariant.                                                *)

(* Which calls there are in which table of which backend.                  *)
StepOfTable ==
    \A c \in Clients :
        /\ step[c] \in {"keys", "cleaning"} => dialect = "redis" /\ table \in Loaded
        /\ step[c] = "pruning" => dialect = "redis" /\ table = "history"
        /\ step[c] = "replacing" => dialect \in {"redis", "postgres"} /\ table = "pending"
        /\ step[c] = "replaced" => dialect = "postgres" /\ table = "pending"
        /\ step[c] \in {"claiming", "claimed"} => dialect = "postgres" /\ table \in Claimed
        /\ step[c] \in {"locking", "locked"} => dialect = "postgres" /\ table = "locks"

(* A row that is there may be claimed; where the first writer wins, one    *)
(* that is not there or is over may be taken.                              *)
RowsOwed ==
    /\ over = {}
    /\ table \notin FirstWins => hash \subseteq owed
    /\ table \in FirstWins => owed = Keys \ (hash \ expired)
    /\ dialect = "redis" => expired = {}

Holds(c) == step[c] \in {"replaced", "claimed", "locked"}

(* The rows of a transaction of PostgreSQL.                                *)
RowsHeld ==
    /\ dialect = "postgres" =>
          \A c \in Clients :
             step[c] \in {"replacing", "replaced", "claiming", "claimed"} => ids[c] \subseteq hash
    /\ \A c \in Clients : step[c] = "locked" => ids[c] \cap (hash \ expired) = {}
    /\ \A c, d \in Clients : Holds(c) /\ Holds(d) /\ c # d => ids[c] \cap ids[d] = {}

(* What a load has read is between what it must and what it may give back. *)
Between(c, rows) == sure[c] \subseteq rows /\ rows \subseteq maybe[c]

RowsRead ==
    \A c \in Clients :
        /\ step[c] \notin {"cleaning", "found"} => found[c] = {}
        /\ step[c] = "keys" => sure[c] \subseteq ids[c]
        /\ step[c] \in {"cleaning", "found"} => Between(c, found[c])
        /\ view[c] # NoView => Between(c, view[c])

IInv == TypeOK /\ StepOfTable /\ RowsOwed /\ RowsHeld /\ RowsReachable /\ RowsRead

-----------------------------------------------------------------------------
LEMMA InitIInv == Init => IInv
<1> SUFFICES ASSUME Init PROVE IInv
  OBVIOUS
<1>1. TypeOK
  BY DEF Init, TypeOK
<1>2. StepOfTable /\ RowsOwed /\ RowsHeld /\ RowsReachable /\ RowsRead
  BY DEF Init, StepOfTable, RowsOwed, RowsHeld, Holds, RowsReachable, RowsRead, FirstWins
<1>. QED BY <1>1, <1>2 DEF IInv

-----------------------------------------------------------------------------
(* What each step does to the histories.                                   *)
LEMMA WatchType ==
  ASSUME TypeOK, Watch, hash' \in SUBSET Keys
  PROVE  /\ dialect' = dialect /\ table' = table
         /\ sure' \in [Clients -> SUBSET Keys] /\ maybe' \in [Clients -> SUBSET Keys]
BY DEF TypeOK, Watch, setup


LEMMA TypeStep == IInv /\ [Next]_vars => TypeOK'
<1> SUFFICES ASSUME IInv, [Next]_vars PROVE TypeOK'
  OBVIOUS
<1> USE WatchType DEF IInv, TypeOK, RowsOwed, Observe, calls, claims, setup, Saved, Claimed,
        FirstWins
<1>1. CASE Redis
  <2>1. ASSUME NEW rows \in SUBSET Keys, RedisSave(rows) PROVE TypeOK'
    BY <2>1 DEF RedisSave, RedisWrites
  <2>2. ASSUME NEW rows \in SUBSET Keys, RedisDeleteRecords(rows) PROVE TypeOK'
    BY <2>2 DEF RedisDeleteRecords, Deleted
  <2>3. ASSUME NEW k \in Keys, RedisSaveScheduled(k) PROVE TypeOK'
    BY <2>3 DEF RedisSaveScheduled, RedisWrites
  <2>4. ASSUME NEW k \in Keys, RedisExpire(k) PROVE TypeOK'
    BY <2>4 DEF RedisExpire
  <2>5. ASSUME NEW k \in Keys, RedisClaim(k) PROVE TypeOK'
    BY <2>5 DEF RedisClaim, Win
  <2>6. ASSUME NEW k \in Keys, RedisRecord(k) \/ RedisLock(k) PROVE TypeOK'
    BY <2>6 DEF RedisRecord, RedisLock, Record, Lock, Take, Win
  <2>7. ASSUME NEW k \in Keys, RedisLockExpires(k) PROVE TypeOK'
    BY <2>7 DEF RedisLockExpires
  <2>8. ASSUME NEW c \in Clients, RedisCheck(c) \/ RedisCompletedIds(c)
        PROVE  TypeOK'
    BY <2>8 DEF RedisCheck, RedisCompletedIds, Reads
  <2>9. ASSUME NEW c \in Clients, RedisPruneReads(c) PROVE TypeOK'
    BY <2>9 DEF RedisPruneReads, Goes
  <2>10. ASSUME NEW c \in Clients, RedisPruneDeletes(c) PROVE TypeOK'
    BY <2>10 DEF RedisPruneDeletes, Goes, Deleted
  <2>11. ASSUME NEW c \in Clients, RedisReadIndex(c) PROVE TypeOK'
    BY <2>11 DEF RedisReadIndex, Goes
  <2>12. ASSUME NEW c \in Clients, RedisFetch(c) PROVE TypeOK'
    BY <2>12 DEF RedisFetch, Goes
  <2>13. ASSUME NEW c \in Clients, RedisCleanIndex(c) PROVE TypeOK'
    BY <2>13 DEF RedisCleanIndex, Goes, StepOfTable
  <2>14. ASSUME NEW c \in Clients, RedisReplaceReads(c) PROVE TypeOK'
    BY <2>14 DEF RedisReplaceReads, Goes
  <2>15. ASSUME NEW c \in Clients, NEW rows \in SUBSET Keys, RedisReplace(c,
         rows)
        PROVE  TypeOK'
    BY <2>15 DEF RedisReplace, Goes
  <2>. QED
    BY <1>1, <2>1, <2>2, <2>3, <2>4, <2>5, <2>6, <2>7, <2>8, <2>9, <2>10, <2>11,
       <2>12, <2>13, <2>14, <2>15
    DEF Redis
<1>2. CASE SqliteNext
  <2>1. ASSUME NEW k \in Keys, SqliteClaim(k) PROVE TypeOK'
    BY <2>1 DEF SqliteClaim, Sqlite, Win
  <2>2. ASSUME NEW k \in Keys, SqliteRecord(k) \/ SqliteLock(k) PROVE TypeOK'
    BY <2>2 DEF SqliteRecord, SqliteLock, Sqlite, Record, Lock, Take, Win
  <2>3. ASSUME NEW c \in Clients, SqliteLoad(c) \/ SqliteCheck(c) PROVE TypeOK'
    BY <2>3 DEF SqliteLoad, SqliteCheck, Reads
  <2>4. ASSUME NEW rows \in SUBSET Keys, SqliteSave(rows) \/ SqliteReplace(rows)
        PROVE  TypeOK'
    BY <2>4 DEF SqliteSave, SqliteReplace, Sqlite
  <2>5. ASSUME NEW rows \in SUBSET Keys, SqliteDelete(rows) PROVE TypeOK'
    BY <2>5 DEF SqliteDelete, Deleted
  <2>. QED
    BY <1>2, <2>1, <2>2, <2>3, <2>4, <2>5
    DEF SqliteNext
<1>3. CASE Postgres
  <2>1. ASSUME NEW rows \in SUBSET Keys, PgSave(rows) PROVE TypeOK'
    BY <2>1 DEF PgSave
  <2>2. ASSUME NEW rows \in SUBSET Keys, PgDelete(rows) PROVE TypeOK'
    BY <2>2 DEF PgDelete, Deleted
  <2>3. ASSUME NEW k \in Keys, PgRecord(k) PROVE TypeOK'
    BY <2>3 DEF PgRecord, Record, Take, Win
  <2>4. ASSUME NEW c \in Clients, PgCheck(c) \/ PgLoad(c) PROVE TypeOK'
    BY <2>4 DEF PgCheck, PgLoad, Reads
  <2>5. ASSUME NEW c \in Clients, NEW k \in Keys, PgClaim(c, k) \/ PgLock(c, k)
        PROVE  TypeOK'
    BY <2>5 DEF PgClaim, PgLock, Goes
  <2>6. ASSUME NEW c \in Clients, PgReplace(c) PROVE TypeOK'
    BY <2>6 DEF PgReplace, Goes
  <2>7. ASSUME NEW c \in Clients, PgLocks(c) PROVE TypeOK'
    BY <2>7 DEF PgLocks, Goes, Locked, Locking
  <2>8. ASSUME NEW c \in Clients, PgLockInserts(c) PROVE TypeOK'
    BY <2>8 DEF PgLockInserts, Goes, Locked, Locking
  <2>9. ASSUME NEW c \in Clients, PgLockRefused(c) PROVE TypeOK'
    BY <2>9 DEF PgLockRefused, Goes
  <2>10. ASSUME NEW c \in Clients, PgLockCommits(c) PROVE TypeOK'
    BY <2>10 DEF PgLockCommits, Goes, Win
  <2>11. ASSUME NEW c \in Clients, PgClaimCommits(c) PROVE TypeOK'
    BY <2>11 DEF PgClaimCommits, Commit, Win, StepOfTable
  <2>12. ASSUME NEW c \in Clients, NEW rows \in SUBSET Keys, PgReplaceCommits(c,
         rows)
        PROVE  TypeOK'
    BY <2>12 DEF PgReplaceCommits, Commit, Locked, Locking, StepOfTable
  <2>13. ASSUME NEW c \in Clients, PgAbort(c) PROVE TypeOK'
    BY <2>13 DEF PgAbort
  <2>. QED
    BY <1>3, <2>1, <2>2, <2>3, <2>4, <2>5, <2>6, <2>7, <2>8, <2>9, <2>10, <2>11,
       <2>12, <2>13
    DEF Postgres
<1>4. CASE MySql
  <2>1. ASSUME NEW c \in Clients, MySqlLoad(c) \/ MySqlCheck(c) PROVE TypeOK'
    BY <2>1 DEF MySqlLoad, MySqlCheck, MySqlReads, Reads
  <2>7. ASSUME NEW c \in Clients, MySqlLoadDue(c) PROVE TypeOK'
    BY <2>7 DEF MySqlLoadDue, MySqlReads, Reads
  <2>2. ASSUME NEW c \in Clients, MySqlReconnect(c) PROVE TypeOK'
    BY <2>2 DEF MySqlReconnect, Transaction
  <2>3. ASSUME NEW c \in Clients, NEW k \in Keys, MySqlClaim(c, k) PROVE TypeOK'
    BY <2>3 DEF MySqlClaim, Transaction, Win
  <2>4. ASSUME NEW c \in Clients, NEW k \in Keys, MySqlRecord(c, k) \/
         MySqlLock(c, k)
        PROVE  TypeOK'
    BY <2>4 DEF MySqlRecord, MySqlLock, Record, Lock, Take, Transaction, Win
  <2>5. ASSUME NEW c \in Clients, NEW rows \in SUBSET Keys, MySqlSave(c, rows)
         \/ MySqlReplace(c, rows)
        PROVE  TypeOK'
    BY <2>5 DEF MySqlSave, MySqlReplace, Transaction
  <2>6. ASSUME NEW c \in Clients, NEW rows \in SUBSET Keys, MySqlDelete(c, rows)
        PROVE  TypeOK'
    BY <2>6 DEF MySqlDelete, Deleted, Transaction
  <2>. QED
    BY <1>4, <2>1, <2>2, <2>3, <2>4, <2>5, <2>6, <2>7
    DEF MySql
<1>5. ASSUME NEW c \in Clients, LoadReturns(c) PROVE TypeOK'
  BY <1>5 DEF LoadReturns
<1>6. ASSUME NEW k \in Keys, LockExpires(k) PROVE TypeOK'
  BY <1>6 DEF LockExpires
<1>7. CASE UNCHANGED vars
  BY <1>7 DEF vars
<1>. QED
  BY <1>1, <1>2, <1>3, <1>4, <1>5, <1>6, <1>7
  DEF Next

LEMMA ClaimsStep == IInv /\ [Next]_vars => StepOfTable' /\ RowsOwed' /\ RowsHeld'
<1> DEFINE Claims == StepOfTable /\ RowsOwed /\ RowsHeld
<1> SUFFICES ASSUME IInv, [Next]_vars PROVE Claims'
  OBVIOUS
<1> USE DEF IInv, TypeOK, StepOfTable, RowsOwed, RowsHeld, Holds, Observe, Watch, calls,
        claims, setup, Saved, Claimed, Loaded, FirstWins
<1>1. CASE Redis
  <2>1. ASSUME NEW rows \in SUBSET Keys, RedisSave(rows) PROVE Claims'
    BY <2>1 DEF RedisSave, RedisWrites
  <2>2. ASSUME NEW rows \in SUBSET Keys, RedisDeleteRecords(rows) PROVE Claims'
    BY <2>2 DEF RedisDeleteRecords, Deleted
  <2>3. ASSUME NEW k \in Keys, RedisSaveScheduled(k) PROVE Claims'
    BY <2>3 DEF RedisSaveScheduled, RedisWrites
  <2>4. ASSUME NEW k \in Keys, RedisExpire(k) PROVE Claims'
    BY <2>4 DEF RedisExpire
  <2>5. ASSUME NEW k \in Keys, RedisClaim(k) PROVE Claims'
    BY <2>5 DEF RedisClaim, Win
  <2>6. ASSUME NEW k \in Keys, RedisRecord(k) \/ RedisLock(k) PROVE Claims'
    BY <2>6 DEF RedisRecord, RedisLock, Record, Lock, Take, Win
  <2>7. ASSUME NEW k \in Keys, RedisLockExpires(k) PROVE Claims'
    BY <2>7 DEF RedisLockExpires
  <2>8. ASSUME NEW c \in Clients, RedisCheck(c) \/ RedisCompletedIds(c)
        PROVE  Claims'
    BY <2>8 DEF RedisCheck, RedisCompletedIds, Reads
  <2>9. ASSUME NEW c \in Clients, RedisPruneReads(c) PROVE Claims'
    BY <2>9 DEF RedisPruneReads, Goes
  <2>10. ASSUME NEW c \in Clients, RedisPruneDeletes(c) PROVE Claims'
    BY <2>10 DEF RedisPruneDeletes, Goes, Deleted
  <2>11. ASSUME NEW c \in Clients, RedisReadIndex(c) PROVE Claims'
    BY <2>11 DEF RedisReadIndex, Goes
  <2>12. ASSUME NEW c \in Clients, RedisFetch(c) PROVE Claims'
    BY <2>12 DEF RedisFetch, Goes
  <2>13. ASSUME NEW c \in Clients, RedisCleanIndex(c) PROVE Claims'
    BY <2>13 DEF RedisCleanIndex, Goes
  <2>14. ASSUME NEW c \in Clients, RedisReplaceReads(c) PROVE Claims'
    BY <2>14 DEF RedisReplaceReads, Goes
  <2>15. ASSUME NEW c \in Clients, NEW rows \in SUBSET Keys, RedisReplace(c,
         rows)
        PROVE  Claims'
    BY <2>15 DEF RedisReplace, Goes
  <2>. QED
    BY <1>1, <2>1, <2>2, <2>3, <2>4, <2>5, <2>6, <2>7, <2>8, <2>9, <2>10, <2>11,
       <2>12, <2>13, <2>14, <2>15
    DEF Redis
<1>2. CASE SqliteNext
  <2>1. ASSUME NEW k \in Keys, SqliteClaim(k) PROVE Claims'
    BY <2>1 DEF SqliteClaim, Sqlite, Win
  <2>2. ASSUME NEW k \in Keys, SqliteRecord(k) \/ SqliteLock(k) PROVE Claims'
    BY <2>2 DEF SqliteRecord, SqliteLock, Sqlite, Record, Lock, Take, Win
  <2>3. ASSUME NEW c \in Clients, SqliteLoad(c) \/ SqliteCheck(c) PROVE Claims'
    BY <2>3 DEF SqliteLoad, SqliteCheck, Reads
  <2>4. ASSUME NEW rows \in SUBSET Keys, SqliteSave(rows) \/ SqliteReplace(rows)
        PROVE  Claims'
    BY <2>4 DEF SqliteSave, SqliteReplace, Sqlite
  <2>5. ASSUME NEW rows \in SUBSET Keys, SqliteDelete(rows) PROVE Claims'
    BY <2>5 DEF SqliteDelete, Deleted
  <2>. QED
    BY <1>2, <2>1, <2>2, <2>3, <2>4, <2>5
    DEF SqliteNext
<1>3. CASE Postgres
  <2>1. ASSUME NEW rows \in SUBSET Keys, PgSave(rows) PROVE Claims'
    BY <2>1 DEF PgSave
  <2>2. ASSUME NEW rows \in SUBSET Keys, PgDelete(rows) PROVE Claims'
    BY <2>2 DEF PgDelete, Deleted
  <2>3. ASSUME NEW k \in Keys, PgRecord(k) PROVE Claims'
    BY <2>3 DEF PgRecord, Record, Take, Win
  <2>4. ASSUME NEW c \in Clients, PgCheck(c) \/ PgLoad(c) PROVE Claims'
    BY <2>4 DEF PgCheck, PgLoad, Reads
  <2>5. ASSUME NEW c \in Clients, NEW k \in Keys, PgClaim(c, k) \/ PgLock(c, k)
        PROVE  Claims'
    BY <2>5 DEF PgClaim, PgLock, Goes
  <2>6. ASSUME NEW c \in Clients, PgReplace(c) PROVE Claims'
    BY <2>6 DEF PgReplace, Goes
  <2>7. ASSUME NEW c \in Clients, PgLocks(c) PROVE Claims'
    BY <2>7 DEF PgLocks, Goes, Locked, Locking
  <2>8. ASSUME NEW c \in Clients, PgLockInserts(c) PROVE Claims'
    BY <2>8 DEF PgLockInserts, Goes, Locked, Locking
  <2>9. ASSUME NEW c \in Clients, PgLockRefused(c) PROVE Claims'
    BY <2>9 DEF PgLockRefused, Goes
  <2>10. ASSUME NEW c \in Clients, PgLockCommits(c) PROVE Claims'
    BY <2>10 DEF PgLockCommits, Goes, Win
  <2>11. ASSUME NEW c \in Clients, PgClaimCommits(c) PROVE Claims'
    BY <2>11 DEF PgClaimCommits, Commit, Win
  <2>12. ASSUME NEW c \in Clients, NEW rows \in SUBSET Keys, PgReplaceCommits(c,
         rows)
        PROVE  Claims'
    BY <2>12 DEF PgReplaceCommits, Commit, Locked, Locking
  <2>13. ASSUME NEW c \in Clients, PgAbort(c) PROVE Claims'
    BY <2>13 DEF PgAbort
  <2>. QED
    BY <1>3, <2>1, <2>2, <2>3, <2>4, <2>5, <2>6, <2>7, <2>8, <2>9, <2>10, <2>11,
       <2>12, <2>13
    DEF Postgres
<1>4. CASE MySql
  <2>1. ASSUME NEW c \in Clients, MySqlLoad(c) \/ MySqlCheck(c) PROVE Claims'
    BY <2>1 DEF MySqlLoad, MySqlCheck, MySqlReads, Reads
  <2>7. ASSUME NEW c \in Clients, MySqlLoadDue(c) PROVE Claims'
    BY <2>7 DEF MySqlLoadDue, MySqlReads, Reads
  <2>2. ASSUME NEW c \in Clients, MySqlReconnect(c) PROVE Claims'
    BY <2>2 DEF MySqlReconnect, Transaction
  <2>3. ASSUME NEW c \in Clients, NEW k \in Keys, MySqlClaim(c, k) PROVE Claims'
    BY <2>3 DEF MySqlClaim, Transaction, Win
  <2>4. ASSUME NEW c \in Clients, NEW k \in Keys, MySqlRecord(c, k) \/
         MySqlLock(c, k)
        PROVE  Claims'
    BY <2>4 DEF MySqlRecord, MySqlLock, Record, Lock, Take, Transaction, Win
  <2>5. ASSUME NEW c \in Clients, NEW rows \in SUBSET Keys, MySqlSave(c, rows)
         \/ MySqlReplace(c, rows)
        PROVE  Claims'
    BY <2>5 DEF MySqlSave, MySqlReplace, Transaction
  <2>6. ASSUME NEW c \in Clients, NEW rows \in SUBSET Keys, MySqlDelete(c, rows)
        PROVE  Claims'
    BY <2>6 DEF MySqlDelete, Deleted, Transaction
  <2>. QED
    BY <1>4, <2>1, <2>2, <2>3, <2>4, <2>5, <2>6, <2>7
    DEF MySql
<1>5. ASSUME NEW c \in Clients, LoadReturns(c) PROVE Claims'
  BY <1>5 DEF LoadReturns
<1>6. ASSUME NEW k \in Keys, LockExpires(k) PROVE Claims'
  BY <1>6 DEF LockExpires
<1>7. CASE UNCHANGED vars
  BY <1>7 DEF vars
<1>. QED
  BY <1>1, <1>2, <1>3, <1>4, <1>5, <1>6, <1>7
  DEF Next

(* A load that goes on loses only what it must give back.                  *)
LEMMA WatchStep ==
  ASSUME Watch, NEW c \in Clients, Watching(c)'
  PROVE  /\ sure'[c] \subseteq hash' \ cutOff'
         /\ hash' \subseteq maybe'[c]
         /\ Watching(c) => sure'[c] \subseteq sure[c] /\ maybe[c] \subseteq maybe'[c]
BY DEF Watch

(* What a step may do to a load: nothing, begin it, read the rows of the   *)
(* keys, or give them back.                                                *)
LoadGoesOn(c) ==
    \/ /\ step'[c] \notin {"keys", "cleaning", "found"} /\ found'[c] = {}
       /\ \/ view'[c] \in {NoView, view[c]}
          \/ view[c] = NoView /\ view'[c] = hash'
    \/ /\ step'[c] = step[c] /\ found'[c] = found[c] /\ view'[c] = view[c]
       /\ step[c] = "keys" => ids'[c] = ids[c]
    \/ /\ step[c] = "idle" /\ step'[c] = "found" /\ view'[c] = view[c]
       /\ found'[c] = hash' /\ view[c] = NoView
    \/ /\ step[c] = "idle" /\ step'[c] = "found" /\ found'[c] = view'[c]
       /\ view'[c] = IF view[c] = NoView THEN hash' ELSE view[c]
       /\ view'[c] # NoView
    \/ /\ step[c] = "idle" /\ view'[c] = view[c] /\ found'[c] = found[c]
       /\ hash' \ cutOff' \subseteq index
       /\ \/ step'[c] = "keys" /\ ids'[c] = index
          \/ step'[c] = "found" /\ index = {}
    \/ /\ step[c] = "keys" /\ step'[c] \in {"cleaning", "found"}
       /\ view'[c] = view[c] /\ hash' = hash /\ found'[c] = ids[c] \cap hash
    \/ /\ step[c] = "cleaning" /\ step'[c] = "found"
       /\ view'[c] = view[c] /\ found'[c] = found[c]

LEMMA LoadSteps ==
  IInv /\ [Next]_vars => /\ UNCHANGED vars \/ Watch
                         /\ RowsReachable'
                         /\ \A c \in Clients : LoadGoesOn(c)
<1> DEFINE Goal == /\ UNCHANGED vars \/ Watch
                   /\ RowsReachable'
                   /\ \A d \in Clients : LoadGoesOn(d)
<1> SUFFICES ASSUME IInv, [Next]_vars PROVE Goal
  OBVIOUS
<1> USE BackendsAssumption DEF BackendsAssumption, IInv, TypeOK, StepOfTable, RowsReachable,
        RowsRead, LoadGoesOn, Observe, Watch, calls, claims, setup, Saved, Claimed, Loaded,
        FirstWins
<1>1. CASE Redis
  <2>1. ASSUME NEW rows \in SUBSET Keys, RedisSave(rows) PROVE Goal
    BY <2>1 DEF RedisSave, RedisWrites
  <2>2. ASSUME NEW rows \in SUBSET Keys, RedisDeleteRecords(rows) PROVE Goal
    BY <2>2 DEF RedisDeleteRecords, Deleted
  <2>3. ASSUME NEW k \in Keys, RedisSaveScheduled(k) PROVE Goal
    BY <2>3 DEF RedisSaveScheduled, RedisWrites
  <2>4. ASSUME NEW k \in Keys, RedisExpire(k) PROVE Goal
    BY <2>4 DEF RedisExpire
  <2>5. ASSUME NEW k \in Keys, RedisClaim(k) PROVE Goal
    BY <2>5 DEF RedisClaim, Win
  <2>6. ASSUME NEW k \in Keys, RedisRecord(k) \/ RedisLock(k) PROVE Goal
    BY <2>6 DEF RedisRecord, RedisLock, Record, Lock, Take, Win
  <2>7. ASSUME NEW k \in Keys, RedisLockExpires(k) PROVE Goal
    BY <2>7 DEF RedisLockExpires
  <2>8. ASSUME NEW c \in Clients, RedisCheck(c) \/ RedisCompletedIds(c)
        PROVE  Goal
    BY <2>8 DEF RedisCheck, RedisCompletedIds, Reads
  <2>9. ASSUME NEW c \in Clients, RedisPruneReads(c) PROVE Goal
    BY <2>9 DEF RedisPruneReads, Goes
  <2>10. ASSUME NEW c \in Clients, RedisPruneDeletes(c) PROVE Goal
    BY <2>10 DEF RedisPruneDeletes, Goes, Deleted
  <2>11. ASSUME NEW c \in Clients, RedisReadIndex(c) PROVE Goal
    BY <2>11 DEF RedisReadIndex, Goes
  <2>12. ASSUME NEW c \in Clients, RedisFetch(c) PROVE Goal
    BY <2>12 DEF RedisFetch, Goes
  <2>13. ASSUME NEW c \in Clients, RedisCleanIndex(c) PROVE Goal
    BY <2>13 DEF RedisCleanIndex, Goes
  <2>14. ASSUME NEW c \in Clients, RedisReplaceReads(c) PROVE Goal
    BY <2>14 DEF RedisReplaceReads, Goes
  <2>15. ASSUME NEW c \in Clients, NEW rows \in SUBSET Keys, RedisReplace(c,
         rows)
        PROVE  Goal
    BY <2>15 DEF RedisReplace, Goes
  <2>. QED
    BY <1>1, <2>1, <2>2, <2>3, <2>4, <2>5, <2>6, <2>7, <2>8, <2>9, <2>10, <2>11,
       <2>12, <2>13, <2>14, <2>15
    DEF Redis
<1>2. CASE SqliteNext
  <2>1. ASSUME NEW k \in Keys, SqliteClaim(k) PROVE Goal
    BY <2>1 DEF SqliteClaim, Sqlite, Win
  <2>2. ASSUME NEW k \in Keys, SqliteRecord(k) \/ SqliteLock(k) PROVE Goal
    BY <2>2 DEF SqliteRecord, SqliteLock, Sqlite, Record, Lock, Take, Win
  <2>3. ASSUME NEW c \in Clients, SqliteLoad(c) \/ SqliteCheck(c) PROVE Goal
    BY <2>3 DEF SqliteLoad, SqliteCheck, Reads
  <2>4. ASSUME NEW rows \in SUBSET Keys, SqliteSave(rows) \/ SqliteReplace(rows)
        PROVE  Goal
    BY <2>4 DEF SqliteSave, SqliteReplace, Sqlite
  <2>5. ASSUME NEW rows \in SUBSET Keys, SqliteDelete(rows) PROVE Goal
    BY <2>5 DEF SqliteDelete, Deleted
  <2>. QED
    BY <1>2, <2>1, <2>2, <2>3, <2>4, <2>5
    DEF SqliteNext
<1>3. CASE Postgres
  <2>1. ASSUME NEW rows \in SUBSET Keys, PgSave(rows) PROVE Goal
    BY <2>1 DEF PgSave
  <2>2. ASSUME NEW rows \in SUBSET Keys, PgDelete(rows) PROVE Goal
    BY <2>2 DEF PgDelete, Deleted
  <2>3. ASSUME NEW k \in Keys, PgRecord(k) PROVE Goal
    BY <2>3 DEF PgRecord, Record, Take, Win
  <2>4. ASSUME NEW c \in Clients, PgCheck(c) \/ PgLoad(c) PROVE Goal
    BY <2>4 DEF PgCheck, PgLoad, Reads
  <2>5. ASSUME NEW c \in Clients, NEW k \in Keys, PgClaim(c, k) \/ PgLock(c, k)
        PROVE  Goal
    BY <2>5 DEF PgClaim, PgLock, Goes
  <2>6. ASSUME NEW c \in Clients, PgReplace(c) PROVE Goal
    BY <2>6 DEF PgReplace, Goes
  <2>7. ASSUME NEW c \in Clients, PgLocks(c) PROVE Goal
    BY <2>7 DEF PgLocks, Goes, Locked, Locking
  <2>8. ASSUME NEW c \in Clients, PgLockInserts(c) PROVE Goal
    BY <2>8 DEF PgLockInserts, Goes, Locked, Locking
  <2>9. ASSUME NEW c \in Clients, PgLockRefused(c) PROVE Goal
    BY <2>9 DEF PgLockRefused, Goes
  <2>10. ASSUME NEW c \in Clients, PgLockCommits(c) PROVE Goal
    BY <2>10 DEF PgLockCommits, Goes, Win
  <2>11. ASSUME NEW c \in Clients, PgClaimCommits(c) PROVE Goal
    BY <2>11 DEF PgClaimCommits, Commit, Win
  <2>12. ASSUME NEW c \in Clients, NEW rows \in SUBSET Keys, PgReplaceCommits(c,
         rows)
        PROVE  Goal
    BY <2>12 DEF PgReplaceCommits, Commit, Locked, Locking
  <2>13. ASSUME NEW c \in Clients, PgAbort(c) PROVE Goal
    BY <2>13 DEF PgAbort
  <2>. QED
    BY <1>3, <2>1, <2>2, <2>3, <2>4, <2>5, <2>6, <2>7, <2>8, <2>9, <2>10, <2>11,
       <2>12, <2>13
    DEF Postgres
<1>4. CASE MySql
  <2>1. ASSUME NEW c \in Clients, MySqlLoad(c) \/ MySqlCheck(c) PROVE Goal
    BY <2>1 DEF MySqlLoad, MySqlCheck, MySqlReads, Reads
  <2>7. ASSUME NEW c \in Clients, MySqlLoadDue(c) PROVE Goal
    BY <2>7 DEF MySqlLoadDue, MySqlReads, Reads
  <2>2. ASSUME NEW c \in Clients, MySqlReconnect(c) PROVE Goal
    BY <2>2 DEF MySqlReconnect, Transaction
  <2>3. ASSUME NEW c \in Clients, NEW k \in Keys, MySqlClaim(c, k) PROVE Goal
    BY <2>3 DEF MySqlClaim, Transaction, Win
  <2>4. ASSUME NEW c \in Clients, NEW k \in Keys, MySqlRecord(c, k) \/
         MySqlLock(c, k)
        PROVE  Goal
    BY <2>4 DEF MySqlRecord, MySqlLock, Record, Lock, Take, Transaction, Win
  <2>5. ASSUME NEW c \in Clients, NEW rows \in SUBSET Keys, MySqlSave(c, rows)
         \/ MySqlReplace(c, rows)
        PROVE  Goal
    BY <2>5 DEF MySqlSave, MySqlReplace, Transaction
  <2>6. ASSUME NEW c \in Clients, NEW rows \in SUBSET Keys, MySqlDelete(c, rows)
        PROVE  Goal
    BY <2>6 DEF MySqlDelete, Deleted, Transaction
  <2>. QED
    BY <1>4, <2>1, <2>2, <2>3, <2>4, <2>5, <2>6, <2>7
    DEF MySql
<1>5. ASSUME NEW c \in Clients, LoadReturns(c) PROVE Goal
  BY <1>5 DEF LoadReturns
<1>6. ASSUME NEW k \in Keys, LockExpires(k) PROVE Goal
  BY <1>6 DEF LockExpires
<1>7. CASE UNCHANGED vars
  BY <1>7 DEF vars
<1>. QED
  BY <1>1, <1>2, <1>3, <1>4, <1>5, <1>6, <1>7
  DEF Next

(* What loads have read stays between what they must and may give back.    *)
LEMMA ReadsStep == IInv /\ [Next]_vars => RowsReachable' /\ RowsRead'
<1> SUFFICES ASSUME IInv, [Next]_vars PROVE RowsReachable' /\ RowsRead'
  OBVIOUS
<1>1. /\ UNCHANGED vars \/ Watch
      /\ RowsReachable'
      /\ \A c \in Clients : LoadGoesOn(c)
  BY LoadSteps
<1>2. CASE UNCHANGED vars
  BY <1>1, <1>2 DEF vars, IInv, RowsRead, Between
<1>3. ASSUME Watch, NEW c \in Clients
      PROVE  /\ step'[c] \notin {"cleaning", "found"} => found'[c] = {}
             /\ step'[c] = "keys" => sure'[c] \subseteq ids'[c]
             /\ step'[c] \in {"cleaning", "found"} => Between(c, found[c])'
             /\ view'[c] # NoView => Between(c, view[c])'
  <2>1. Watching(c)' =>
          /\ sure'[c] \subseteq hash' \ cutOff'
          /\ hash' \subseteq maybe'[c]
          /\ Watching(c) => sure'[c] \subseteq sure[c] /\ maybe[c] \subseteq maybe'[c]
    BY <1>3, WatchStep
  <2>2. LoadGoesOn(c)
    BY <1>1
  <2>3. /\ step[c] \notin {"cleaning", "found"} => found[c] = {}
        /\ step[c] = "keys" => sure[c] \subseteq ids[c]
        /\ step[c] \in {"cleaning", "found"} => Between(c, found[c])
        /\ view[c] # NoView => Between(c, view[c])
    BY DEF IInv, RowsRead
  <2>. QED BY <2>1, <2>2, <2>3 DEF LoadGoesOn, Watching, Between
<1>. QED BY <1>1, <1>2, <1>3 DEF RowsRead

LEMMA Invariance == Spec => []IInv
<1>1. IInv /\ [Next]_vars => IInv'
  BY TypeStep, ClaimsStep, ReadsStep DEF IInv
<1>. QED BY InitIInv, <1>1, PTL DEF Spec

-----------------------------------------------------------------------------
(* Every reachable state of each backend is well typed, for any number of  *)
(* clients and of keys (backends/redis.py, sqlite.py, postgres.py,         *)
(* mysql.py).                                                              *)
THEOREM TypeCorrect == Spec => []TypeOK
<1>1. IInv => TypeOK
  BY DEF IInv
<1>. QED BY <1>1, Invariance, PTL

(* A row is claimed once, a key recorded once and a lock taken only when   *)
(* its time is over, whichever transactions overlap (base.py:332-338).     *)
THEOREM NoDoubleClaimAlways == Spec => []NoDoubleClaim
<1>1. IInv => NoDoubleClaim
  BY DEF IInv, RowsOwed, NoDoubleClaim
<1>. QED BY <1>1, Invariance, PTL

(* Every load that comes back gives back what was there as long as it ran  *)
(* and nothing that never was (base.py); in MySQL a load runs since the    *)
(* snapshot of its connection, and load_due() comes back with no row or    *)
(* not at all (mysql.py:428).                                              *)
THEOREM LoadsMeetContractAlways == Spec => []LoadsMeetContract
<1>1. IInv => LoadsMeetContract
  BY DEF IInv, RowsRead, Between, LoadsMeetContract
<1>. QED BY <1>1, Invariance, PTL

(* Redis keeps every row in its index but for the two races of zrem() and  *)
(* of replacements (redis.py:231, 311, 396).                            *)
THEOREM RowsReachableAlways == Spec => []RowsReachable
<1>1. IInv => RowsReachable
  BY DEF IInv
<1>. QED BY <1>1, Invariance, PTL
=============================================================================
