------------------------------ MODULE Backends ------------------------------
(* How the Redis, SQLite, PostgreSQL and MySQL backends keep the history,  *)
(* the pending tasks, the one-off schedules, the idempotency keys and the  *)
(* schedule locks (backends/redis.py, sqlite.py, postgres.py, mysql.py),   *)
(* and what they promise their callers (backends/base.py).                 *)
(*                                                                         *)
(* Redis keeps a hash for each row and an index of their keys; a pipeline  *)
(* is one transaction, two calls are two.  PostgreSQL reads at READ        *)
(* COMMITTED, and psycopg2's pool ends the transaction of a connection     *)
(* that is put back.  A MySQL connection belongs to a pool thread, without *)
(* autocommit and at REPEATABLE READ: what it read first it reads again    *)
(* until something commits on it.                                          *)
EXTENDS Naturals

CONSTANTS
    Clients, \* coroutines (Redis) or connections (SQL) of any instances
    Keys,    \* task ids, run keys, idempotency keys, names of locks
    NoView   \* a connection without a snapshot

ASSUME BackendsAssumption == \A rows \in SUBSET Keys : NoView # rows

Dialects == {"redis", "sqlite", "postgres", "mysql"}
Tables == {"history", "pending", "scheduled", "keys", "locks"}
Saved == {"history", "scheduled"}
Claimed == {"pending", "scheduled"}
Loaded == {"history", "pending", "scheduled"}
FirstWins == {"keys", "locks"} \* a row is the first writer's

VARIABLES
    dialect, \* the backend, chosen at the start
    table,   \* the table that is looked at, chosen at the start
    hash,    \* the hashes of Redis, the committed rows of SQL
    index,   \* the index of Redis
    expired, \* the rows of SQL that are locks whose time is over
    step,    \* where each client is in its call
    ids,     \* the keys that the call holds
    found,   \* what a load gives back
    view,    \* the snapshot of a MySQL connection
    owed,    \* history: rows that nobody has claimed since they were saved,
             \* keys that nobody has recorded, locks that nobody holds
    over,    \* history: those that were claimed without being owed
    cutOff,  \* history: rows that a call left stored without their index
    sure,    \* history: rows stored and indexed as long as a load has run
    maybe    \* history: rows stored at some time since it began

vars == <<dialect, table, hash, index, expired, step, ids, found, view, owed,
          over, cutOff, sure, maybe>>
setup == <<dialect, table>>
calls == <<step, ids, found, view>>
claims == <<owed, over>>

Watching(c) == view[c] # NoView \/ step[c] \in {"keys", "cleaning", "found"}

TypeOK ==
    /\ dialect \in Dialects /\ table \in Tables
    /\ {hash, index, owed, over, cutOff} \subseteq SUBSET Keys
    /\ step \in [Clients -> {"idle", "keys", "cleaning", "found", "pruning",
                             "replacing", "replaced", "claiming", "claimed",
                             "locking", "locked"}]
    /\ {ids, found, sure, maybe} \subseteq [Clients -> SUBSET Keys]
    /\ view \in [Clients -> {NoView} \cup SUBSET Keys]
    /\ dialect # "redis" => index = {} /\ cutOff = {}
    /\ expired \subseteq hash
    /\ expired # {} => table = "locks"
    /\ \A c \in Clients : view[c] # NoView => dialect = "mysql"

Init ==
    /\ dialect \in Dialects /\ table \in Tables
    /\ hash = {} /\ index = {} /\ expired = {}
    /\ step = [c \in Clients |-> "idle"]
    /\ ids = [c \in Clients |-> {}]
    /\ found = [c \in Clients |-> {}]
    /\ view = [c \in Clients |-> NoView]
    /\ owed = IF table \in FirstWins THEN Keys ELSE {}
    /\ over = {} /\ cutOff = {}
    /\ sure = [c \in Clients |-> {}]
    /\ maybe = [c \in Clients |-> {}]

(* The rows that a load must and may give back.                            *)
Watch ==
    /\ UNCHANGED setup
    /\ sure' = [c \in Clients |->
                 IF ~Watching(c)' THEN {}
                 ELSE (hash' \ cutOff') \cap (IF Watching(c) THEN sure[c] ELSE Keys)]
    /\ maybe' = [c \in Clients |->
                  IF ~Watching(c)' THEN {}
                  ELSE hash' \cup (IF Watching(c) THEN maybe[c] ELSE {})]

Observe == Watch /\ UNCHANGED expired

-----------------------------------------------------------------------------
(* The contract of a claim: it is the deletion, and it counts.             *)
Win(rows) == /\ owed' = owed \ rows
             /\ over' = over \cup (rows \ owed)

Goes(c, from, to, keys) ==
    /\ step[c] = from
    /\ step' = [step EXCEPT ![c] = to]
    /\ ids' = [ids EXCEPT ![c] = keys]

(* What a load of a SQL backend finds.                                     *)
Reads(c, rows) ==
    /\ step[c] = "idle"
    /\ step' = [step EXCEPT ![c] = "found"]
    /\ found' = [found EXCEPT ![c] = rows]
    /\ UNCHANGED <<hash, index, ids, claims, cutOff>>
    /\ Observe

(* A load comes back to its caller.                                        *)
LoadReturns(c) ==
    /\ step[c] = "found"
    /\ step' = [step EXCEPT ![c] = "idle"]
    /\ found' = [found EXCEPT ![c] = {}]
    /\ UNCHANGED <<hash, index, ids, view, claims, cutOff>>
    /\ Observe

Deleted(rows) ==
    /\ table = "history"
    /\ hash' = hash \ rows
    /\ index' = index \ rows
    /\ cutOff' = cutOff \ rows
    /\ owed' = owed \ rows
    /\ UNCHANGED over

-----------------------------------------------------------------------------
(* Only the first of the writers that come has the row: the task id of an  *)
(* idempotency key, for good, or a schedule lock, until its time is over.  *)
Take(k) ==
    /\ k \notin hash \ expired
    /\ hash' = hash \cup {k}
    /\ expired' = expired \ {k}
    /\ Win({k})
    /\ UNCHANGED <<index, cutOff>>
    /\ Watch

Record(k) == table = "keys" /\ Take(k)
Lock(k) == table = "locks" /\ Take(k)

(* The time of a lock is over; in SQL its row stays.                       *)
LockExpires(k) ==
    /\ table = "locks" /\ dialect # "redis" /\ k \in hash \ expired
    /\ expired' = expired \cup {k}
    /\ owed' = owed \cup {k}
    /\ UNCHANGED <<hash, index, calls, over, cutOff>>
    /\ Watch

-----------------------------------------------------------------------------
(* Redis.                                                                  *)

RedisWrites(rows) ==
    /\ dialect = "redis"
    /\ hash' = hash \cup rows
    /\ index' = index \cup rows
    /\ cutOff' = cutOff \ rows
    /\ owed' = owed \cup rows
    /\ UNCHANGED <<calls, over>>

RedisSave(rows) == table = "history" /\ RedisWrites(rows) /\ Observe

\* Mutant: the entry is stored and not indexed.
RedisSaveUnindexed(k) ==
    /\ table = "scheduled" /\ dialect = "redis"
    /\ hash' = hash \cup {k}
    /\ owed' = owed \cup {k}
    /\ UNCHANGED <<index, cutOff, calls, over>>
    /\ Observe

RedisSaveScheduled(k) == table = "scheduled" /\ RedisWrites({k}) /\ Observe

(* The hash of a history record has a TTL; the index does not know.        *)
RedisExpire(k) ==
    /\ dialect = "redis" /\ table = "history" /\ k \in hash
    /\ hash' = hash \ {k}
    /\ owed' = owed \ {k}
    /\ cutOff' = cutOff \ {k}
    /\ UNCHANGED <<index, calls, over>>
    /\ Observe

RedisDeleteRecords(rows) ==
    dialect = "redis" /\ Deleted(rows) /\ UNCHANGED calls /\ Observe

(* delete_before() reads the index and the records; any may be old enough. *)
RedisPruneReads(c) ==
    /\ dialect = "redis" /\ table = "history"
    /\ \E old \in SUBSET (index \cap hash) : Goes(c, "idle", "pruning", old)
    /\ UNCHANGED <<hash, index, found, view, claims, cutOff>>
    /\ Observe

RedisPruneDeletes(c) ==
    /\ Deleted(ids[c])
    /\ Goes(c, "pruning", "idle", {})
    /\ UNCHANGED <<found, view>>
    /\ Observe

(* SET NX, in a lock with EX.                                              *)
RedisRecord(k) == dialect = "redis" /\ UNCHANGED calls /\ Record(k)
RedisLock(k) == dialect = "redis" /\ UNCHANGED calls /\ Lock(k)

RedisLockExpires(k) ==
    /\ table = "locks" /\ dialect = "redis" /\ k \in hash
    /\ hash' = hash \ {k}
    /\ owed' = owed \cup {k}
    /\ UNCHANGED <<index, calls, over, cutOff>>
    /\ Observe

RedisCheck(c) ==
    /\ dialect = "redis" /\ table = "keys"
    /\ UNCHANGED view
    /\ Reads(c, hash)

(* completed_ids() asks for the rows themselves, past the index.           *)
RedisCompletedIds(c) ==
    /\ dialect = "redis" /\ table = "history"
    /\ UNCHANGED view
    /\ Reads(c, hash)

(* load(), load_pending(), load_due(): first the keys.                     *)
RedisReadIndex(c) ==
    /\ dialect = "redis" /\ table \in Loaded
    /\ Goes(c, "idle", IF index = {} THEN "found" ELSE "keys", index)
    /\ UNCHANGED <<hash, index, found, view, claims, cutOff>>
    /\ Observe

\* Mutant: an entry for every key, whether there is a hash or not.
RedisFetchAll(c) ==
    /\ found' = [found EXCEPT ![c] = ids[c]]
    /\ Goes(c, "keys", "found", {})
    /\ UNCHANGED <<hash, index, view, claims, cutOff>>
    /\ Observe

(* Then their hashes; load_due() goes on to clean the index of the others. *)
RedisFetch(c) ==
    /\ found' = [found EXCEPT ![c] = ids[c] \cap hash]
    /\ \/ /\ table = "scheduled" /\ ids[c] \ hash # {}
          /\ Goes(c, "keys", "cleaning", ids[c] \ hash)
       \/ /\ table = "scheduled" => ids[c] \subseteq hash
          /\ Goes(c, "keys", "found", {})
    /\ UNCHANGED <<hash, index, view, claims, cutOff>>
    /\ Observe

(* ZREM of keys whose hash was missing a moment ago.                       *)
RedisCleanIndex(c) ==
    /\ index' = index \ ids[c]
    /\ cutOff' = cutOff \cup (ids[c] \cap hash)
    /\ Goes(c, "cleaning", "found", {})
    /\ UNCHANGED <<hash, found, view, claims>>
    /\ Observe

(* claim_pending(), claim_scheduled(), delete_scheduled(): DEL says        *)
(* whether it was this caller who removed the hash.                        *)
RedisClaim(k) ==
    /\ dialect = "redis" /\ table \in Claimed
    /\ hash' = hash \ {k}
    /\ index' = index \ {k}
    /\ cutOff' = cutOff \ {k}
    /\ Win({k} \cap hash)
    /\ UNCHANGED calls
    /\ Observe

(* save_pending() and clear_pending(): first the keys of the index, then   *)
(* all the rest at once.                                                   *)
RedisReplaceReads(c) ==
    /\ dialect = "redis" /\ table = "pending"
    /\ Goes(c, "idle", "replacing", index)
    /\ UNCHANGED <<hash, index, found, view, claims, cutOff>>
    /\ Observe

RedisReplace(c, rows) ==
    /\ dialect = "redis"
    /\ hash' = (hash \ ids[c]) \cup rows
    /\ index' = rows
    /\ cutOff' = (hash \ ids[c]) \ rows
    /\ owed' = (owed \ ids[c]) \cup rows
    /\ Goes(c, "replacing", "idle", {})
    /\ UNCHANGED <<found, view, over>>
    /\ Observe

-----------------------------------------------------------------------------
(* PostgreSQL.  A DELETE takes the rows that were committed as it began,   *)
(* waits for the transactions that are deleting one of them, and leaves    *)
(* out what they have deleted by then.                                     *)

Locking == {d \in Clients : step[d] \in {"replaced", "claimed", "locked"}}
Locked(c) == UNION {ids[d] : d \in Locking \ {c}}

PgSave(rows) ==
    /\ dialect = "postgres" /\ table \in Saved
    /\ \A c \in Clients : rows \cap Locked(c) = {}
    /\ hash' = hash \cup rows
    /\ owed' = owed \cup rows
    /\ UNCHANGED <<index, calls, over, cutOff>>
    /\ Observe

PgDelete(rows) == dialect = "postgres" /\ Deleted(rows) /\ UNCHANGED calls /\ Observe

PgLoad(c) ==
    /\ dialect = "postgres" /\ table \in Loaded
    /\ UNCHANGED view
    /\ Reads(c, hash)

PgCheck(c) ==
    /\ dialect = "postgres" /\ table = "keys"
    /\ UNCHANGED view
    /\ Reads(c, hash)

PgRecord(k) == dialect = "postgres" /\ UNCHANGED calls /\ Record(k)

PgClaim(c, k) ==
    /\ dialect = "postgres" /\ table \in Claimed
    /\ Goes(c, "idle", "claiming", {k} \cap hash)
    /\ UNCHANGED <<hash, index, found, view, claims, cutOff>>
    /\ Observe

PgReplace(c) ==
    /\ dialect = "postgres" /\ table = "pending"
    /\ Goes(c, "idle", "replacing", hash)
    /\ UNCHANGED <<hash, index, found, view, claims, cutOff>>
    /\ Observe

PgLocks(c) ==
    /\ dialect = "postgres"
    /\ ids[c] \cap Locked(c) = {}
    /\ \/ Goes(c, "claiming", "claimed", ids[c])
       \/ Goes(c, "replacing", "replaced", ids[c])
    /\ UNCHANGED <<hash, index, found, view, claims, cutOff>>
    /\ Observe

Commit(c, rows) ==
    /\ step' = [step EXCEPT ![c] = "idle"]
    /\ ids' = [d \in Clients |-> IF d = c THEN {} ELSE ids[d] \ ids[c]]
    /\ hash' = (hash \ ids[c]) \cup rows
    /\ UNCHANGED <<index, found, view, cutOff>>

\* Mutant: the row was looked up before, and its deletion is not counted.
PgClaimUncounted(c) ==
    /\ step[c] = "claimed"
    /\ step' = [step EXCEPT ![c] = "idle"]
    /\ ids' = [ids EXCEPT ![c] = {}]
    /\ hash' = hash \ ids[c]
    /\ Win(ids[c])
    /\ UNCHANGED <<index, found, view, cutOff>>
    /\ Observe

(* rowcount tells whether this caller has the row.                         *)
PgClaimCommits(c) ==
    /\ step[c] = "claimed"
    /\ Commit(c, {})
    /\ Win(ids[c])
    /\ Observe

(* The inserts wait for whoever is deleting a row with the same key.       *)
PgReplaceCommits(c, rows) ==
    /\ step[c] = "replaced"
    /\ rows \cap Locked(c) = {}
    /\ Commit(c, rows)
    /\ owed' = (owed \ ids[c]) \cup rows
    /\ over' = over
    /\ Observe

(* acquire_schedule_lock(): DELETE of the row, if its time is over, and    *)
(* INSERT of its own unless there is one, in one transaction.              *)
PgLock(c, k) ==
    /\ dialect = "postgres" /\ table = "locks"
    /\ Goes(c, "idle", "locking", {k})
    /\ UNCHANGED <<hash, index, found, view, claims, cutOff>>
    /\ Observe

\* Mutant: the insert does not wait for another one with its key.
PgLockInsertsAtOnce(c) ==
    /\ ids[c] \cap (hash \ expired) = {}
    /\ Goes(c, "locking", "locked", ids[c])
    /\ UNCHANGED <<hash, index, found, view, claims, cutOff>>
    /\ Observe

(* Both wait for a transaction that has inserted the row.                  *)
PgLockInserts(c) ==
    /\ ids[c] \cap Locked(c) = {}
    /\ ids[c] \cap (hash \ expired) = {}
    /\ Goes(c, "locking", "locked", ids[c])
    /\ UNCHANGED <<hash, index, found, view, claims, cutOff>>
    /\ Observe

(* There is a row, whose time was not over as the call looked at the clock. *)
PgLockRefused(c) ==
    /\ ids[c] \subseteq hash \ Locked(c)
    /\ Goes(c, "locking", "idle", {})
    /\ UNCHANGED <<hash, index, found, view, claims, cutOff>>
    /\ Observe

PgLockCommits(c) ==
    /\ Goes(c, "locked", "idle", {})
    /\ hash' = hash \cup ids[c]
    /\ expired' = expired \ ids[c]
    /\ Win(ids[c])
    /\ UNCHANGED <<index, found, view, cutOff>>
    /\ Watch

(* The connection or its process is gone.                                  *)
PgAbort(c) ==
    /\ dialect = "postgres"
    /\ step[c] \in {"claiming", "claimed", "replacing", "replaced", "locking", "locked"}
    /\ step' = [step EXCEPT ![c] = "idle"]
    /\ ids' = [ids EXCEPT ![c] = {}]
    /\ UNCHANGED <<hash, index, found, view, claims, cutOff>>
    /\ Observe

-----------------------------------------------------------------------------
(* MySQL.  Statements that write see and lock what is committed now, a     *)
(* DELETE of the whole table its gaps too, so each transaction is one step *)
(* of its own; it ends the snapshot of its connection.                     *)

Transaction(c) ==
    /\ dialect = "mysql" /\ step[c] = "idle"
    /\ view' = [view EXCEPT ![c] = NoView]
    /\ UNCHANGED <<step, ids, found>>

MySqlSave(c, rows) ==
    /\ Transaction(c) /\ table \in Saved
    /\ hash' = hash \cup rows
    /\ owed' = owed \cup rows
    /\ UNCHANGED <<index, over, cutOff>>
    /\ Observe

MySqlDelete(c, rows) == Transaction(c) /\ Deleted(rows) /\ Observe

MySqlClaim(c, k) ==
    /\ Transaction(c) /\ table \in Claimed
    /\ hash' = hash \ {k}
    /\ Win({k} \cap hash)
    /\ UNCHANGED <<index, cutOff>>
    /\ Observe

MySqlReplace(c, rows) ==
    /\ Transaction(c) /\ table = "pending"
    /\ hash' = rows
    /\ owed' = rows
    /\ UNCHANGED <<index, over, cutOff>>
    /\ Observe

MySqlRecord(c, k) == Transaction(c) /\ Record(k)
MySqlLock(c, k) == Transaction(c) /\ Lock(k)

(* _get_conn() neither commits nor rolls back.                             *)
MySqlReads(c) ==
    /\ dialect = "mysql"
    /\ view' = [view EXCEPT ![c] = IF view[c] = NoView THEN hash ELSE view[c]]
    /\ Reads(c, view'[c])

MySqlLoad(c) == table \in Loaded \ {"scheduled"} /\ MySqlReads(c)

(* load_due() takes the rows, which are dicts (mysql.py:259), for tuples:  *)
(* it raises if there is a row, when the snapshot has been taken.          *)
MySqlLoadDue(c) ==
    /\ table = "scheduled"
    /\ \/ MySqlReads(c) /\ view'[c] = {}
       \/ /\ dialect = "mysql" /\ step[c] = "idle"
          /\ view' = [view EXCEPT ![c] = IF view[c] = NoView THEN hash ELSE view[c]]
          /\ view'[c] # {}
          /\ UNCHANGED <<hash, index, step, ids, found, claims, cutOff>>
          /\ Observe

MySqlCheck(c) == table = "keys" /\ MySqlReads(c)

(* ping() found the connection lost.                                       *)
MySqlReconnect(c) ==
    /\ Transaction(c)
    /\ UNCHANGED <<hash, index, claims, cutOff>>
    /\ Observe

-----------------------------------------------------------------------------
(* SQLite: one writer at a time, and a SELECT opens no transaction.        *)

Sqlite == dialect = "sqlite" /\ UNCHANGED <<calls, index, cutOff>>

SqliteRecord(k) == Sqlite /\ Record(k)
SqliteLock(k) == Sqlite /\ Lock(k)

SqliteCheck(c) ==
    /\ dialect = "sqlite" /\ table = "keys"
    /\ UNCHANGED view
    /\ Reads(c, hash)

SqliteSave(rows) ==
    /\ Sqlite /\ table \in Saved
    /\ hash' = hash \cup rows
    /\ owed' = owed \cup rows
    /\ UNCHANGED over
    /\ Observe

SqliteDelete(rows) ==
    dialect = "sqlite" /\ Deleted(rows) /\ UNCHANGED calls /\ Observe

SqliteLoad(c) ==
    /\ dialect = "sqlite" /\ table \in Loaded
    /\ UNCHANGED view
    /\ Reads(c, hash)

SqliteClaim(k) ==
    /\ Sqlite /\ table \in Claimed
    /\ hash' = hash \ {k}
    /\ Win({k} \cap hash)
    /\ Observe

SqliteReplace(rows) ==
    /\ Sqlite /\ table = "pending"
    /\ hash' = rows
    /\ owed' = rows
    /\ UNCHANGED over
    /\ Observe

-----------------------------------------------------------------------------
Redis ==
    \/ \E rows \in SUBSET Keys : RedisSave(rows) \/ RedisDeleteRecords(rows)
    \/ \E k \in Keys : \/ RedisSaveScheduled(k) \/ RedisExpire(k) \/ RedisClaim(k)
                       \/ RedisRecord(k) \/ RedisLock(k) \/ RedisLockExpires(k)
    \/ \E c \in Clients : \/ RedisCheck(c) \/ RedisCompletedIds(c)
                          \/ RedisPruneReads(c) \/ RedisPruneDeletes(c)
                          \/ RedisReadIndex(c) \/ RedisFetch(c) \/ RedisCleanIndex(c)
                          \/ RedisReplaceReads(c)
                          \/ \E rows \in SUBSET Keys : RedisReplace(c, rows)

Postgres ==
    \/ \E rows \in SUBSET Keys : PgSave(rows) \/ PgDelete(rows)
    \/ \E k \in Keys : PgRecord(k)
    \/ \E c \in Clients : \/ PgCheck(c) \/ PgLockInserts(c) \/ PgLockRefused(c)
                          \/ PgLockCommits(c)
                          \/ PgLoad(c) \/ PgReplace(c) \/ PgLocks(c)
                          \/ PgClaimCommits(c) \/ PgAbort(c)
                          \/ \E k \in Keys : PgClaim(c, k) \/ PgLock(c, k)
                          \/ \E rows \in SUBSET Keys : PgReplaceCommits(c, rows)

MySql ==
    \E c \in Clients :
        \/ MySqlLoad(c) \/ MySqlLoadDue(c) \/ MySqlCheck(c) \/ MySqlReconnect(c)
        \/ \E k \in Keys : MySqlClaim(c, k) \/ MySqlRecord(c, k) \/ MySqlLock(c, k)
        \/ \E rows \in SUBSET Keys : \/ MySqlSave(c, rows) \/ MySqlDelete(c, rows)
                                     \/ MySqlReplace(c, rows)

SqliteNext ==
    \/ \E k \in Keys : SqliteClaim(k) \/ SqliteRecord(k) \/ SqliteLock(k)
    \/ \E c \in Clients : SqliteLoad(c) \/ SqliteCheck(c)
    \/ \E rows \in SUBSET Keys : \/ SqliteSave(rows) \/ SqliteDelete(rows)
                                 \/ SqliteReplace(rows)

Next ==
    \/ Redis \/ SqliteNext \/ Postgres \/ MySql
    \/ \E c \in Clients : LoadReturns(c)
    \/ \E k \in Keys : LockExpires(k)

Spec == Init /\ [][Next]_vars

-----------------------------------------------------------------------------
(* "Exactly one instance fires the task" (base.py:332-338): a row that was *)
(* saved once is claimed at most once, a key recorded at most once and a   *)
(* lock taken only when its time is over, whatever transactions overlap    *)
(* (base.py:230-246, redis.py:461).                                        *)
NoDoubleClaim == over = {}

(* load(), load_pending(), load_due() and check_idempotency_key() of       *)
(* base.py: those that come back give back every row that was there as     *)
(* long as they ran and none that never was.  In MySQL they run since      *)
(* their connection took its snapshot, and load_due() comes back only when *)
(* it has found no row (mysql.py:428).                                     *)
LoadsMeetContract ==
    \A c \in Clients : step[c] = "found" => /\ sure[c] \subseteq found[c]
                                            /\ found[c] \subseteq maybe[c]

(* Redis: a row is stored without its index only where load_due() removed  *)
(* the key of an entry that was saved again meanwhile, or where one        *)
(* replacement of the pending tasks overlapped another.                    *)
RowsReachable == dialect = "redis" /\ table \in Loaded => hash \ index \subseteq cutOff
=============================================================================
