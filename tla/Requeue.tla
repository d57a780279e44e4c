------------------------------- MODULE Requeue -------------------------------
(***************************************************************************)
(* Instances of one application over a shared backend: what each keeps in  *)
(* memory, what it finds in the history and pending tables when it starts, *)
(* what a graceful shutdown writes there and what a crash does not.        *)
(* Backend calls are one step each (the SQLite backend runs each in a      *)
(* transaction); an instance may be interleaved between any two of them.   *)
(***************************************************************************)
EXTENDS Integers, FiniteSets

CONSTANTS
  Instances,
  Tasks,        \* task ids; every submission has a fresh one
  RequeueSafe,  \* tasks registered with requeue_on_interrupt=True
  Registered,   \* tasks whose func_name the registry knows
  MaxStarts     \* bound: how often instances start, together

ASSUME ConstantsAssumption ==
  /\ RequeueSafe \subseteq Tasks
  /\ Registered \subseteq Tasks
  /\ MaxStarts \in Nat

VARIABLES
  phase,        \* how far each instance is in startup() or shutdown()
  starts,       \* how many startups there have been
  mem,          \* mem[i][t] = status of t in the store of i
  waiting,      \* waiting[i] = coroutines created and not yet begun
  body,         \* body[i] = functions that run
  loaded,       \* loaded[i] = rows of load_pending() still to be handled
  known,        \* history: what had succeeded when i started
  toRequeue, toInterrupt, \* the lists of flush_pending()
  born,         \* task ids handed out
  history,      \* the history table: status, "none" if absent
  pendingTable  \* the pending table

execVars == <<mem, waiting, body>>
backendVars == <<history, pendingTable>>
shutdownVars == <<toRequeue, toInterrupt>>
vars == <<phase, starts, execVars, loaded, known, shutdownVars, born, backendVars>>

Final == {"success", "failed", "interrupted"}
Status == {"none", "pending", "running"} \cup Final
Phases == {"down", "restored", "checking", "claiming", "up", "flushed",
           "classified", "savedHistory", "leaving"}

TypeOK ==
  /\ phase \in [Instances -> Phases]
  /\ starts \in 0..MaxStarts
  /\ mem \in [Instances -> [Tasks -> Status]]
  /\ waiting \in [Instances -> SUBSET Tasks] /\ body \in [Instances -> SUBSET Tasks]
  /\ loaded \in [Instances -> SUBSET Tasks] /\ known \in [Instances -> SUBSET Tasks]
  /\ toRequeue \in [Instances -> SUBSET Tasks]
  /\ toInterrupt \in [Instances -> SUBSET Tasks]
  /\ born \subseteq Tasks
  /\ history \in [Tasks -> {"none"} \cup Final]
  /\ pendingTable \subseteq Tasks

Nowhere == [i \in Instances |-> {}]
Empty == [t \in Tasks |-> "none"]

Init ==
  /\ phase = [i \in Instances |-> "down"]
  /\ starts = 0
  /\ mem = [i \in Instances |-> Empty]
  /\ waiting = Nowhere /\ body = Nowhere /\ loaded = Nowhere /\ known = Nowhere
  /\ toRequeue = Nowhere /\ toInterrupt = Nowhere
  /\ born = {}
  /\ history = Empty
  /\ pendingTable = {}

Goes(i, from, to) == phase[i] = from /\ phase' = [phase EXCEPT ![i] = to]
Running(i) == phase[i] \notin {"down", "restored", "checking"}
Active(i) == waiting[i] \cup body[i]
Succeeded == {t \in Tasks : history[t] = "success"}

-----------------------------------------------------------------------------
(* startup(): load() restores the history table into the store.            *)
Start(i) ==
  /\ starts < MaxStarts /\ starts' = starts + 1
  /\ Goes(i, "down", "restored")
  /\ mem' = [mem EXCEPT ![i] = history]
  /\ known' = [known EXCEPT ![i] = Succeeded]
  /\ UNCHANGED <<waiting, body, loaded, shutdownVars, born, backendVars>>

(* requeue(): load_pending(); with no rows there is nothing more to do.    *)
LoadPending(i) ==
  /\ \/ pendingTable = {} /\ Goes(i, "restored", "up")
     \/ pendingTable # {} /\ Goes(i, "restored", "checking")
  /\ loaded' = [loaded EXCEPT ![i] = pendingTable]
  /\ UNCHANGED <<starts, execVars, known, shutdownVars, born, backendVars>>

(* Mutant: the history table is not consulted.                             *)
CheckNothing(i) ==
  /\ Goes(i, "checking", "claiming")
  /\ UNCHANGED <<starts, execVars, loaded, known, shutdownVars, born, backendVars>>

(* completed_ids(): rows of tasks that succeeded are skipped.              *)
CheckCompleted(i) ==
  /\ Goes(i, "checking", "claiming")
  /\ loaded' = [loaded EXCEPT ![i] = @ \ Succeeded]
  /\ UNCHANGED <<starts, execVars, known, shutdownVars, born, backendVars>>

(* store.restore(), which overwrites nothing, and create_task().           *)
Redispatch(i, t) ==
  /\ mem' = [mem EXCEPT ![i][t] = IF @ = "none" THEN "pending" ELSE @]
  /\ waiting' = [waiting EXCEPT ![i] = @ \cup {t}]

(* Mutant: claim_pending() as the base class has it, always True.          *)
ClaimAlways(i, t) ==
  /\ phase[i] = "claiming" /\ t \in loaded[i]
  /\ loaded' = [loaded EXCEPT ![i] = @ \ {t}]
  /\ pendingTable' = pendingTable \ {t}
  /\ Redispatch(i, t)
  /\ UNCHANGED <<phase, starts, body, known, shutdownVars, born, history>>

(* claim_pending(): delete the row and learn whether it was there.  Only   *)
(* then is the function looked up, and a claimed task without one dropped. *)
Claim(i, t) ==
  /\ phase[i] = "claiming" /\ t \in loaded[i]
  /\ loaded' = [loaded EXCEPT ![i] = @ \ {t}]
  /\ pendingTable' = pendingTable \ {t}
  /\ \/ t \in pendingTable \cap Registered /\ Redispatch(i, t)
     \/ t \notin pendingTable \cap Registered /\ UNCHANGED <<mem, waiting>>
  /\ UNCHANGED <<phase, starts, body, known, shutdownVars, born, history>>

(* clear_pending(), the "safety net" at the end of requeue().              *)
ClearPending(i) ==
  /\ loaded[i] = {} /\ Goes(i, "claiming", "up")
  /\ pendingTable' = {}
  /\ UNCHANGED <<starts, execVars, loaded, known, shutdownVars, born, history>>

-----------------------------------------------------------------------------
(* add_task() in an instance that serves requests.                         *)
Submit(i, t) ==
  /\ phase[i] = "up" /\ t \in Registered \ born
  /\ born' = born \cup {t}
  /\ mem' = [mem EXCEPT ![i][t] = "pending"]
  /\ waiting' = [waiting EXCEPT ![i] = @ \cup {t}]
  /\ UNCHANGED <<phase, starts, body, loaded, known, shutdownVars, backendVars>>

(* execute_task() of a created coroutine: RUNNING.                         *)
Begin(i, t) ==
  /\ Running(i) /\ t \in waiting[i]
  /\ waiting' = [waiting EXCEPT ![i] = @ \ {t}]
  /\ body' = [body EXCEPT ![i] = @ \cup {t}]
  /\ mem' = [mem EXCEPT ![i][t] = "running"]
  /\ UNCHANGED <<phase, starts, loaded, known, shutdownVars, born, backendVars>>

(* The function returns: SUCCESS; it raises: FAILED if still RUNNING.      *)
End(i, t) ==
  /\ Running(i) /\ t \in body[i]
  /\ body' = [body EXCEPT ![i] = @ \ {t}]
  /\ \/ mem' = [mem EXCEPT ![i][t] = "success"]
     \/ mem' = [mem EXCEPT ![i][t] = IF @ = "running" THEN "failed" ELSE @]
  /\ UNCHANGED <<phase, starts, waiting, loaded, known, shutdownVars, born, backendVars>>

(* flush_one() right after SUCCESS.                                        *)
FlushOne(i, t) ==
  /\ Running(i) /\ mem[i][t] = "success"
  /\ history' = [history EXCEPT ![t] = "success"]
  /\ UNCHANGED <<phase, starts, execVars, loaded, known, shutdownVars, born, pendingTable>>

(* flush(): every record with a final status goes to the history table.    *)
Flush(i) == history' = [t \in Tasks |-> IF mem[i][t] \in Final THEN mem[i][t] ELSE history[t]]

PeriodicFlush(i) ==
  /\ phase[i] = "up" /\ Flush(i)
  /\ UNCHANGED <<phase, starts, execVars, loaded, known, shutdownVars, born, pendingTable>>

-----------------------------------------------------------------------------
(* shutdown(): flush().                                                    *)
ShutdownFlush(i) ==
  /\ Goes(i, "up", "flushed") /\ Flush(i)
  /\ UNCHANGED <<starts, execVars, loaded, known, shutdownVars, born, pendingTable>>

(* Mutant: what was interrupted elsewhere is listed for requeueing, too.   *)
ClassifyInterrupted(i) ==
  LET unstarted == {t \in Tasks : mem[i][t] \in {"pending", "interrupted"}}
      midway == {t \in Tasks : mem[i][t] = "running"}
  IN /\ Goes(i, "flushed", "classified")
     /\ toRequeue' = [toRequeue EXCEPT ![i] = unstarted \cup (midway \cap RequeueSafe)]
     /\ toInterrupt' = [toInterrupt EXCEPT ![i] = midway \ RequeueSafe]
     /\ mem' = [mem EXCEPT ![i] = [t \in Tasks |->
                  IF t \in midway \cap RequeueSafe THEN "pending"
                  ELSE IF t \in midway THEN "interrupted" ELSE mem[i][t]]]
     /\ UNCHANGED <<starts, waiting, body, loaded, known, born, backendVars>>

(* flush_pending() up to its first await.                                  *)
Classify(i) ==
  LET unstarted == {t \in Tasks : mem[i][t] = "pending"}
      midway == {t \in Tasks : mem[i][t] = "running"}
  IN /\ Goes(i, "flushed", "classified")
     /\ toRequeue' = [toRequeue EXCEPT ![i] = unstarted \cup (midway \cap RequeueSafe)]
     /\ toInterrupt' = [toInterrupt EXCEPT ![i] = midway \ RequeueSafe]
     /\ mem' = [mem EXCEPT ![i] = [t \in Tasks |->
                  IF t \in midway \cap RequeueSafe THEN "pending"
                  ELSE IF t \in midway THEN "interrupted" ELSE mem[i][t]]]
     /\ UNCHANGED <<starts, waiting, body, loaded, known, born, backendVars>>

SaveInterrupted(i) ==
  /\ Goes(i, "classified", "savedHistory")
  /\ history' = [t \in Tasks |-> IF t \in toInterrupt[i] THEN mem[i][t] ELSE history[t]]
  /\ UNCHANGED <<starts, execVars, loaded, known, shutdownVars, born, pendingTable>>

(* save_pending() replaces the table; it is not called for an empty list.  *)
SavePending(i) ==
  /\ Goes(i, "savedHistory", "leaving")
  /\ pendingTable' = IF toRequeue[i] = {} THEN pendingTable ELSE toRequeue[i]
  /\ UNCHANGED <<starts, execVars, loaded, known, shutdownVars, born, history>>

(* The process ends, at the end of shutdown() or by a crash at any time:   *)
(* what it held in memory is gone.                                         *)
Forget(i) ==
  /\ mem' = [mem EXCEPT ![i] = Empty]
  /\ waiting' = [waiting EXCEPT ![i] = {}] /\ body' = [body EXCEPT ![i] = {}]
  /\ loaded' = [loaded EXCEPT ![i] = {}] /\ known' = [known EXCEPT ![i] = {}]
  /\ toRequeue' = [toRequeue EXCEPT ![i] = {}]
  /\ toInterrupt' = [toInterrupt EXCEPT ![i] = {}]
  /\ UNCHANGED <<starts, born, backendVars>>

Exit(i) == Goes(i, "leaving", "down") /\ Forget(i)

Crash(i) ==
  /\ phase[i] \notin {"down", "leaving"}
  /\ phase' = [phase EXCEPT ![i] = "down"]
  /\ Forget(i)

-----------------------------------------------------------------------------
Startup(i) ==
  \/ Start(i) \/ LoadPending(i) \/ CheckCompleted(i)
  \/ \E t \in Tasks : Claim(i, t)
  \/ ClearPending(i)

Serve(i) ==
  \/ \E t \in Tasks : Submit(i, t) \/ Begin(i, t) \/ End(i, t) \/ FlushOne(i, t)
  \/ PeriodicFlush(i)

Shutdown(i) ==
  ShutdownFlush(i) \/ Classify(i) \/ SaveInterrupted(i) \/ SavePending(i) \/ Exit(i)

GracefulNext == \E i \in Instances : Startup(i) \/ Serve(i) \/ Shutdown(i)
Next == GracefulNext \/ \E i \in Instances : Crash(i)

Spec == Init /\ [][Next]_vars

-----------------------------------------------------------------------------
(* "Atomic requeue claiming": however their startups, shutdowns and crashes*)
(* interleave, no two instances have the same task at once, except that    *)
(* one of them may already have saved it and be about to exit.             *)
OneRunner ==
  \A i, j \in Instances : i # j =>
    \A t \in Active(i) \cap Active(j) : "leaving" \in {phase[i], phase[j]}

(* requeue(): "Skip tasks that completed successfully before the crash":   *)
(* what history showed as done when the instance started does not run in   *)
(* it, even though its row is still in the pending table.                  *)
NoRerunOfCompleted == \A i \in Instances : Active(i) \cap known[i] = {}

(* Whatever is flushed, classified, loaded and claimed, a task goes from   *)
(* hand to hand as TaskOwnership says: what an instance runs or is going   *)
(* to save is its own until its last backend call, and what it saves was.  *)
Held == [i \in Instances |->
           IF phase[i] = "leaving" THEN {} ELSE Active(i) \cup toRequeue[i]]
Owners == INSTANCE TaskOwnership WITH held <- Held, offered <- pendingTable
OwnershipKept == Owners!Spec
=============================================================================
