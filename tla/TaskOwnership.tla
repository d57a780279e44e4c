--------------------------- MODULE TaskOwnership ---------------------------
(***************************************************************************)
(* What requeueing promises of a task (docs/guide/requeue.md): it comes    *)
(* from one add_task(), one instance has it at a time, and it gets from    *)
(* one instance to the next only through the table of pending tasks, where *)
(* an instance that lets go of it has left it and the next one claims it.  *)
(* A task may be let go of for good, finished or lost, and a row may be    *)
(* taken out of the table by nobody.                                       *)
(***************************************************************************)
CONSTANTS Instances, Tasks

VARIABLES
  born,     \* tasks that were submitted
  held,     \* held[i] = the tasks that instance i has
  offered   \* tasks in the table

vars == <<born, held, offered>>

Init ==
  /\ born = {}
  /\ held = [i \in Instances |-> {}]
  /\ offered = {}

Submit(i, t) ==
  /\ t \notin born
  /\ born' = born \cup {t}
  /\ held' = [held EXCEPT ![i] = @ \cup {t}]
  /\ UNCHANGED offered

Take(i, t) ==
  /\ t \in offered
  /\ offered' = offered \ {t}
  /\ held' = [held EXCEPT ![i] = @ \cup {t}]
  /\ UNCHANGED born

LetGo(i, gone) ==
  /\ held' = [held EXCEPT ![i] = @ \ gone]
  /\ UNCHANGED <<born, offered>>

(* An instance that leaves has nothing any more.                           *)
HandOver(i, left) ==
  /\ left \subseteq held[i]
  /\ held' = [held EXCEPT ![i] = {}]
  /\ offered' \subseteq offered \cup left
  /\ UNCHANGED born

Discard ==
  /\ offered' \subseteq offered
  /\ UNCHANGED <<born, held>>

Next ==
  \/ Discard
  \/ \E i \in Instances :
       \/ \E t \in Tasks : Submit(i, t) \/ Take(i, t)
       \/ \E some \in SUBSET held[i] : LetGo(i, some) \/ HandOver(i, some)

Spec == Init /\ [][Next]_vars
=============================================================================
