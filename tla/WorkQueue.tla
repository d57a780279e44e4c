------------------------------ MODULE WorkQueue ------------------------------
(***************************************************************************)
(* What a named queue promises its callers (docs/guide/named-queues.md):   *)
(* a submitted task is accepted or refused at once, it is refused only     *)
(* when the queue has max_size tasks waiting, at most `concurrency' tasks  *)
(* run together, and an accepted task is started exactly once.             *)
(***************************************************************************)
EXTENDS Integers, FiniteSets

CONSTANTS Tasks, Concurrency, MaxSize, NoLimit

VARIABLES waiting, running, finished, refused

vars == <<waiting, running, finished, refused>>

Init == /\ waiting = {}
        /\ running = {}
        /\ finished = {}
        /\ refused = {}

Unseen(t) == t \notin waiting \cup running \cup finished \cup refused

(* One task beyond max_size may wait: the one already taken off the heap.  *)
Accept(t) ==
  /\ Unseen(t)
  /\ MaxSize # NoLimit => Cardinality(waiting) <= MaxSize
  /\ waiting' = waiting \cup {t}
  /\ UNCHANGED <<running, finished, refused>>

Refuse(t) ==
  /\ Unseen(t)
  /\ MaxSize # NoLimit
  /\ Cardinality(waiting) >= MaxSize
  /\ refused' = refused \cup {t}
  /\ UNCHANGED <<waiting, running, finished>>

Start(t) ==
  /\ t \in waiting
  /\ Concurrency # NoLimit => Cardinality(running) < Concurrency
  /\ waiting' = waiting \ {t}
  /\ running' = running \cup {t}
  /\ UNCHANGED <<finished, refused>>

Finish(t) ==
  /\ t \in running
  /\ running' = running \ {t}
  /\ finished' = finished \cup {t}
  /\ UNCHANGED <<waiting, refused>>

Next == \E t \in Tasks : Accept(t) \/ Refuse(t) \/ Start(t) \/ Finish(t)

Spec == Init /\ [][Next]_vars
=============================================================================
