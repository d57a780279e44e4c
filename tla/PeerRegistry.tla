---------------------------- MODULE PeerRegistry ----------------------------
(* The registry of instances (instance_registry.py): one entry of the      *)
(* shared backend that every instance reads, changes and writes back as a  *)
(* whole, in two calls of the backend.                                     *)
(*                                                                         *)
(* An instance is one run of a process: a restart has an id of its own.    *)
(* Times are ages: how long ago an entry said that its instance was seen.  *)
EXTENDS Naturals

CONSTANTS
    Instances,
    Interval,  \* heartbeat_interval
    Delay,     \* bound: how long a call of the backend may take
    Ttl,       \* ttl
    NoEntry    \* an instance that the registry does not name

ASSUME RegistryAssumption ==
    /\ Interval \in Nat \ {0} /\ Delay \in Nat /\ Ttl \in Nat
    /\ Interval + 4 * Delay <= Ttl
    /\ NoEntry \notin Nat

Ages == 0 .. Ttl + 1 \* ages above Ttl are alike

VARIABLES
    state,    \* each instance: off, starting, up, stopping, left or dead
    registry, \* the entries of the backend
    step,     \* where its heartbeat or its removal is
    copy,     \* the entries that it is going to write
    timer,    \* time until it has to go on
    late,     \* the entries a thread still writes for its cancelled heartbeat
    gone,     \* history: time since it began to stop or died
    undone    \* history: whose last write another one has undone, or has failed

vars == <<state, registry, step, copy, timer, late, gone, undone>>

Empty == [i \in Instances |-> NoEntry]
Entries == [Instances -> Ages \cup {NoEntry}]
States == {"off", "starting", "up", "stopping", "left", "dead"}

TypeOK ==
    /\ state \in [Instances -> States]
    /\ registry \in Entries
    /\ step \in [Instances -> {"idle", "asleep", "reading", "read", "writing", "removing"}]
    /\ copy \in [Instances -> Entries]
    /\ timer \in [Instances -> 0 .. Interval + 2 * Delay]
    /\ late \in [Instances -> Entries]
    /\ gone \in [Instances -> Ages]
    /\ undone \subseteq Instances

Init ==
    /\ state = [i \in Instances |-> "off"]
    /\ registry = Empty
    /\ step = [i \in Instances |-> "idle"]
    /\ copy = [i \in Instances |-> Empty]
    /\ timer = [i \in Instances |-> 0]
    /\ late = [i \in Instances |-> Empty]
    /\ gone = [i \in Instances |-> 0]
    /\ undone = {}

-----------------------------------------------------------------------------
(* What peers() of an instance makes of the registry when its load returns *)
(* d after the backend has read it: it is then that the ages are compared. *)
Peers(i, d) == {j \in Instances \ {i} : registry[j] # NoEntry /\ registry[j] + d <= Ttl}

\* The whole registry is replaced, with what others wrote in the meantime.
Replace(entries) ==
    /\ registry' = entries
    /\ undone' = undone \cup {j \in Instances : entries[j] # registry[j]}

\* The write of an instance lands: what it says of itself is as it should be.
Lands(i) ==
    /\ registry' = copy[i]
    /\ undone' = (undone \cup {j \in Instances : copy[i][j] # registry[j]}) \ {i}

Fails(i) ==
    /\ undone' = undone \cup {i}
    /\ UNCHANGED registry

\* An instance that goes on, or waits for nothing more.
Goes(i, where, time) ==
    /\ step' = [step EXCEPT ![i] = where]
    /\ timer' = [timer EXCEPT ![i] = time]

-----------------------------------------------------------------------------
(* start(), or _heartbeat_loop() whose sleep is over: _write_entry() asks  *)
(* the backend for the registry.                                           *)
Wake(i) ==
    /\ \/ state[i] = "off"
       \/ step[i] = "asleep" /\ timer[i] = 0
    /\ state' = [state EXCEPT ![i] = IF @ = "off" THEN "starting" ELSE @]
    /\ Goes(i, "reading", Delay)
    /\ UNCHANGED <<registry, copy, late, gone, undone>>

(* The backend reads it, some time before the call returns; a failure      *)
(* counts as an empty registry.                                            *)
Read(i) ==
    /\ step[i] = "reading"
    /\ \E entries \in {registry, Empty} : copy' = [copy EXCEPT ![i] = entries]
    /\ Goes(i, "read", timer[i])
    /\ UNCHANGED <<state, registry, late, gone, undone>>

\* Mutant: the heartbeat says of everybody that they were seen.
BeatForAll(i) ==
    /\ step[i] = "read"
    /\ copy' = [copy EXCEPT ![i] =
                  [j \in Instances |-> IF j = i \/ @[j] # NoEntry THEN 0 ELSE NoEntry]]
    /\ Goes(i, "writing", Delay)
    /\ UNCHANGED <<state, registry, late, gone, undone>>

(* load_metadata() has returned: the entry of the instance gets the time   *)
(* of now, and save_metadata() begins.                                     *)
Beat(i) ==
    /\ step[i] = "read"
    /\ copy' = [copy EXCEPT ![i][i] = 0]
    /\ Goes(i, "writing", Delay)
    /\ UNCHANGED <<state, registry, late, gone, undone>>

\* Mutant: the loop sleeps until its entry is about to expire.
WriteAtTtl(i) ==
    /\ step[i] = "writing"
    /\ Lands(i) \/ Fails(i)
    /\ copy' = [copy EXCEPT ![i] = Empty]
    /\ state' = [state EXCEPT ![i] = "up"]
    /\ Goes(i, "asleep", Interval + Delay)
    /\ UNCHANGED <<late, gone>>

(* save_metadata() of a heartbeat, whose failure is logged.                *)
Write(i) ==
    /\ step[i] = "writing"
    /\ Lands(i) \/ Fails(i)
    /\ copy' = [copy EXCEPT ![i] = Empty]
    /\ state' = [state EXCEPT ![i] = "up"]
    /\ Goes(i, "asleep", Interval)
    /\ UNCHANGED <<late, gone>>

(* stop() cancels the loop.  A write that a thread has begun is not        *)
(* stopped by that.                                                        *)
Stop(i) ==
    /\ state[i] = "up"
    /\ state' = [state EXCEPT ![i] = "stopping"]
    /\ late' = [late EXCEPT ![i] = IF step[i] = "writing" THEN copy[i] ELSE Empty]
    /\ copy' = [copy EXCEPT ![i] = Empty]
    /\ Goes(i, "idle", 0)
    /\ UNCHANGED <<registry, gone, undone>>

(* The thread that the cancelled heartbeat has left behind.                *)
LateWrite(i) ==
    /\ late[i] # Empty
    /\ Replace(late[i])
    /\ late' = [late EXCEPT ![i] = Empty]
    /\ UNCHANGED <<state, step, copy, timer, gone>>

(* _remove_entry(): what is written back is the registry without this      *)
(* instance.  The rest of the load and the save take their time.           *)
Remove(i) ==
    /\ state[i] = "stopping" /\ step[i] = "idle"
    /\ copy' = [copy EXCEPT ![i] = [registry EXCEPT ![i] = NoEntry]]
    /\ Goes(i, "removing", 2 * Delay)
    /\ UNCHANGED <<state, registry, late, gone, undone>>

(* The registry cannot be read: the entry is left to expire.               *)
RemoveNothing(i) ==
    /\ state[i] = "stopping" /\ step[i] = "idle"
    /\ state' = [state EXCEPT ![i] = "left"]
    /\ undone' = undone \cup {i}
    /\ UNCHANGED <<registry, step, copy, timer, late, gone>>

Removed(i) ==
    /\ step[i] = "removing"
    /\ Lands(i) \/ Fails(i)
    /\ copy' = [copy EXCEPT ![i] = Empty]
    /\ state' = [state EXCEPT ![i] = "left"]
    /\ Goes(i, "idle", 0)
    /\ UNCHANGED <<late, gone>>

(* The process dies, and its threads with it.                              *)
Crash(i) ==
    /\ state[i] \in {"starting", "up", "stopping"}
    /\ state' = [state EXCEPT ![i] = "dead"]
    /\ copy' = [copy EXCEPT ![i] = Empty]
    /\ late' = [late EXCEPT ![i] = Empty]
    /\ Goes(i, "idle", 0)
    /\ UNCHANGED <<registry, gone, undone>>

-----------------------------------------------------------------------------
Older(entries) ==
    [i \in Instances |->
        IF entries[i] = NoEntry \/ entries[i] > Ttl THEN entries[i] ELSE entries[i] + 1]

Away(i) == state[i] \in {"stopping", "left", "dead"}

(* A unit of time, in which no instance misses its time to go on.          *)
Tick ==
    /\ \A i \in Instances : step[i] # "idle" => timer[i] > 0
    /\ registry' = Older(registry)
    /\ copy' = [i \in Instances |-> Older(copy[i])]
    /\ late' = [i \in Instances |-> Older(late[i])]
    /\ timer' = [i \in Instances |-> IF timer[i] > 0 THEN timer[i] - 1 ELSE 0]
    /\ gone' = [i \in Instances |-> IF Away(i) /\ gone[i] <= Ttl THEN gone[i] + 1 ELSE gone[i]]
    /\ UNCHANGED <<state, step, undone>>

Next ==
    \/ Tick
    \/ \E i \in Instances :
         \/ Wake(i) \/ Read(i) \/ Beat(i) \/ Write(i)
         \/ Stop(i) \/ LateWrite(i)
         \/ Remove(i) \/ RemoveNothing(i) \/ Removed(i)
         \/ Crash(i)

Spec == Init /\ [][Next]_vars

-----------------------------------------------------------------------------
(* An instance that has died or left is nobody's peer once its time to     *)
(* live is over, though the others write its entry back at each heartbeat  *)
(* and a write of its own may land after its removal (peers(),             *)
(* instance_registry.py:120).                                              *)
GoneAreForgotten ==
    \A i, j \in Instances, d \in 0 .. Delay : gone[i] > Ttl => i \notin Peers(j, d)

(* An instance that is up is in the list of whoever can read the registry  *)
(* as long as no other one undoes its last heartbeat.  A heartbeat is late *)
(* by its load, its save and the sleep that begins only after both, and    *)
(* the reader judges it by the end of its own load: an interval and four   *)
(* calls of the backend fit in the time to live (instance_registry.py:133, *)
(* 141, 171, 114).                                                         *)
UpAreListed ==
    \A i, j \in Instances, d \in 0 .. Delay :
        state[i] = "up" /\ i \notin undone /\ i # j => i \in Peers(j, d)
=============================================================================
