-------------------------- MODULE PeerRegistryProofs --------------------------
(***************************************************************************)
(* What holds of the registry for every number of instances, and every     *)
(* interval, delay and time to live that go together: whoever is gone is   *)
(* forgotten, and whoever is up is listed until somebody else undoes its   *)
(* heartbeat.                                                              *)
(*                                                                         *)
(* The argument: no copy of an entry, wherever it waits to be written      *)
(* back, is younger than the absence of its instance; and the age of an    *)
(* entry together with the time its instance has to go on is bounded.      *)
(***************************************************************************)
EXTENDS PeerRegistry, TLAPS

-----------------------------------------------------------------------------
(* The inductive invariant.                                                *)

(* What each state of an instance has under way.                           *)
StepOfState ==
    \A i \in Instances :
        /\ state[i] \in {"off", "left", "dead"} => step[i] = "idle"
        /\ state[i] = "starting" => step[i] \in {"reading", "read", "writing"}
        /\ state[i] = "up" => step[i] \in {"asleep", "reading", "read", "writing"}
        /\ state[i] = "stopping" => step[i] \in {"idle", "removing"}
        /\ ~Away(i) => gone[i] = 0

(* No entry says of an instance that it was seen after it had gone.        *)
NotYounger(entries) ==
    \A i \in Instances : entries[i] # NoEntry => gone[i] <= entries[i]

OldEntries ==
    /\ NotYounger(registry)
    /\ \A j \in Instances : NotYounger(copy[j]) /\ NotYounger(late[j])

(* An instance that is up writes again before its entry is too old.        *)
FreshEntries ==
    \A i \in Instances :
        /\ step[i] = "writing" =>
              copy[i][i] # NoEntry /\ copy[i][i] + timer[i] <= Delay
        /\ state[i] = "up" /\ i \notin undone =>
              /\ registry[i] # NoEntry
              /\ step[i] = "asleep" => registry[i] + timer[i] <= Interval + Delay
              /\ step[i] \in {"reading", "read"} => registry[i] + timer[i] <= Interval + 2 * Delay
              /\ step[i] = "writing" => registry[i] + timer[i] <= Interval + 3 * Delay

IInv == TypeOK /\ StepOfState /\ OldEntries /\ FreshEntries

-----------------------------------------------------------------------------
LEMMA InitIInv == Init => IInv
<1> SUFFICES ASSUME Init PROVE IInv
  OBVIOUS
<1> USE RegistryAssumption DEF RegistryAssumption
<1>1. TypeOK
  BY DEF Init, TypeOK, Empty, Entries, Ages, States
<1>2. StepOfState /\ OldEntries /\ FreshEntries
  BY DEF Init, StepOfState, OldEntries, NotYounger, FreshEntries, Empty, Away
<1>. QED BY <1>1, <1>2 DEF IInv

(* Entries stay entries while they age.                                    *)
LEMMA OlderType ==
  ASSUME NEW e \in Entries PROVE Older(e) \in Entries
BY RegistryAssumption DEF RegistryAssumption, Older, Entries, Ages

(* ... and do not get younger than an absence that grows with them.        *)
LEMMA OlderStep ==
  ASSUME IInv, Tick, NEW e \in Entries, NotYounger(e),
         NEW i \in Instances, Older(e)[i] # NoEntry
  PROVE  gone'[i] <= Older(e)[i]
<1>1. e[i] \in Ages /\ gone[i] \in Ages /\ gone[i] <= e[i] /\ e[i] # NoEntry
  BY RegistryAssumption DEF Older, Entries, NotYounger, IInv, TypeOK, Ages
<1>2. gone'[i] = IF Away(i) /\ gone[i] <= Ttl THEN gone[i] + 1 ELSE gone[i]
  BY DEF Tick
<1>3. Older(e)[i] = IF e[i] > Ttl THEN e[i] ELSE e[i] + 1
  BY <1>1 DEF Older
<1>. QED BY <1>1, <1>2, <1>3, RegistryAssumption DEF RegistryAssumption, Ages

-----------------------------------------------------------------------------
LEMMA TypeStep == IInv /\ [Next]_vars => TypeOK'
<1> SUFFICES ASSUME IInv, [Next]_vars PROVE TypeOK'
  OBVIOUS
<1> USE RegistryAssumption DEF RegistryAssumption, IInv, TypeOK, Goes, States
<1>0. Empty \in Entries
  BY DEF Empty, Entries
<1>1. CASE Tick
  <2>1. registry' \in Entries
    BY <1>1, OlderType DEF Tick
  <2>2. copy' \in [Instances -> Entries] /\ late' \in [Instances -> Entries]
    BY <1>1, OlderType DEF Tick
  <2>3. timer' \in [Instances -> 0 .. Interval + 2 * Delay] /\ gone' \in [Instances -> Ages]
    BY <1>1 DEF Tick, Ages
  <2>. QED BY <1>1, <2>1, <2>2, <2>3 DEF Tick
<1>2. ASSUME NEW i \in Instances, Wake(i) \/ Read(i) \/ Beat(i) PROVE TypeOK'
  <2>1. CASE Wake(i)
    BY <2>1 DEF Wake
  <2>2. CASE Read(i)
    BY <1>0, <2>2 DEF Read
  <2>3. CASE Beat(i)
    <3>1. [copy[i] EXCEPT ![i] = 0] \in Entries
      BY DEF Entries, Ages
    <3>. QED BY <2>3, <3>1 DEF Beat
  <2>. QED BY <1>2, <2>1, <2>2, <2>3
<1>3. ASSUME NEW i \in Instances, Write(i) PROVE TypeOK'
  BY <1>0, <1>3 DEF Write, Lands, Fails
<1>4. ASSUME NEW i \in Instances, Stop(i) PROVE TypeOK'
  BY <1>0, <1>4 DEF Stop
<1>5. ASSUME NEW i \in Instances, LateWrite(i) PROVE TypeOK'
  BY <1>0, <1>5 DEF LateWrite, Replace
<1>6. ASSUME NEW i \in Instances, Remove(i) PROVE TypeOK'
  <2>1. [registry EXCEPT ![i] = NoEntry] \in Entries
    BY DEF Entries
  <2>. QED BY <1>6, <2>1 DEF Remove
<1>7. ASSUME NEW i \in Instances, RemoveNothing(i) PROVE TypeOK'
  BY <1>7 DEF RemoveNothing
<1>8. ASSUME NEW i \in Instances, Removed(i) PROVE TypeOK'
  BY <1>0, <1>8 DEF Removed, Lands, Fails
<1>9. ASSUME NEW i \in Instances, Crash(i) PROVE TypeOK'
  BY <1>0, <1>9 DEF Crash
<1>10. CASE UNCHANGED vars
  BY <1>10 DEF vars
<1>. QED
  BY <1>1, <1>2, <1>3, <1>4, <1>5, <1>6, <1>7, <1>8, <1>9, <1>10 DEF Next

LEMMA StateStep == IInv /\ [Next]_vars => StepOfState'
<1> SUFFICES ASSUME IInv, [Next]_vars PROVE StepOfState'
  OBVIOUS
<1> USE RegistryAssumption DEF RegistryAssumption, IInv, TypeOK, Goes, States, StepOfState, Away
<1>1. CASE Tick
  BY <1>1 DEF Tick
<1>2. ASSUME NEW i \in Instances, Wake(i) \/ Read(i) \/ Beat(i) PROVE StepOfState'
  BY <1>2 DEF Wake, Read, Beat
<1>3. ASSUME NEW i \in Instances, Write(i) PROVE StepOfState'
  BY <1>3 DEF Write
<1>4. ASSUME NEW i \in Instances, Stop(i) \/ Remove(i) \/ Removed(i) PROVE StepOfState'
  BY <1>4 DEF Stop, Remove, Removed
<1>5. ASSUME NEW i \in Instances, LateWrite(i) PROVE StepOfState'
  BY <1>5 DEF LateWrite
<1>6. ASSUME NEW i \in Instances, RemoveNothing(i) \/ Crash(i) PROVE StepOfState'
  BY <1>6 DEF RemoveNothing, Crash
<1>7. CASE UNCHANGED vars
  BY <1>7 DEF vars
<1>. QED
  BY <1>1, <1>2, <1>3, <1>4, <1>5, <1>6, <1>7 DEF Next

LEMMA OldStep == IInv /\ [Next]_vars => OldEntries'
<1> SUFFICES ASSUME IInv, [Next]_vars PROVE OldEntries'
  OBVIOUS
<1> USE RegistryAssumption DEF RegistryAssumption, IInv, TypeOK, OldEntries, NotYounger
<1>0. Empty \in Entries /\ \A j \in Instances : Empty[j] = NoEntry
  BY DEF Empty, Entries
<1>1. CASE Tick
  <2>1. ASSUME NEW e \in Entries, NotYounger(e), NEW i \in Instances, Older(e)[i] # NoEntry
        PROVE  gone'[i] <= Older(e)[i]
    BY <1>1, <2>1, OlderStep
  <2>2. NotYounger(registry)'
    BY <1>1, <2>1 DEF Tick
  <2>3. ASSUME NEW j \in Instances PROVE NotYounger(copy[j])' /\ NotYounger(late[j])'
    BY <1>1, <2>1 DEF Tick
  <2>. QED BY <2>2, <2>3
<1>2. ASSUME NEW i \in Instances, Wake(i) PROVE OldEntries'
  BY <1>2 DEF Wake
<1>3. ASSUME NEW i \in Instances, Read(i) PROVE OldEntries'
  <2>1. PICK e \in {registry, Empty} : copy' = [copy EXCEPT ![i] = e]
    BY <1>3 DEF Read
  <2>2. NotYounger(e)
    BY <1>0
  <2>3. gone' = gone /\ late' = late /\ registry' = registry
    BY <1>3 DEF Read
  <2>. QED BY <2>1, <2>2, <2>3
<1>4. ASSUME NEW i \in Instances, Beat(i) PROVE OldEntries'
  <2>1. gone[i] = 0 /\ gone' = gone /\ late' = late /\ registry' = registry
    BY <1>4 DEF Beat, StepOfState, Away
  <2>2. \A j \in Instances : [copy[i] EXCEPT ![i] = 0][j] = IF j = i THEN 0 ELSE copy[i][j]
    BY DEF Entries
  <2>3. NotYounger([copy[i] EXCEPT ![i] = 0])
    BY <2>1, <2>2
  <2>4. \A j \in Instances :
          copy'[j] = IF j = i THEN [copy[i] EXCEPT ![i] = 0] ELSE copy[j]
    BY <1>4 DEF Beat
  <2>. QED BY <2>1, <2>3, <2>4
<1>5. ASSUME NEW i \in Instances, Write(i) \/ Removed(i) PROVE OldEntries'
  <2>1. registry' = registry \/ registry' = copy[i]
    BY <1>5 DEF Write, Removed, Lands, Fails
  <2>2. gone' = gone /\ late' = late /\ copy' = [copy EXCEPT ![i] = Empty]
    BY <1>5 DEF Write, Removed
  <2>. QED BY <1>0, <2>1, <2>2
<1>6. ASSUME NEW i \in Instances, Stop(i) PROVE OldEntries'
  BY <1>0, <1>6 DEF Stop
<1>7. ASSUME NEW i \in Instances, LateWrite(i) PROVE OldEntries'
  BY <1>0, <1>7 DEF LateWrite, Replace
<1>8. ASSUME NEW i \in Instances, Remove(i) PROVE OldEntries'
  <2>1. \A j \in Instances :
          [registry EXCEPT ![i] = NoEntry][j] = IF j = i THEN NoEntry ELSE registry[j]
    BY DEF Entries
  <2>. QED BY <1>8, <2>1 DEF Remove
<1>9. ASSUME NEW i \in Instances, Crash(i) PROVE OldEntries'
  BY <1>0, <1>9 DEF Crash
<1>10. ASSUME NEW i \in Instances, RemoveNothing(i) PROVE OldEntries'
  BY <1>10 DEF RemoveNothing
<1>11. CASE UNCHANGED vars
  BY <1>11 DEF vars
<1>. QED
  BY <1>1, <1>2, <1>3, <1>4, <1>5, <1>6, <1>7, <1>8, <1>9, <1>10, <1>11 DEF Next

LEMMA FreshStep == IInv /\ [Next]_vars => FreshEntries'
<1> SUFFICES ASSUME IInv, [Next]_vars PROVE FreshEntries'
  OBVIOUS
<1> USE RegistryAssumption DEF RegistryAssumption, IInv, TypeOK, Goes, StepOfState
<1>0. Empty \in Entries /\ \A j \in Instances : Empty[j] = NoEntry
  BY DEF Empty, Entries
<1>1. CASE Tick
  <2>1. ASSUME NEW e \in Entries, NEW i \in Instances
        PROVE  /\ e[i] \in Ages \cup {NoEntry}
               /\ Older(e)[i] = IF e[i] = NoEntry \/ e[i] > Ttl THEN e[i] ELSE e[i] + 1
    BY DEF Older, Entries
  <2>2. ASSUME NEW i \in Instances, step[i] = "writing"
        PROVE  /\ copy'[i][i] # NoEntry
               /\ copy'[i][i] + timer'[i] <= Delay
    <3>1. timer[i] > 0 /\ timer'[i] = timer[i] - 1 /\ copy'[i] = Older(copy[i])
      BY <1>1, <2>2 DEF Tick
    <3>. QED BY <2>1, <2>2, <3>1 DEF FreshEntries, Ages
  <2>3. ASSUME NEW i \in Instances, state[i] = "up", i \notin undone
        PROVE  /\ registry'[i] # NoEntry
               /\ step[i] = "asleep" => registry'[i] + timer'[i] <= Interval + Delay
               /\ step[i] \in {"reading", "read"} =>
                     registry'[i] + timer'[i] <= Interval + 2 * Delay
               /\ step[i] = "writing" => registry'[i] + timer'[i] <= Interval + 3 * Delay
    <3>1. step[i] \in {"asleep", "reading", "read", "writing"}
      BY <2>3
    <3>2. timer[i] > 0 /\ timer'[i] = timer[i] - 1 /\ registry' = Older(registry)
      BY <1>1, <3>1 DEF Tick
    <3>. QED BY <2>1, <2>3, <3>1, <3>2 DEF FreshEntries, Ages
  <2>. QED BY <1>1, <2>2, <2>3 DEF Tick, FreshEntries
<1>2. ASSUME NEW i \in Instances, Wake(i) PROVE FreshEntries'
  <2>1. /\ timer' = [timer EXCEPT ![i] = Delay] /\ step' = [step EXCEPT ![i] = "reading"]
        /\ registry' = registry /\ copy' = copy /\ undone' = undone
        /\ \A j \in Instances \ {i} : state'[j] = state[j]
    BY <1>2 DEF Wake
  <2>2. state'[i] = "up" => state[i] = "up" /\ step[i] = "asleep" /\ timer[i] = 0
    BY <1>2 DEF Wake
  <2>3. registry[i] # NoEntry => registry[i] \in Nat
    BY DEF Entries, Ages
  <2>4. state'[i] = "up" /\ i \notin undone =>
           registry[i] # NoEntry /\ registry[i] + Delay <= Interval + 2 * Delay
    BY <2>2, <2>3 DEF FreshEntries
  <2>. QED BY <2>1, <2>4 DEF FreshEntries
<1>3. ASSUME NEW i \in Instances, Read(i) PROVE FreshEntries'
  <2>1. step[i] = "reading" /\ step' = [step EXCEPT ![i] = "read"] /\ timer' = timer
    BY <1>3 DEF Read
  <2>2. \A j \in Instances \ {i} : copy'[j] = copy[j]
    BY <1>3 DEF Read
  <2>3. state' = state /\ registry' = registry /\ undone' = undone
    BY <1>3 DEF Read
  <2>. QED BY <2>1, <2>2, <2>3 DEF FreshEntries
<1>4. ASSUME NEW i \in Instances, Beat(i) PROVE FreshEntries'
  <2>1. copy'[i][i] = 0 /\ \A j \in Instances \ {i} : copy'[j] = copy[j]
    BY <1>4 DEF Beat, Entries
  <2>2. /\ timer' = [timer EXCEPT ![i] = Delay] /\ step' = [step EXCEPT ![i] = "writing"]
        /\ registry' = registry /\ undone' = undone /\ state' = state /\ step[i] = "read"
    BY <1>4 DEF Beat
  <2>3. registry[i] # NoEntry => registry[i] \in Nat
    BY DEF Entries, Ages
  <2>4. timer[i] \in Nat
    OBVIOUS
  <2>5. 0 + Delay <= Delay /\ 0 # NoEntry
    OBVIOUS
  <2>6. state[i] = "up" /\ i \notin undone =>
           registry[i] # NoEntry /\ registry[i] + Delay <= Interval + 3 * Delay
    BY <2>2, <2>3, <2>4 DEF FreshEntries
  <2>. QED BY <2>1, <2>2, <2>5, <2>6 DEF FreshEntries
<1>5. ASSUME NEW i \in Instances, Write(i) PROVE FreshEntries'
  <2>1. /\ state' = [state EXCEPT ![i] = "up"] /\ step' = [step EXCEPT ![i] = "asleep"]
        /\ timer' = [timer EXCEPT ![i] = Interval]
        /\ \A j \in Instances \ {i} : copy'[j] = copy[j]
    BY <1>5 DEF Write
  <2>2. copy[i][i] \in Nat /\ copy[i][i] <= Delay /\ copy[i][i] # NoEntry
    BY <1>5 DEF Write, FreshEntries, Entries, Ages
  <2>3. \A j \in Instances \ {i} :
           j \notin undone' => j \notin undone /\ registry'[j] = registry[j]
    BY <1>5 DEF Write, Lands, Fails
  <2>4. i \notin undone' => registry'[i] = copy[i][i]
    BY <1>5 DEF Write, Lands, Fails
  <2>. QED BY <2>1, <2>2, <2>3, <2>4 DEF FreshEntries
<1>6. ASSUME NEW i \in Instances, Stop(i) \/ Crash(i) PROVE FreshEntries'
  BY <1>6 DEF Stop, Crash, FreshEntries
<1>7. ASSUME NEW i \in Instances, LateWrite(i) PROVE FreshEntries'
  <2>1. \A j \in Instances :
           j \notin undone' => j \notin undone /\ registry'[j] = registry[j]
    BY <1>7 DEF LateWrite, Replace
  <2>. QED BY <1>7, <2>1 DEF LateWrite, FreshEntries
<1>8. ASSUME NEW i \in Instances, Remove(i) PROVE FreshEntries'
  BY <1>8 DEF Remove, FreshEntries
<1>9. ASSUME NEW i \in Instances, RemoveNothing(i) PROVE FreshEntries'
  BY <1>9 DEF RemoveNothing, FreshEntries
<1>10. ASSUME NEW i \in Instances, Removed(i) PROVE FreshEntries'
  <2>1. /\ state' = [state EXCEPT ![i] = "left"] /\ step' = [step EXCEPT ![i] = "idle"]
        /\ timer' = [timer EXCEPT ![i] = 0]
        /\ \A j \in Instances \ {i} : copy'[j] = copy[j]
    BY <1>10 DEF Removed
  <2>2. \A j \in Instances \ {i} :
           j \notin undone' => j \notin undone /\ registry'[j] = registry[j]
    BY <1>10 DEF Removed, Lands, Fails
  <2>. QED BY <2>1, <2>2 DEF FreshEntries
<1>11. CASE UNCHANGED vars
  BY <1>11 DEF vars, FreshEntries
<1>. QED
  BY <1>1, <1>2, <1>3, <1>4, <1>5, <1>6, <1>7, <1>8, <1>9, <1>10, <1>11 DEF Next

LEMMA Invariance == Spec => []IInv
<1>1. IInv /\ [Next]_vars => IInv'
  BY TypeStep, StateStep, OldStep, FreshStep DEF IInv
<1>. QED BY InitIInv, <1>1, PTL DEF Spec

-----------------------------------------------------------------------------
(* Every reachable state of the registry and of its instances is well      *)
(* typed, for every number of them (instance_registry.py).                 *)
THEOREM TypeCorrect == Spec => []TypeOK
<1>1. IInv => TypeOK
  BY DEF IInv
<1>. QED BY <1>1, Invariance, PTL

(* An instance that has been gone for a time to live is nobody's peer,     *)
(* whoever writes old copies of its entry back (instance_registry.py:120). *)
THEOREM GoneAreForgottenAlways == Spec => []GoneAreForgotten
<1>1. IInv => GoneAreForgotten
  <2> SUFFICES ASSUME IInv, NEW i \in Instances, gone[i] > Ttl, registry[i] # NoEntry,
                      NEW d \in 0 .. Delay
               PROVE  ~(registry[i] + d <= Ttl)
    BY DEF GoneAreForgotten, Peers
  <2>1. registry[i] \in Nat /\ gone[i] \in Nat /\ Ttl \in Nat /\ d \in Nat
    BY RegistryAssumption DEF RegistryAssumption, IInv, TypeOK, Entries, Ages
  <2>. QED BY <2>1 DEF IInv, OldEntries, NotYounger
<1>. QED BY <1>1, Invariance, PTL

(* If an interval and four calls of the backend fit in the time to live,   *)
(* an instance that is up is in everybody's list, however late the         *)
(* readers' calls return, until another instance undoes its last heartbeat *)
(* (instance_registry.py:133, 171).                                        *)
THEOREM UpAreListedAlways == Spec => []UpAreListed
<1>1. IInv => UpAreListed
  <2> SUFFICES ASSUME IInv, NEW i \in Instances, state[i] = "up", i \notin undone,
                      NEW d \in 0 .. Delay
               PROVE  registry[i] # NoEntry /\ registry[i] + d <= Ttl
    BY DEF UpAreListed, Peers
  <2>1. registry[i] # NoEntry /\ registry[i] \in Nat /\ timer[i] \in Nat
    BY RegistryAssumption
    DEF RegistryAssumption, IInv, TypeOK, StepOfState, FreshEntries, Entries, Ages
  <2>2. registry[i] + timer[i] <= Interval + 3 * Delay
    BY <2>1, RegistryAssumption DEF RegistryAssumption, IInv, StepOfState, FreshEntries
  <2>. QED BY <2>1, <2>2, RegistryAssumption DEF RegistryAssumption
<1>. QED BY <1>1, Invariance, PTL
=============================================================================
