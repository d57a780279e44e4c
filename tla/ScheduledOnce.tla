---------------------------- MODULE ScheduledOnce ----------------------------
(***************************************************************************)
(* One run_key of schedule_once() and cancel_scheduled(), over instances   *)
(* that share a backend (periodic.py, manager.py).  Keys do not interact,  *)
(* so one key is the whole story: the row the backend holds for it, the    *)
(* entry each instance has armed in its heap, and the scheduler loop that  *)
(* refills, pops what is due and claims the row before it fires.           *)
(***************************************************************************)
EXTENDS Periodic

CONSTANTS
  Servers,       \* the instances that requests reach
  Horizon,       \* PeriodicScheduler._horizon, in ticks
  MaxSchedules,  \* bound on the calls of schedule_once()
  MaxFaults      \* bound on crashes and failed claims, together

ASSUME ConstantsAssumption ==
  /\ Servers \subseteq Instances
  /\ Horizon \in Nat /\ MaxSchedules \in Nat /\ MaxFaults \in Nat

Schedules == 1..MaxSchedules   \* the n-th call of schedule_once()
Nothing == 0
Slot == Schedules \cup {Nothing}

VARIABLES
  registered, \* the instances whose registry has the function
  made,       \* how many calls of schedule_once() there have been
  fireAt,     \* fireAt[s] = run_at of call s
  row,        \* the schedule the backend holds under the key
  armed,      \* armed[i] = the live entry of _one_offs
  pc,         \* where the loop _run() of each instance is, if it lives
  inHand,     \* inHand[i] = what it loaded or popped before an await
  arming,     \* arming[i] = a schedule_once() that has saved and not armed
  cancelling, \* instances whose cancel_scheduled() has deleted the row
  cancelled,  \* history: no schedule since a cancel_scheduled() came back
  firings,    \* history: number of tasks created
  faults

requestVars == <<made, fireAt, arming, cancelling, cancelled>>
loopVars == <<armed, pc, inHand>>
onceVars == <<now, registered, row, requestVars, loopVars, firings, faults>>

OnceTypeOK ==
  /\ now \in Times
  /\ registered \subseteq Instances
  /\ made \in Slot
  /\ fireAt \in [Schedules -> Times]
  /\ row \in Slot
  /\ armed \in [Instances -> Slot] /\ inHand \in [Instances -> Slot]
  /\ arming \in [Instances -> Slot]
  /\ pc \in [Instances -> {"sleeping", "refilling", "firing", "claiming", "dead"}]
  /\ cancelling \subseteq Instances
  /\ cancelled \in BOOLEAN
  /\ firings \in 0..MaxSchedules
  /\ faults \in 0..MaxFaults

Idle == [i \in Instances |-> Nothing]

OnceInit ==
  /\ registered \in SUBSET Instances
  /\ now = 0 /\ made = 0
  /\ fireAt = [s \in Schedules |-> 0]
  /\ row = Nothing
  /\ armed = Idle /\ inHand = Idle /\ arming = Idle
  /\ pc = [i \in Instances |-> "sleeping"]
  /\ cancelling = {} /\ cancelled = FALSE
  /\ firings = 0 /\ faults = 0

Goes(i, from, to) == pc[i] = from /\ pc' = [pc EXCEPT ![i] = to]
InWindow(s) == s # Nothing /\ fireAt[s] <= now + Horizon
Due(s) == s # Nothing /\ fireAt[s] <= now

-----------------------------------------------------------------------------
(* schedule_once(): the row is written first ...  Each instance has one    *)
(* request for the key between its two steps.                              *)
SaveSchedule(i, at) ==
  /\ made < MaxSchedules /\ arming[i] = Nothing /\ i \notin cancelling
  /\ made' = made + 1
  /\ fireAt' = [fireAt EXCEPT ![made + 1] = at]
  /\ row' = made + 1
  /\ arming' = [arming EXCEPT ![i] = made + 1]
  /\ cancelled' = FALSE
  /\ UNCHANGED <<now, registered, cancelling, loopVars, firings, faults>>

(* ... then the entry is armed if it falls into the window and the         *)
(* function is registered here; outside the window whatever was armed      *)
(* under the key is dropped.                                               *)
ArmSchedule(i) ==
  /\ arming[i] # Nothing
  /\ armed' = [armed EXCEPT ![i] = IF ~InWindow(arming[i]) THEN Nothing
                                    ELSE IF i \in registered THEN arming[i] ELSE @]
  /\ arming' = [arming EXCEPT ![i] = Nothing]
  /\ UNCHANGED <<now, registered, row, made, fireAt, cancelling, cancelled, pc, inHand, firings, faults>>

(* Mutant: a cancel leaves the row in the backend.                         *)
DeleteNothing(i) ==
  /\ arming[i] = Nothing /\ i \notin cancelling
  /\ cancelling' = cancelling \cup {i}
  /\ cancelled' = (cancelled \/ row # Nothing)
  /\ UNCHANGED <<now, registered, row, made, fireAt, arming, loopVars, firings, faults>>

(* cancel_scheduled(): delete the row, then the armed entry.               *)
DeleteSchedule(i) ==
  /\ arming[i] = Nothing /\ i \notin cancelling
  /\ cancelling' = cancelling \cup {i}
  /\ cancelled' = (cancelled \/ row # Nothing)
  /\ row' = Nothing
  /\ UNCHANGED <<now, registered, made, fireAt, arming, loopVars, firings, faults>>

Disarm(i) ==
  /\ i \in cancelling
  /\ cancelling' = cancelling \ {i}
  /\ armed' = [armed EXCEPT ![i] = Nothing]
  /\ UNCHANGED <<now, registered, row, made, fireAt, arming, cancelled, pc,
                   inHand, firings, faults>>

-----------------------------------------------------------------------------
(* Mutant: a refill looks at what is armed instead of at the backend.      *)
LoadWithoutRow(i) ==
  /\ Goes(i, "sleeping", "refilling")
  /\ inHand' = [inHand EXCEPT ![i] = armed[i]]
  /\ UNCHANGED <<now, registered, row, requestVars, armed, firings, faults>>

(* _refill(): load_due() up to the end of the window, which MySQL's cannot *)
(* give back (mysql.py:259, 428) ...                                       *)
LoadDue(i) ==
  /\ Goes(i, "sleeping", "refilling")
  /\ inHand' = [inHand EXCEPT ![i] = IF InWindow(row) THEN row ELSE Nothing]
  /\ UNCHANGED <<now, registered, row, requestVars, armed, firings, faults>>

(* ... and arm what is not armed at that time already, if the function is  *)
(* registered here: else the row stays for another instance.               *)
ArmDue(i) ==
  LET new == /\ inHand[i] # Nothing /\ i \in registered
             /\ armed[i] = Nothing \/ fireAt[armed[i]] # fireAt[inHand[i]]
  IN /\ Goes(i, "refilling", "firing")
     /\ armed' = [armed EXCEPT ![i] = IF new THEN inHand[i] ELSE @]
     /\ inHand' = [inHand EXCEPT ![i] = Nothing]
     /\ UNCHANGED <<now, registered, row, requestVars, firings, faults>>

(* An iteration with no refill due, or one whose load_due() failed.        *)
SkipRefill(i) ==
  /\ Goes(i, "sleeping", "firing")
  /\ UNCHANGED <<now, registered, row, requestVars, armed, inHand, firings, faults>>

(* Pop the entry when it is due; it is no longer armed.                    *)
PopDueOnce(i) ==
  /\ Due(armed[i]) /\ Goes(i, "firing", "claiming")
  /\ inHand' = [inHand EXCEPT ![i] = armed[i]]
  /\ armed' = [armed EXCEPT ![i] = Nothing]
  /\ UNCHANGED <<now, registered, row, requestVars, firings, faults>>

Sleep(i) ==
  /\ ~Due(armed[i]) /\ Goes(i, "firing", "sleeping")
  /\ UNCHANGED <<now, registered, row, requestVars, armed, inHand, firings, faults>>

(* Mutant: the task is fired whatever the claim says.                      *)
FireUnclaimed(i) ==
  /\ Goes(i, "claiming", "firing")
  /\ inHand' = [inHand EXCEPT ![i] = Nothing]
  /\ row' = Nothing
  /\ firings' = firings + 1
  /\ UNCHANGED <<now, registered, requestVars, armed, faults>>

(* _fire_once(): claim_scheduled() deletes the row of the key; the task is *)
(* created and dispatched only by the instance that found one.             *)
ClaimAndFire(i) ==
  /\ Goes(i, "claiming", "firing")
  /\ inHand' = [inHand EXCEPT ![i] = Nothing]
  /\ row' = Nothing
  /\ firings' = IF row # Nothing THEN firings + 1 ELSE firings
  /\ UNCHANGED <<now, registered, requestVars, armed, faults>>

(* The named queue of the task is full: QueueFullError leaves _run(), when *)
(* the row is claimed and the task created.  This instance fires no more.  *)
FireOnceRefused(i) ==
  /\ row # Nothing
  /\ Goes(i, "claiming", "dead")
  /\ inHand' = [inHand EXCEPT ![i] = Nothing]
  /\ row' = Nothing
  /\ firings' = firings + 1
  /\ UNCHANGED <<now, registered, requestVars, armed, faults>>

(* claim_scheduled() raises: this firing is skipped, the row stays.        *)
ClaimFails(i) ==
  /\ faults < MaxFaults /\ faults' = faults + 1
  /\ Goes(i, "claiming", "firing")
  /\ inHand' = [inHand EXCEPT ![i] = Nothing]
  /\ UNCHANGED <<now, registered, row, requestVars, armed, firings>>

-----------------------------------------------------------------------------
OnceTick ==
  /\ now < MaxTime /\ now' = now + 1
  /\ UNCHANGED <<registered, row, requestVars, loopVars, firings, faults>>

(* The process dies and is started again.                                  *)
Crash(i) ==
  /\ faults < MaxFaults /\ faults' = faults + 1
  /\ armed' = [armed EXCEPT ![i] = Nothing]
  /\ inHand' = [inHand EXCEPT ![i] = Nothing]
  /\ arming' = [arming EXCEPT ![i] = Nothing]
  /\ pc' = [pc EXCEPT ![i] = "sleeping"]
  /\ cancelling' = cancelling \ {i}
  /\ UNCHANGED <<now, registered, row, made, fireAt, cancelled, firings>>

-----------------------------------------------------------------------------
Request(i) ==
  \/ \E at \in Times : SaveSchedule(i, at)
  \/ DeleteSchedule(i)

Answer(i) == ArmSchedule(i) \/ Disarm(i)

Loop(i) == \/ LoadDue(i) \/ ArmDue(i) \/ SkipRefill(i) \/ PopDueOnce(i) \/ Sleep(i)
           \/ ClaimAndFire(i) \/ FireOnceRefused(i) \/ ClaimFails(i)

OnceNext ==
  \/ OnceTick
  \/ \E i \in Servers : Request(i)
  \/ \E i \in Instances : Answer(i) \/ Loop(i) \/ Crash(i)

OnceSpec == OnceInit /\ [][OnceNext]_onceVars

(* Time passes, coroutines go on, and every loop that lives comes again to *)
(* a refill whose load_due() does not fail: so not on MySQL.               *)
OnceFairness ==
  /\ WF_onceVars(OnceTick)
  /\ \A i \in Instances :
       WF_onceVars(Answer(i)) /\ WF_onceVars(Loop(i)) /\ SF_onceVars(LoadDue(i))

OnceFairSpec == OnceSpec /\ OnceFairness

-----------------------------------------------------------------------------
(* "Exactly one instance wins that claim and runs the task": over all      *)
(* instances, restarts, refills and reschedulings there are never more     *)
(* firings than schedules taken out of the backend by one.                 *)
NoExtraFiring == firings + (IF row # Nothing THEN 1 ELSE 0) <= made

(* cancel_scheduled() that removed an entry is final: until the key is     *)
(* scheduled again nothing fires under it, whatever is armed, in the hands *)
(* of a loop, or lost and reloaded in a restart.                           *)
CancelHolds == [][cancelled /\ cancelled' => firings' = firings]_onceVars

(* "A firing scheduled today still happens" (one-off-tasks.md:156): a row  *)
(* of the backend is claimed, cancelled or replaced, whichever instance    *)
(* has armed it crashes, as long as a loop lives in an instance that has   *)
(* the function.  A task that a full queue refuses was claimed as well.    *)
StoredScheduleIsServed ==
  \A s \in Schedules :
    row = s ~> row # s \/ \A i \in registered : pc[i] = "dead"
=============================================================================
