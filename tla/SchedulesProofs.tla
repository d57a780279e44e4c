---------------------------- MODULE SchedulesProofs ----------------------------
(***************************************************************************)
(* What holds of the schedules of periodic.py for every number of          *)
(* instances and every bound: of the recurring ones (RecurringSchedule),   *)
(* and of the one-off ones (ScheduledOnce).                                *)
(*                                                                         *)
(* A recurring schedule, with every interval, cron grid and delay: firings *)
(* are a lock's lifetime apart, less a delay, and a loop that lives never  *)
(* leaves its schedule alone for longer than it may.  A firing is decided  *)
(* when the lock is taken.  A lock that outlives the delay of its firing   *)
(* lets nobody else take it in between; of one that does not there is      *)
(* nothing to show but that time goes forward.  A loop that is refused     *)
(* knows that the lock was taken less than a lifetime ago, and its next    *)
(* attempt is at most an interval away.                                    *)
(*                                                                         *)
(* A one-off schedule: a key never fires more often than it was scheduled, *)
(* and a cancel is final.  Both rest on the row of the backend alone: a    *)
(* firing takes the row away, and only schedule_once() puts one there.     *)
(* Nothing is assumed of what the instances have armed, popped or loaded.  *)
(***************************************************************************)
EXTENDS RecurringSchedule, ScheduledOnce, TLAPS

-----------------------------------------------------------------------------
(* Arithmetic of the grid and of the lock's lifetime.                      *)

(* Euclidean division by a positive number.                                *)
LEMMA Division ==
  ASSUME NEW t \in Nat, NEW e \in Nat \ {0}
  PROVE  /\ t \div e \in Nat
         /\ (t \div e) * e \in Nat
         /\ (t \div e) * e <= t
         /\ ((t \div e) + 1) * e \in Nat
         /\ ((t \div e) + 1) * e = (t \div e) * e + e
<1>1. t \div e \in Nat
  OBVIOUS
<1>2. t = e * (t \div e) + (t % e) /\ t % e \in 0 .. e - 1
  OBVIOUS
<1>3. \A q \in Nat : q * e \in Nat /\ e * q = q * e /\ (q + 1) * e = q * e + e
  OBVIOUS
<1>. QED BY <1>1, <1>2, <1>3

(* The next run is in the future and at most one interval away.            *)
LEMMA NextIsNear ==
  ASSUME SetupsAssumption, setup \in Setups, NEW t \in Nat
  PROVE  ComputeNext(t) \in Nat /\ ComputeNext(t) <= t + setup.every
<1>1. setup.every \in Nat \ {0} /\ setup.cron \in BOOLEAN
  BY DEF SetupsAssumption, Setup
<1>2. CASE setup.cron
  BY <1>1, <1>2, Division DEF ComputeNext
<1>3. CASE ~setup.cron
  BY <1>1, <1>3 DEF ComputeNext
<1>. QED BY <1>1, <1>2, <1>3

(* A lock lasts some number of ticks.                                      *)
LEMMA LockTtlIsTime ==
  ASSUME SetupsAssumption, TicksAssumption, setup \in Setups
  PROVE  LockTtl \in Nat
<1>1. setup.every \in Nat \ {0} /\ setup.cron \in BOOLEAN
  BY DEF SetupsAssumption, Setup
<1>2. WholeSeconds(setup.every) \in Nat
  BY <1>1, Division DEF WholeSeconds, TicksAssumption
<1>3. Second \in Nat /\ CronLock \in Nat
  BY DEF TicksAssumption
<1>. QED BY <1>1, <1>2, <1>3 DEF LockTtl

-----------------------------------------------------------------------------
(* The inductive invariant.                                                *)

(* Only a schedule with a backend asks for a lock.  Who has it will fire   *)
(* in time; before it can expire, and while nobody else fires, if it       *)
(* outlives the delay.                                                     *)
LockHeld ==
    /\ ~setup.shared => /\ lockUntil = 0
                        /\ \A i \in Instances : loop[i] \notin {"locking", "firing"}
    /\ \A i \in Instances : loop[i] = "firing" =>
          /\ since[i] <= now /\ now <= since[i] + MaxLate
          /\ MaxLate < LockTtl =>
                /\ lockUntil = since[i] + LockTtl
                /\ \A j \in Instances : loop[j] = "firing" => j = i

(* The lifetime of the lock of the latest firing is over when the next one *)
(* is taken.                                                               *)
LatestApart ==
    setup.shared /\ latest # NoTime =>
        /\ latest.at <= now
        /\ MaxLate < LockTtl =>
              /\ latest.at + LockTtl <= lockUntil + MaxLate
              /\ \A i \in Instances : loop[i] = "firing" =>
                    latest.at + LockTtl <= since[i] + MaxLate

(* The lock tells when the latest firing was decided.                      *)
LockTells == lockUntil # 0 => served # NoTime /\ lockUntil = served + LockTtl

(* Nothing that is remembered lies in the future.                          *)
InThePast ==
    /\ served # NoTime => served <= now
    /\ \A i \in Instances : loop[i] # "down" => upSince[i] # NoTime /\ upSince[i] <= now

(* Each live loop wakes in time for its next run, which is near.           *)
OnTime ==
    \A i \in Instances :
        /\ loop[i] = "asleep" =>
              /\ nextRun[i] <= CoveredSince(i) + LockTtl + setup.every
              /\ now <= CoveredSince(i) + LockTtl + setup.every + MaxLate
        /\ loop[i] = "locking" =>
              /\ since[i] <= now /\ now <= since[i] + MaxLate
              /\ since[i] <= CoveredSince(i) + LockTtl + setup.every + MaxLate
        /\ loop[i] = "firing" => since[i] <= CoveredSince(i)
        /\ loop[i] \in {"locking", "firing"} => nextRun[i] <= since[i] + setup.every

IInv == TypeOK /\ LockHeld /\ LatestApart /\ LockTells /\ InThePast /\ OnTime

-----------------------------------------------------------------------------
LEMMA InitIInv == Init => IInv
<1> SUFFICES ASSUME Init PROVE IInv
  OBVIOUS
<1> USE ClockAssumption, TicksAssumption DEF ClockAssumption, TicksAssumption
<1>1. TypeOK
  BY DEF Init, TypeOK, Times
<1>2. LockHeld /\ LatestApart /\ LockTells /\ InThePast /\ OnTime
  BY DEF Init, LockHeld, LatestApart, LockTells, InThePast, OnTime
<1>. QED BY <1>1, <1>2 DEF IInv

(* No step changes the registration, and with it the length of the lock.   *)
LEMMA SetupFixed ==
  ASSUME TypeOK, [Next]_vars
  PROVE  setup' = setup /\ setup' \in Setups /\ LockTtl' = LockTtl
<1>1. setup' = setup
  BY DEF Next, vars, Tick, Step, Start, CreateQueues, Drain, PopDue, TakeLock,
         SkipFiring, Fire, FireRefused, Leave
<1>. QED BY <1>1 DEF TypeOK, LockTtl, WholeSeconds

LEMMA TypeStep == TypeOK /\ [Next]_vars => TypeOK'
<1> SUFFICES ASSUME TypeOK, [Next]_vars PROVE TypeOK'
  OBVIOUS
<1> USE SetupsAssumption, ClockAssumption, TicksAssumption
    DEF ClockAssumption, TicksAssumption, Times
<1>0. setup' = setup /\ setup' \in Setups /\ LockTtl \in Nat /\ ComputeNext(now) \in Nat
  BY SetupFixed, LockTtlIsTime, NextIsNear DEF TypeOK
<1>1. CASE Tick
  BY <1>0, <1>1 DEF TypeOK, Tick, clocks
<1>2. ASSUME NEW i \in Instances, Start(i) PROVE TypeOK'
  BY <1>0, <1>2 DEF TypeOK, Start
<1>3. ASSUME NEW i \in Instances, CreateQueues(i) PROVE TypeOK'
  BY <1>0, <1>3 DEF TypeOK, CreateQueues, clocks
<1>4. ASSUME NEW i \in Instances, Drain(i) PROVE TypeOK'
  <2>1. queued[i] - 1 \in 0 .. QueueMax
    BY <1>4 DEF TypeOK, Drain
  <2>. QED BY <1>0, <1>4, <2>1 DEF TypeOK, Drain, clocks
<1>5. ASSUME NEW i \in Instances, PopDue(i) PROVE TypeOK'
  <2>1. CASE setup.shared
    BY <1>0, <1>5, <2>1 DEF TypeOK, PopDue
  <2>2. CASE ~setup.shared /\ ~Refused(i) /\ Dispatch(i)
    <3>1. queuesUp[i] => queued[i] + 1 \in 0 .. QueueMax
      BY <2>2 DEF TypeOK, Refused
    <3>2. queued' \in [Instances -> 0 .. QueueMax]
      BY <2>2, <3>1 DEF TypeOK, Dispatch
    <3>. QED BY <1>0, <1>5, <2>2, <3>2 DEF TypeOK, PopDue, Dispatch
  <2>3. CASE ~setup.shared /\ Die(i)
    BY <1>0, <1>5, <2>3 DEF TypeOK, PopDue, Die
  <2>. QED BY <1>5, <2>1, <2>2, <2>3 DEF PopDue
<1>6. ASSUME NEW i \in Instances, TakeLock(i) PROVE TypeOK'
  BY <1>0, <1>6 DEF TypeOK, TakeLock
<1>7. ASSUME NEW i \in Instances, SkipFiring(i) PROVE TypeOK'
  BY <1>0, <1>7 DEF TypeOK, SkipFiring, clocks
<1>8. ASSUME NEW i \in Instances, Fire(i) PROVE TypeOK'
  <2>1. queuesUp[i] => queued[i] + 1 \in 0 .. QueueMax
    BY <1>8 DEF TypeOK, Refused, Fire
  <2>2. queued' \in [Instances -> 0 .. QueueMax]
    BY <1>8, <2>1 DEF TypeOK, Fire, Dispatch
  <2>. QED BY <1>0, <1>8, <2>2 DEF TypeOK, Fire, Dispatch
<1>9. ASSUME NEW i \in Instances, FireRefused(i) PROVE TypeOK'
  BY <1>0, <1>9 DEF TypeOK, FireRefused, Die
<1>10. ASSUME NEW i \in Instances, Leave(i) PROVE TypeOK'
  BY <1>0, <1>10 DEF TypeOK, Leave
<1>11. CASE UNCHANGED vars
  BY <1>11 DEF TypeOK, vars
<1>. QED
  BY <1>1, <1>2, <1>3, <1>4, <1>5, <1>6, <1>7, <1>8, <1>9, <1>10, <1>11 DEF Next, Step

(* A lock that outlives the delay and can be taken is not the lock of      *)
(* somebody who fires.                                                     *)
LEMMA FreeLockNobodyFires ==
  ASSUME IInv, MaxLate < LockTtl, lockUntil <= now
  PROVE  \A i \in Instances : loop[i] # "firing"
<1> SUFFICES ASSUME NEW i \in Instances, loop[i] = "firing" PROVE FALSE
  OBVIOUS
<1>1. LockTtl \in Nat /\ MaxLate \in Nat
  BY SetupsAssumption, TicksAssumption, LockTtlIsTime
  DEF IInv, TypeOK, TicksAssumption
<1>2. now \in Nat /\ since[i] \in Nat
  BY ClockAssumption DEF IInv, TypeOK, Times, ClockAssumption
<1>3. lockUntil = since[i] + LockTtl /\ now <= since[i] + MaxLate
  BY DEF IInv, LockHeld
<1>. QED BY <1>1, <1>2, <1>3

(* The lock, its holder and the latest firing.                             *)
LEMMA LockStep == IInv /\ [Next]_vars => LockHeld' /\ LatestApart' /\ LockTells'
<1> SUFFICES ASSUME IInv, [Next]_vars PROVE LockHeld' /\ LatestApart' /\ LockTells'
  OBVIOUS
<1> USE SetupsAssumption, ClockAssumption, TicksAssumption
    DEF ClockAssumption, TicksAssumption, Times, LockHeld, LatestApart, LockTells
<1>0. /\ setup' = setup /\ LockTtl' = LockTtl /\ LockTtl \in Nat /\ MaxLate \in Nat
      /\ setup \in Setups /\ setup.shared \in BOOLEAN /\ now \in Nat /\ lockUntil \in Nat
      /\ NoTime \notin Nat
  BY SetupFixed, LockTtlIsTime DEF IInv, TypeOK, SetupsAssumption, Setup
<1>1. CASE Tick
  BY <1>0, <1>1 DEF IInv, TypeOK, Tick, Overdue, clocks
<1>2. ASSUME NEW i \in Instances, Start(i) \/ CreateQueues(i) \/ Drain(i)
      PROVE  LockHeld' /\ LatestApart' /\ LockTells'
  BY <1>0, <1>2 DEF IInv, TypeOK, Start, CreateQueues, Drain, clocks
<1>3. ASSUME NEW i \in Instances, PopDue(i) PROVE LockHeld' /\ LatestApart' /\ LockTells'
  <2>1. CASE setup.shared
    BY <1>0, <1>3, <2>1 DEF IInv, TypeOK, PopDue
  <2>2. CASE ~setup.shared
    BY <1>0, <1>3, <2>2 DEF IInv, TypeOK, PopDue, Dispatch, Die
  <2>. QED BY <2>1, <2>2
<1>4. ASSUME NEW i \in Instances, TakeLock(i) PROVE LockHeld' /\ LatestApart' /\ LockTells'
  <2>1. MaxLate < LockTtl => \A j \in Instances : loop[j] # "firing"
    BY <1>4, FreeLockNobodyFires DEF TakeLock
  <2>. QED BY <1>0, <1>4, <2>1 DEF IInv, TypeOK, TakeLock
<1>5. ASSUME NEW i \in Instances, SkipFiring(i) PROVE LockHeld' /\ LatestApart' /\ LockTells'
  BY <1>0, <1>5 DEF IInv, TypeOK, SkipFiring, clocks
<1>6. ASSUME NEW i \in Instances, Fire(i) PROVE LockHeld' /\ LatestApart' /\ LockTells'
  <2>1. MaxLate < LockTtl => \A j \in Instances : loop'[j] # "firing"
    BY <1>6 DEF IInv, TypeOK, Fire, Dispatch
  <2>2. latest'.at = now /\ (MaxLate < LockTtl => lockUntil = since[i] + LockTtl)
    BY <1>6 DEF IInv, Fire, Dispatch
  <2>3. /\ since[i] \in Nat /\ since[i] <= now /\ now <= since[i] + MaxLate
        /\ \A j \in Instances \ {i} : loop'[j] = loop[j] /\ since'[j] = since[j]
        /\ loop'[i] = "asleep"
        /\ UNCHANGED <<now, lockUntil, served>>
    BY <1>0, <1>6 DEF Fire, Dispatch, IInv, TypeOK
  <2>4. LockHeld'
    BY <1>0, <2>1, <2>3 DEF IInv
  <2>5. LatestApart'
    <3>1. latest'.at <= now
      BY <1>0, <2>2
    <3>2. ASSUME MaxLate < LockTtl PROVE latest'.at + LockTtl <= lockUntil' + MaxLate
      BY <1>0, <2>2, <2>3, <3>2
    <3>. QED BY <1>0, <2>1, <2>3, <3>1, <3>2
  <2>6. LockTells'
    BY <1>0, <2>3 DEF IInv
  <2>. QED BY <2>4, <2>5, <2>6
<1>7. ASSUME NEW i \in Instances, FireRefused(i) PROVE LockHeld' /\ LatestApart' /\ LockTells'
  BY <1>0, <1>7 DEF IInv, TypeOK, FireRefused, Die
<1>8. ASSUME NEW i \in Instances, Leave(i) PROVE LockHeld' /\ LatestApart' /\ LockTells'
  <2>1. CASE lockUntil' = lockUntil /\ served' = served
    BY <1>0, <1>8, <2>1 DEF IInv, TypeOK, Leave
  <2>2. CASE /\ loop[i] = "locking" /\ lockUntil <= now
             /\ lockUntil' = now + LockTtl /\ served' = now
    <3>1. MaxLate < LockTtl => \A j \in Instances : loop[j] # "firing"
      BY <2>2, FreeLockNobodyFires
    <3>. QED BY <1>0, <1>8, <2>2, <3>1 DEF IInv, TypeOK, Leave
  <2>. QED BY <1>8, <2>1, <2>2 DEF Leave
<1>9. CASE UNCHANGED vars
  BY <1>0, <1>9 DEF IInv, TypeOK, vars
<1>. QED
  BY <1>1, <1>2, <1>3, <1>4, <1>5, <1>6, <1>7, <1>8, <1>9 DEF Next, Step

(* Times that are remembered stay in the past.                             *)
LEMMA PastStep == IInv /\ [Next]_vars => InThePast'
<1> SUFFICES ASSUME IInv, [Next]_vars PROVE InThePast'
  OBVIOUS
<1> USE ClockAssumption, TicksAssumption DEF ClockAssumption, TicksAssumption, Times, InThePast, IInv, TypeOK
<1>1. CASE Tick
  BY <1>1 DEF Tick
<1>2. ASSUME NEW i \in Instances, Start(i) PROVE InThePast'
  BY <1>2 DEF Start
<1>3. ASSUME NEW i \in Instances, CreateQueues(i) \/ Drain(i) \/ SkipFiring(i)
      PROVE  InThePast'
  BY <1>3 DEF CreateQueues, Drain, SkipFiring
<1>4. ASSUME NEW i \in Instances, PopDue(i) PROVE InThePast'
  BY <1>4 DEF PopDue, Dispatch, Die
<1>5. ASSUME NEW i \in Instances, TakeLock(i) PROVE InThePast'
  BY <1>5 DEF TakeLock
<1>6. ASSUME NEW i \in Instances, Fire(i) \/ FireRefused(i) PROVE InThePast'
  BY <1>6 DEF Fire, FireRefused, Dispatch, Die
<1>7. ASSUME NEW i \in Instances, Leave(i) PROVE InThePast'
  BY <1>7 DEF Leave
<1>8. CASE UNCHANGED vars
  BY <1>8 DEF vars
<1>. QED
  BY <1>1, <1>2, <1>3, <1>4, <1>5, <1>6, <1>7, <1>8 DEF Next, Step

(* What a live loop may count on is a time at or after the latest decision *)
(* and only moves forward.                                                 *)
LEMMA CoveredIsTime ==
  ASSUME IInv, NEW i \in Instances, loop[i] # "down"
  PROVE  /\ CoveredSince(i) \in Nat
         /\ served # NoTime => served <= CoveredSince(i)
<1>1. /\ upSince[i] \in Nat /\ served \in Nat \cup {NoTime}
      /\ NoTime \notin Nat
  BY ClockAssumption, TicksAssumption
  DEF IInv, TypeOK, InThePast, Times, ClockAssumption, TicksAssumption
<1>. QED BY <1>1 DEF CoveredSince

LEMMA CoveredGrows ==
  ASSUME IInv, [Next]_vars, NEW i \in Instances, loop[i] # "down"
  PROVE  /\ CoveredSince(i) \in Nat
         /\ served # NoTime => served <= CoveredSince(i)
         /\ upSince'[i] = upSince[i] =>
              /\ CoveredSince(i)' \in Nat
              /\ CoveredSince(i) <= CoveredSince(i)'
              /\ served' # NoTime => served' <= CoveredSince(i)'
<1> USE ClockAssumption, TicksAssumption DEF ClockAssumption, TicksAssumption, Times
<1>1. /\ upSince[i] \in Nat /\ upSince[i] <= now /\ now \in Nat /\ NoTime \notin Nat
      /\ served \in Nat \cup {NoTime}
      /\ served # NoTime => served <= now
  BY DEF IInv, TypeOK, InThePast
<1>2. served' = served \/ served' = now
  BY DEF Next, vars, Tick, Step, Start, CreateQueues, Drain, PopDue, TakeLock,
         SkipFiring, Fire, FireRefused, Leave
<1>3. CoveredSince(i) \in Nat /\ (served # NoTime => served <= CoveredSince(i))
  BY CoveredIsTime
<1>4. ASSUME upSince'[i] = upSince[i]
      PROVE  /\ CoveredSince(i)' \in Nat
             /\ CoveredSince(i) <= CoveredSince(i)'
             /\ served' # NoTime => served' <= CoveredSince(i)'
  <2>1. CASE served' = served
    BY <1>1, <1>4, <2>1 DEF CoveredSince
  <2>2. CASE served' = now
    BY <1>1, <1>4, <2>2 DEF CoveredSince
  <2>. QED BY <1>2, <2>1, <2>2
<1>. QED BY <1>3, <1>4

(* What OnTime says of one instance, for the step of another one.          *)
OnTimeOf(i) ==
    /\ loop[i] = "asleep" =>
          /\ nextRun[i] <= CoveredSince(i) + LockTtl + setup.every
          /\ now <= CoveredSince(i) + LockTtl + setup.every + MaxLate
    /\ loop[i] = "locking" =>
          /\ since[i] <= now /\ now <= since[i] + MaxLate
          /\ since[i] <= CoveredSince(i) + LockTtl + setup.every + MaxLate
    /\ loop[i] = "firing" => since[i] <= CoveredSince(i)
    /\ loop[i] \in {"locking", "firing"} => nextRun[i] <= since[i] + setup.every

LEMMA OnTimeStep == IInv /\ [Next]_vars => OnTime'
<1> SUFFICES ASSUME IInv, [Next]_vars, NEW i \in Instances PROVE OnTimeOf(i)'
  BY DEF OnTime, OnTimeOf
<1> USE ClockAssumption, TicksAssumption DEF ClockAssumption, TicksAssumption, Times
<1>1. /\ setup' = setup /\ LockTtl' = LockTtl /\ LockTtl \in Nat
      /\ setup.every \in Nat \ {0} /\ setup.shared \in BOOLEAN
  BY SetupFixed, LockTtlIsTime, SetupsAssumption, TicksAssumption
  DEF IInv, TypeOK, SetupsAssumption, Setup
<1>2. /\ now \in Nat /\ nextRun[i] \in Nat /\ since[i] \in Nat /\ lockUntil \in Nat
      /\ ComputeNext(now) \in Nat /\ ComputeNext(now) <= now + setup.every
      /\ NoTime \notin Nat
  BY SetupsAssumption, NextIsNear DEF IInv, TypeOK
<1>3. OnTimeOf(i)
  BY DEF IInv, OnTime, OnTimeOf
<1>4. TypeOK' /\ LockTells' /\ InThePast'
  BY TypeStep, LockStep, PastStep DEF IInv
<1> DEFINE C == CoveredSince(i)
           K == CoveredSince(i)'
<1>5. loop[i] # "down" =>
        /\ C \in Nat
        /\ served # NoTime => served <= C
        /\ upSince'[i] = upSince[i] =>
              /\ K \in Nat
              /\ C <= K
              /\ served' # NoTime => served' <= K
  BY CoveredGrows
<1> HIDE DEF C, K
<1> SUFFICES
      /\ loop'[i] = "asleep" =>
            /\ nextRun'[i] <= K + LockTtl + setup.every
            /\ now' <= K + LockTtl + setup.every + MaxLate
      /\ loop'[i] = "locking" =>
            /\ since'[i] <= now' /\ now' <= since'[i] + MaxLate
            /\ since'[i] <= K + LockTtl + setup.every + MaxLate
      /\ loop'[i] = "firing" => since'[i] <= K
      /\ loop'[i] \in {"locking", "firing"} => nextRun'[i] <= since'[i] + setup.every
  BY <1>1 DEF OnTimeOf, K
<1>6. /\ loop[i] = "asleep" =>
            /\ nextRun[i] <= C + LockTtl + setup.every
            /\ now <= C + LockTtl + setup.every + MaxLate
      /\ loop[i] = "locking" =>
            /\ since[i] <= now /\ now <= since[i] + MaxLate
            /\ since[i] <= C + LockTtl + setup.every + MaxLate
      /\ loop[i] = "firing" => since[i] <= C
      /\ loop[i] \in {"locking", "firing"} => nextRun[i] <= since[i] + setup.every
  BY <1>3 DEF OnTimeOf, C
<1>7. CASE Tick
  BY <1>1, <1>2, <1>5, <1>6, <1>7 DEF Tick, Overdue, clocks
<1>8. CASE /\ now' = now /\ loop'[i] = loop[i] /\ upSince'[i] = upSince[i]
           /\ nextRun'[i] = nextRun[i] /\ since'[i] = since[i]
  BY <1>1, <1>2, <1>5, <1>6, <1>8
<1>9. CASE Start(i)
  <2>1. K \in Nat /\ now <= K
    BY <1>4, <1>9 DEF Start, K, CoveredSince, InThePast, IInv, TypeOK
  <2>. QED BY <1>1, <1>2, <1>9, <2>1 DEF Start, IInv, TypeOK
<1>10. CASE PopDue(i)
  BY <1>1, <1>2, <1>5, <1>6, <1>10 DEF PopDue, Dispatch, Die, IInv, TypeOK
<1>11. CASE TakeLock(i)
  BY <1>1, <1>2, <1>5, <1>6, <1>11 DEF TakeLock, IInv, TypeOK
<1>12. CASE SkipFiring(i)
  <2>1. now < C + LockTtl
    BY <1>1, <1>2, <1>5, <1>12 DEF SkipFiring, LockTells, IInv, TypeOK
  <2>. QED BY <1>1, <1>2, <1>5, <1>6, <1>12, <2>1 DEF SkipFiring, clocks, IInv, TypeOK
<1>13. CASE Fire(i)
  <2>1. now <= since[i] + MaxLate
    BY <1>13 DEF Fire, LockHeld, IInv
  <2>. QED BY <1>1, <1>2, <1>5, <1>6, <1>13, <2>1 DEF Fire, Dispatch, IInv, TypeOK
<1>14. CASE FireRefused(i) \/ Leave(i)
  BY <1>14 DEF FireRefused, Die, Leave, IInv, TypeOK
<1>15. CASE CreateQueues(i) \/ Drain(i) \/ UNCHANGED vars
  BY <1>8, <1>15 DEF CreateQueues, Drain, clocks, vars
<1>16. ASSUME NEW j \in Instances \ {i}, Step(j)
       PROVE  /\ now' = now /\ loop'[i] = loop[i] /\ upSince'[i] = upSince[i]
              /\ nextRun'[i] = nextRun[i] /\ since'[i] = since[i]
  <2>1. CASE Start(j) \/ CreateQueues(j) \/ Drain(j) \/ SkipFiring(j) \/ Leave(j)
    BY <1>16, <2>1 DEF Start, CreateQueues, Drain, SkipFiring, Leave, clocks, IInv, TypeOK
  <2>2. CASE PopDue(j)
    BY <1>16, <2>2 DEF PopDue, Dispatch, Die, IInv, TypeOK
  <2>3. CASE TakeLock(j) \/ Fire(j) \/ FireRefused(j)
    BY <1>16, <2>3 DEF TakeLock, Fire, FireRefused, Dispatch, Die, IInv, TypeOK
  <2>. QED BY <1>16, <2>1, <2>2, <2>3 DEF Step
<1>17. ASSUME Step(i)
       PROVE  \/ Start(i) \/ PopDue(i) \/ TakeLock(i) \/ SkipFiring(i) \/ Fire(i)
              \/ FireRefused(i) \/ Leave(i) \/ CreateQueues(i) \/ Drain(i)
  BY <1>17 DEF Step
<1>. QED
  BY <1>7, <1>8, <1>9, <1>10, <1>11, <1>12, <1>13, <1>14, <1>15, <1>16, <1>17 DEF Next

(* The inductive invariant holds of every reachable state.                 *)
LEMMA Invariance == Spec => []IInv
<1>1. IInv /\ [Next]_vars => IInv'
  BY TypeStep, LockStep, PastStep, OnTimeStep DEF IInv
<1>. QED BY InitIInv, <1>1, PTL DEF Spec

-----------------------------------------------------------------------------
(* Every reachable state of a schedule is well typed, for every number of  *)
(* instances, every registration and every horizon (periodic.py).          *)
THEOREM TypeCorrect == Spec => []TypeOK
<1>1. IInv => TypeOK
  BY DEF IInv
<1>. QED BY <1>1, Invariance, PTL

(* A live loop's schedule is served within the lock's lifetime, an         *)
(* interval and two delays, whatever the other instances do: start, skip,  *)
(* fire, stop or die (periodic.py:395-414).                                *)
THEOREM ServedAlways == Spec => []ScheduleIsServed
<1>1. ASSUME IInv, NEW i \in Instances, loop[i] \notin {"down", "dead"}
      PROVE  now <= CoveredSince(i) + LockTtl + setup.every + 2 * MaxLate
  <2>1. /\ CoveredSince(i) \in Nat /\ LockTtl \in Nat /\ setup.every \in Nat
        /\ MaxLate \in Nat /\ now \in Nat /\ since[i] \in Nat
    <3>1. CoveredSince(i) \in Nat
      BY <1>1, CoveredIsTime
    <3>2. LockTtl \in Nat
      BY <1>1, SetupsAssumption, TicksAssumption, LockTtlIsTime
      DEF IInv, TypeOK
    <3>. QED
      BY <1>1, <3>1, <3>2, SetupsAssumption, ClockAssumption, TicksAssumption
      DEF IInv, TypeOK, Times, SetupsAssumption, Setup, ClockAssumption, TicksAssumption
  <2>2. loop[i] \in {"asleep", "locking", "firing"}
    BY <1>1 DEF IInv, TypeOK
  <2>. QED BY <1>1, <2>1, <2>2 DEF IInv, OnTime, LockHeld
<1>2. IInv => ScheduleIsServed
  BY <1>1 DEF ScheduleIsServed
<1>. QED BY <1>2, Invariance, PTL

(* Two tasks of a schedule with a backend are never created less than a    *)
(* lifetime of the lock, less the delay of a firing, apart                 *)
(* (periodic.py:399-412).                                                  *)
LEMMA ApartStep ==
  IInv /\ [Next]_vars =>
    [setup.shared /\ latest # NoTime /\ latest' # latest
       => latest.at + LockTtl <= latest'.at + MaxLate]_vars
<1> SUFFICES ASSUME IInv, Next, setup.shared, latest # NoTime, latest' # latest
             PROVE  latest.at + LockTtl <= latest'.at + MaxLate
  OBVIOUS
<1>1. PICK i \in Instances : Fire(i)
  BY DEF Next, Tick, Step, Start, CreateQueues, Drain, PopDue, TakeLock,
         SkipFiring, FireRefused, Die, Leave
<1>2. /\ latest'.at = now /\ loop[i] = "firing" /\ since[i] <= now /\ latest.at <= now
      /\ MaxLate < LockTtl => latest.at + LockTtl <= since[i] + MaxLate
  BY <1>1 DEF Fire, Dispatch, IInv, LatestApart, LockHeld
<1>3. /\ now \in Nat /\ since[i] \in Nat /\ latest.at \in Nat /\ MaxLate \in Nat
      /\ LockTtl \in Nat
  BY SetupsAssumption, TicksAssumption, ClockAssumption, LockTtlIsTime
  DEF IInv, TypeOK, Times, TicksAssumption, ClockAssumption
<1>. QED BY <1>2, <1>3

(* The same of every two tasks that follow each other, however long the    *)
(* delay of a step is (periodic.py:399-412).                               *)
THEOREM FiringsApartAlways == Spec => FiringsApart
  BY Invariance, ApartStep, PTL DEF Spec, FiringsApart

-----------------------------------------------------------------------------
(* One-off schedules.                                                      *)

(* A cancel leaves no row until the next schedule_once().                  *)
CancelledHasNoRow == cancelled => row = Nothing

OnceInv == OnceTypeOK /\ NoExtraFiring /\ CancelledHasNoRow

(* Init establishes the invariant.                                         *)
LEMMA OnceInvInit == OnceInit => OnceInv
<1> SUFFICES ASSUME OnceInit PROVE OnceInv
  OBVIOUS
<1> USE ConstantsAssumption, ClockAssumption
    DEF ConstantsAssumption, ClockAssumption, Schedules, Nothing, Slot, Times
<1>1. Idle \in [Instances -> Slot] /\ fireAt \in [Schedules -> Times]
  BY DEF OnceInit, Idle
<1>2. pc \in [Instances -> {"sleeping", "refilling", "firing", "claiming", "dead"}]
  BY DEF OnceInit
<1>3. now \in Times /\ firings \in 0..MaxSchedules /\ faults \in 0..MaxFaults
  BY DEF OnceInit
<1>4. OnceTypeOK
  BY <1>1, <1>2, <1>3 DEF OnceInit, OnceTypeOK
<1>5. NoExtraFiring /\ CancelledHasNoRow
  BY DEF OnceInit, NoExtraFiring, CancelledHasNoRow
<1>. QED BY <1>4, <1>5 DEF OnceInv

(* Every step keeps it; only requests and claims touch the row or a count. *)
LEMMA OnceStep == OnceInv /\ [OnceNext]_onceVars => OnceInv'
<1> SUFFICES ASSUME OnceInv, [OnceNext]_onceVars PROVE OnceInv'
  OBVIOUS
<1> USE ConstantsAssumption, ClockAssumption
    DEF ConstantsAssumption, ClockAssumption, Schedules, Nothing, Slot, Times
<1> USE DEF OnceInv, OnceTypeOK, NoExtraFiring, CancelledHasNoRow
<1>1. CASE OnceTick
  BY <1>1 DEF OnceTick, requestVars, loopVars
<1>2. ASSUME NEW i \in Servers, Request(i) PROVE OnceInv'
  <2>1. ASSUME NEW at \in Times, SaveSchedule(i, at) PROVE OnceInv'
    <3>1. made + 1 \in Schedules
      BY <2>1 DEF SaveSchedule
    <3>2. fireAt' \in [Schedules -> Times] /\ arming' \in [Instances -> Slot]
      BY <2>1, <3>1 DEF SaveSchedule
    <3>3. OnceTypeOK'
      BY <2>1, <3>1, <3>2 DEF SaveSchedule, loopVars
    <3>4. NoExtraFiring' /\ CancelledHasNoRow'
      BY <2>1, <3>1 DEF SaveSchedule
    <3>. QED BY <3>3, <3>4
  <2>2. CASE DeleteSchedule(i)
    BY <2>2 DEF DeleteSchedule, loopVars
  <2>. QED BY <1>2, <2>1, <2>2 DEF Request
<1>3. ASSUME NEW i \in Instances, Answer(i) PROVE OnceInv'
  <2>1. CASE ArmSchedule(i)
    BY <2>1 DEF ArmSchedule
  <2>2. CASE Disarm(i)
    BY <2>2 DEF Disarm
  <2>. QED BY <1>3, <2>1, <2>2 DEF Answer
<1>4. ASSUME NEW i \in Instances, Loop(i) PROVE OnceInv'
  <2>1. CASE LoadDue(i)
    BY <2>1 DEF LoadDue, Goes, requestVars
  <2>2. CASE ArmDue(i)
    BY <2>2 DEF ArmDue, Goes, requestVars
  <2>3. CASE SkipRefill(i)
    BY <2>3 DEF SkipRefill, Goes, requestVars
  <2>4. CASE PopDueOnce(i)
    BY <2>4 DEF PopDueOnce, Goes, requestVars
  <2>5. CASE Sleep(i)
    BY <2>5 DEF Sleep, Goes, requestVars
  <2>6. CASE ClaimAndFire(i)
    BY <2>6 DEF ClaimAndFire, Goes, requestVars
  <2>7. CASE ClaimFails(i)
    BY <2>7 DEF ClaimFails, Goes, requestVars
  <2>8. CASE FireOnceRefused(i)
    BY <2>8 DEF FireOnceRefused, Goes, requestVars
  <2>. QED BY <1>4, <2>1, <2>2, <2>3, <2>4, <2>5, <2>6, <2>7, <2>8 DEF Loop
<1>5. ASSUME NEW i \in Instances, Crash(i) PROVE OnceInv'
  BY <1>5 DEF Crash
<1>6. CASE UNCHANGED onceVars
  BY <1>6 DEF onceVars, requestVars, loopVars
<1>. QED BY <1>1, <1>2, <1>3, <1>4, <1>5, <1>6 DEF OnceNext

(* The inductive invariant holds of every reachable state.                 *)
LEMMA OnceInvariance == OnceSpec => []OnceInv
  BY OnceInvInit, OnceStep, PTL DEF OnceSpec

(* Every reachable state of a key is well typed, for every number of       *)
(* instances and every bound (periodic.py, manager.py).                    *)
THEOREM OnceTypeCorrect == OnceSpec => []OnceTypeOK
<1>1. OnceInv => OnceTypeOK
  BY DEF OnceInv
<1>. QED BY <1>1, OnceInvariance, PTL

(* "Exactly one instance wins that claim": firings never outnumber the     *)
(* calls of schedule_once(), however many instances, crashes and refills.  *)
THEOREM NoExtraFiringHolds == OnceSpec => []NoExtraFiring
<1>1. OnceInv => NoExtraFiring
  BY DEF OnceInv
<1>. QED BY <1>1, OnceInvariance, PTL

(* cancel_scheduled() is final: while the key stays cancelled no step of   *)
(* any loop fires a task of it.                                            *)
LEMMA CancelledStep ==
  OnceInv /\ [OnceNext]_onceVars => [cancelled /\ cancelled' => firings' = firings]_onceVars
<1> SUFFICES ASSUME OnceInv, OnceNext, cancelled PROVE firings' = firings
  BY DEF onceVars, requestVars, loopVars
<1> USE DEF OnceInv, CancelledHasNoRow, Nothing
<1>1. CASE OnceTick
  BY <1>1 DEF OnceTick
<1>2. ASSUME NEW i \in Servers, Request(i) PROVE firings' = firings
  BY <1>2 DEF Request, SaveSchedule, DeleteSchedule
<1>3. ASSUME NEW i \in Instances, Answer(i) PROVE firings' = firings
  BY <1>3 DEF Answer, ArmSchedule, Disarm
<1>4. ASSUME NEW i \in Instances, Loop(i) PROVE firings' = firings
  <2>1. CASE ClaimAndFire(i) \/ FireOnceRefused(i)
    BY <2>1 DEF ClaimAndFire, FireOnceRefused
  <2>2. CASE ~ (ClaimAndFire(i) \/ FireOnceRefused(i))
    BY <1>4, <2>2 DEF Loop, LoadDue, ArmDue, SkipRefill, PopDueOnce, Sleep, ClaimFails
  <2>. QED BY <2>1, <2>2
<1>5. ASSUME NEW i \in Instances, Crash(i) PROVE firings' = firings
  BY <1>5 DEF Crash
<1>. QED BY <1>1, <1>2, <1>3, <1>4, <1>5 DEF OnceNext

(* A cancel holds in every behaviour, for every number of instances.       *)
THEOREM CancelHoldsAlways == OnceSpec => CancelHolds
  BY OnceInvariance, CancelledStep, PTL DEF OnceSpec, CancelHolds
================================================================================
