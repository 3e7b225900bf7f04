----------------------------- MODULE TimerProofs -----------------------------
(***************************************************************************)
(* The timers' descriptors tick as the timers were asked to, and as long   *)
(* as slots leave alone what was reported the thread never blocks in read. *)
(***************************************************************************)
EXTENDS Timer, TLAPS

\* Only descriptors that tick have expirations.
ExpiredTick == \A t \in created : expired[t] => armed[t]

\* The timer whose slot runs is not destroyed, and is not poked again.
FiringLives == firing # None => firing \in created /\ firing \notin reported

AskedInv == TmTypeOK /\ ArmedAsAsked /\ ExpiredTick /\ FiringLives

\* What is still to be poked, or is about to be read, has an expiration.
ReportedExpired == \A t \in reported \cap created : expired[t]

ReadInv == AskedInv /\ ReportedExpired /\ NeverBlocksInRead

(***************************************************************************)
(* Initially there are no timers.                                          *)
(***************************************************************************)
LEMMA InitAsked == TmInit => AskedInv
BY TimersAssumption
DEF TmInit, AskedInv, TmTypeOK, ArmedAsAsked, ExpiredTick, FiringLives

(***************************************************************************)
(* Every step keeps the types, the agreement of descriptors with timers    *)
(* and the timer whose slot runs.                                          *)
(***************************************************************************)
LEMMA AskedStep == AskedInv /\ [TmNext]_tmVars => AskedInv'
<1> SUFFICES ASSUME AskedInv, [TmNext]_tmVars
             PROVE  AskedInv'
  OBVIOUS
<1> USE TimersAssumption
    DEF AskedInv, TmTypeOK, ArmedAsAsked, ExpiredTick, FiringLives
<1>1. ASSUME NEW t \in Timers, CreateTimer(t)
      PROVE  AskedInv'
  BY <1>1 DEF CreateTimer, Disarm, MayTouch, TmUserCode
<1>2. ASSUME NEW t \in Timers, DestroyTimer(t)
      PROVE  AskedInv'
  BY <1>2 DEF DestroyTimer, TmUserCode
<1>3. ASSUME NEW t \in Timers, Start(t)
      PROVE  AskedInv'
  BY <1>3 DEF Start, Arm
<1>4. ASSUME NEW t \in Timers, Stop(t)
      PROVE  AskedInv'
  BY <1>4 DEF Stop, Disarm
<1>5. ASSUME NEW t \in Timers, NEW us \in Intervals, SetInterval(t, us)
      PROVE  AskedInv'
  <2>1. CASE running[t]
    <3>1. /\ armed' = [armed EXCEPT ![t] = us # 0] /\ expired' = [expired EXCEPT ![t] = FALSE]
          /\ interval' = [interval EXCEPT ![t] = us]
          /\ UNCHANGED <<created, running, phase, reported, firing>>
      BY <1>5, <2>1 DEF SetInterval, Arm
    <3>2. TmTypeOK' /\ FiringLives'
      BY <3>1
    <3>3. ArmedAsAsked' /\ ExpiredTick'
      BY <2>1, <3>1
    <3> QED
      BY <3>2, <3>3
  <2>2. CASE ~running[t]
    BY <1>5, <2>2 DEF SetInterval
  <2> QED
    BY <2>1, <2>2
<1>6. ASSUME NEW t \in Timers, Expire(t)
      PROVE  AskedInv'
  BY <1>6 DEF Expire
<1>7. ASSUME NEW t \in Timers, Poke(t)
      PROVE  AskedInv'
  BY <1>7 DEF Poke
<1>8. ASSUME NEW batch \in SUBSET Timers, WaitForTimers(batch)
      PROVE  AskedInv'
  BY <1>8 DEF WaitForTimers
<1>9. CASE Read
  BY <1>9 DEF Read
<1>10. CASE SlotReturn
  BY <1>10 DEF SlotReturn
<1>11. CASE EndOfBatch
  BY <1>11 DEF EndOfBatch
<1>12. CASE UNCHANGED tmVars
  BY <1>12 DEF tmVars
<1> QED
  BY <1>1, <1>2, <1>3, <1>4, <1>5, <1>6, <1>7, <1>8, <1>9, <1>10, <1>11,
     <1>12 DEF TmNext, TmUserStep

(***************************************************************************)
(* The variables keep their types; a timer is named exactly while its      *)
(* notifier was poked.                                                     *)
(***************************************************************************)
THEOREM TimerTypeCorrect == TmSpec => []TmTypeOK
<1>1. AskedInv => TmTypeOK
  BY DEF AskedInv
<1> QED
  BY <1>1, InitAsked, AskedStep, PTL DEF TmSpec

(***************************************************************************)
(* A descriptor ticks exactly when its timer runs with an interval, after  *)
(* any sequence of starts, stops and new intervals.                        *)
(***************************************************************************)
THEOREM TicksAsAsked == TmSpec => []ArmedAsAsked
<1>1. AskedInv => ArmedAsAsked
  BY DEF AskedInv
<1> QED
  BY <1>1, InitAsked, AskedStep, PTL DEF TmSpec

(***************************************************************************)
(* Only a running timer emits timeout, whatever slots do to each other's   *)
(* timers: a read that returns has found an expiration.                    *)
(***************************************************************************)
THEOREM OnlyRunningTimersFire == TmSpec => OnlyRunningFire
<1>1. ASSUME AskedInv, [TmNext]_tmVars, phase = "read", phase' = "slot"
      PROVE  firing \in created /\ running[firing]
  <2> USE <1>1 DEF AskedInv, TmTypeOK, ArmedAsAsked, ExpiredTick, FiringLives
  <2>1. firing \in created
    OBVIOUS
  <2>2. Read
    BY DEF TmNext, tmVars, TmUserStep, CreateTimer, DestroyTimer, Start, Stop, SetInterval,
           Expire, WaitForTimers, Poke, SlotReturn, EndOfBatch
  <2> QED
    BY <2>1, <2>2 DEF Read
<1>2. AskedInv /\ [TmNext]_tmVars
        => [(phase = "read" /\ phase' = "slot")
              => firing \in created /\ running[firing]]_tmVars
  BY <1>1
<1> QED
  BY <1>2, InitAsked, AskedStep, PTL DEF TmSpec, OnlyRunningFire

(***************************************************************************)
(* A slot that leaves reported timers alone leaves them their expirations. *)
(***************************************************************************)
LEMMA ReadStep ==
    ASSUME ~SlotsTouchReported, ReadInv, [TmNext]_tmVars
    PROVE  ReportedExpired' /\ NeverBlocksInRead'
<1> USE DEF ReadInv, AskedInv, TmTypeOK, FiringLives, ReportedExpired,
            NeverBlocksInRead
<1>1. ASSUME NEW t \in Timers, TmUserStep(t)
      PROVE  ReportedExpired' /\ NeverBlocksInRead'
  <2>1. CASE DestroyTimer(t)
    BY <2>1 DEF DestroyTimer, TmUserCode
  <2>2. CASE CreateTimer(t) \/ Start(t) \/ Stop(t)
             \/ \E us \in Intervals : SetInterval(t, us)
    <3>1. /\ TmUserCode
          /\ t \notin reported
          /\ \A u \in Timers \ {t} : expired'[u] = expired[u]
          /\ created' \subseteq created \cup {t}
          /\ UNCHANGED <<reported, phase, firing>>
      BY <2>2 DEF CreateTimer, Start, Stop, SetInterval, MayTouch, Arm, Disarm
    <3> QED
      BY <3>1 DEF TmUserCode
  <2> QED
    BY <1>1, <2>1, <2>2 DEF TmUserStep
<1>2. ASSUME NEW t \in Timers, Expire(t)
      PROVE  ReportedExpired' /\ NeverBlocksInRead'
  BY <1>2 DEF Expire
<1>3. ASSUME NEW t \in Timers, Poke(t)
      PROVE  ReportedExpired' /\ NeverBlocksInRead'
  BY <1>3 DEF Poke
<1>4. ASSUME NEW batch \in SUBSET Timers, WaitForTimers(batch)
      PROVE  ReportedExpired' /\ NeverBlocksInRead'
  BY <1>4 DEF WaitForTimers
<1>5. CASE Read
  BY <1>5 DEF Read
<1>6. CASE SlotReturn
  BY <1>6 DEF SlotReturn
<1>7. CASE EndOfBatch
  BY <1>7 DEF EndOfBatch
<1>8. CASE UNCHANGED tmVars
  BY <1>8 DEF tmVars
<1> QED
  BY <1>1, <1>2, <1>3, <1>4, <1>5, <1>6, <1>7, <1>8 DEF TmNext

(***************************************************************************)
(* If no slot touches a timer that was reported but not yet poked, the     *)
(* loop's thread never blocks in the read of a timer.                      *)
(***************************************************************************)
THEOREM ReadsDoNotBlock ==
    ASSUME ~SlotsTouchReported
    PROVE  TmSpec => []NeverBlocksInRead
<1>1. TmInit => ReadInv
  BY InitAsked DEF TmInit, ReadInv, ReportedExpired, NeverBlocksInRead
<1>2. ReadInv /\ [TmNext]_tmVars => ReadInv'
  BY AskedStep, ReadStep DEF ReadInv
<1>3. ReadInv => NeverBlocksInRead
  BY DEF ReadInv
<1> QED
  BY <1>1, <1>2, <1>3, PTL DEF TmSpec
=============================================================================
