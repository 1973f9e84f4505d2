-------------------------- MODULE SchedulerProofs --------------------------
(***************************************************************************)
(* What Scheduler promises for every schedule, cap and bound.              *)
(***************************************************************************)
EXTENDS Scheduler, TLAPS

USE DEF history

\* The job sleeps towards a slot that no scheduled body has covered.
SlotInv ==
  /\ slotRun <= now
  /\ at \in {"sleeping", "woken"} /\ slotRun # LongAgo
       => NextRun[slotRun] <= due

\* What the cap counts from is when the last request was made.
CapInv == asked = lastWoken

IInv == TypeOK /\ SlotInv /\ CapInv /\ WakeRemembered

-----------------------------------------------------------------------------
(* The schedule.                                                           *)

\* The next slot is a slot, and lies ahead.
LEMMA SlotsLieAhead ==
  ASSUME NEW t \in 0..Never
  PROVE  /\ NextRun[t] \in 1..Never
         /\ t \in 0..Horizon => NextRun[t] > t
         /\ \A u \in 0..Never : t <= u => NextRun[t] <= NextRun[u]
  BY ScheduleAssumption DEF Never

\* The slot the job chooses lies after now, and is not before the first slot
\* after any instant that has passed.
LEMMA ChoiceLiesAhead ==
  ASSUME TypeOK
  PROVE  /\ Upcoming \in 1..Never
         /\ Upcoming > now
         /\ \A t \in 0..now : NextRun[t] <= Upcoming
<1> DEFINE after == IF due # Never /\ due > now THEN due ELSE now
<1>1. /\ now \in 0..Horizon /\ due \in 1..Never /\ Horizon \in Nat
      /\ Never = Horizon + 1
  BY ScheduleAssumption DEF TypeOK, Never
<1>2. Upcoming = NextRun[after]
  BY DEF Upcoming, Following
<1>3. after \in 0..Horizon /\ after >= now
  BY <1>1
<1> HIDE DEF after
<1>4. after \in 0..Never /\ \A t \in 0..now : t \in 0..Never /\ t <= after
  BY <1>1, <1>3
<1> QED BY <1>1, <1>2, <1>3, <1>4, SlotsLieAhead

-----------------------------------------------------------------------------
(* The inductive invariant.                                                *)

\* The part of the assumption that the types need.
LEMMA Bounds == Horizon \in Nat /\ Cap \in Nat \ {0}
  BY ScheduleAssumption

LEMMA InitIInv == Init => IInv
<1> SUFFICES ASSUME Init PROVE IInv
  OBVIOUS
<1>1. /\ 0 \in 0..Horizon /\ Never \in 1..Never
      /\ LongAgo \in Int /\ LongAgo <= 0
  BY Bounds DEF Never, LongAgo
<1>2. TypeOK
  BY <1>1 DEF Init, TypeOK, Place, Body
<1>3. SlotInv /\ CapInv /\ WakeRemembered
  BY <1>1 DEF Init, SlotInv, CapInv, WakeRemembered
<1> QED BY <1>2, <1>3 DEF IInv

\* Steps that leave the slots, the cap's instants and the wakes alone.
LEMMA QuietSteps ==
  ASSUME IInv,
         \/ Warm \/ ScheduleRaises \/ BackedOff \/ Tick \/ Close \/ Die
         \/ \E outcome \in Outcome : BodyEnds(outcome)
  PROVE  IInv'
<1> USE Bounds
        DEF IInv, TypeOK, SlotInv, CapInv, WakeRemembered, Place, Body, Never,
            LongAgo
<1>1. CASE Warm
  BY <1>1 DEF Warm
<1>2. CASE ScheduleRaises
  BY <1>2 DEF ScheduleRaises
<1>3. CASE BackedOff
  BY <1>3 DEF BackedOff
<1>4. CASE Tick
  BY <1>4 DEF Tick
<1>5. CASE Close
  BY <1>5 DEF Close
<1>6. CASE Die
  BY <1>6 DEF Die
<1>7. CASE \E outcome \in Outcome : BodyEnds(outcome)
  BY <1>7 DEF BodyEnds, AfterBody
<1> QED BY <1>1, <1>2, <1>3, <1>4, <1>5, <1>6, <1>7

\* The chosen slot lies after every scheduled body so far.
LEMMA ChooseStep ==
  ASSUME IInv, Choose
  PROVE  IInv'
<1> USE DEF IInv
<1>1. /\ Upcoming \in 1..Never /\ Upcoming > now
      /\ \A t \in 0..now : NextRun[t] <= Upcoming
  BY ChoiceLiesAhead
<1>2. /\ now \in 0..Horizon /\ Horizon \in Nat /\ Never = Horizon + 1
      /\ slotRun \in {LongAgo} \cup 0..Horizon
      /\ LongAgo \in Int /\ LongAgo < 0
      /\ slotRun <= now
  BY ScheduleAssumption DEF TypeOK, SlotInv, Never, LongAgo
<1>3. slotRun # LongAgo => slotRun \in 0..now
  BY <1>2
<1>4. /\ due' = Upcoming
      /\ at' \in {"stopped", "sleeping"}
      /\ at' = "sleeping" => Upcoming \in (slotRun + 1)..Horizon
      /\ UNCHANGED <<now, started, wake, lastWoken, waiting, slotRun, asked>>
  BY <1>1, <1>2 DEF Choose
<1>5. TypeOK'
  BY <1>1, <1>4 DEF TypeOK, Place, Body, LongAgo, Never
<1>6. SlotInv'
  BY <1>1, <1>2, <1>3, <1>4 DEF SlotInv, LongAgo
<1>7. CapInv' /\ WakeRemembered'
  BY <1>4 DEF CapInv, WakeRemembered
<1> QED BY <1>5, <1>6, <1>7

\* Steps that begin or end a body, or concern a wake.
LEMMA BodySteps ==
  ASSUME IInv,
         \/ RunSlot \/ RunWoken \/ RefuseWake \/ Wake
         \/ \E outcome \in Outcome : WokenEnds(outcome)
  PROVE  IInv'
<1> USE Bounds
        DEF IInv, TypeOK, SlotInv, CapInv, WakeRemembered, Place, Body, Never,
            LongAgo
<1>1. CASE RunSlot
  <2>1. TypeOK'
    BY <1>1 DEF RunSlot, Begin
  <2>2. SlotInv'
    BY <1>1 DEF RunSlot, Begin
  <2>3. CapInv' /\ WakeRemembered'
    BY <1>1 DEF RunSlot, Begin
  <2> QED BY <2>1, <2>2, <2>3
<1>2. CASE RunWoken
  BY <1>2 DEF RunWoken, Begin
<1>3. CASE RefuseWake
  BY <1>3 DEF RefuseWake
<1>4. CASE Wake
  BY <1>4 DEF Wake
<1>5. CASE \E outcome \in Outcome : WokenEnds(outcome)
  BY <1>5 DEF WokenEnds, Charged, WakeAfterBody
<1> QED BY <1>1, <1>2, <1>3, <1>4, <1>5

LEMMA NextIInv == IInv /\ [Next]_vars => IInv'
<1> SUFFICES ASSUME IInv, [Next]_vars PROVE IInv'
  OBVIOUS
<1>1. CASE Choose
  BY <1>1, ChooseStep
<1>2. CASE \/ Warm \/ ScheduleRaises \/ BackedOff \/ Tick \/ Close \/ Die
           \/ \E outcome \in Outcome : BodyEnds(outcome)
  BY <1>2, QuietSteps
<1>3. CASE \/ RunSlot \/ RunWoken \/ RefuseWake \/ Wake
           \/ \E outcome \in Outcome : WokenEnds(outcome)
  BY <1>3, BodySteps
<1>4. CASE UNCHANGED vars
  BY <1>4 DEF vars, IInv, TypeOK, SlotInv, CapInv, WakeRemembered
<1> QED BY <1>1, <1>2, <1>3, <1>4 DEF Next, TaskStep, Raising

LEMMA Invariance == Spec => []IInv
  BY InitIInv, NextIInv, PTL DEF Spec

-----------------------------------------------------------------------------
(* The properties.                                                         *)

\* Every variable keeps its type, and a sleeping job sleeps towards a slot
\* after its last scheduled body.
THEOREM TypeCorrect == Spec => []TypeOK
<1>1. IInv => TypeOK
  BY DEF IInv
<1> QED BY Invariance, <1>1, PTL

\* A wake that no body has answered and the cap has not refused is still set,
\* for Scheduler._run_woken clears the event before the body and not after.
THEOREM WakesAreRemembered == Spec => []WakeRemembered
<1>1. IInv => WakeRemembered
  BY DEF IInv
<1> QED BY Invariance, <1>1, PTL

\* Between the beginnings of two scheduled bodies the schedule has a slot:
\* Scheduler._following skips what a long body overran, and repeats nothing.
THEOREM SlotsDoNotBurst == Spec => OneRunPerSlot
<1>1. IInv /\ [Next]_vars
        => [RunSlot /\ slotRun # LongAgo => NextRun[slotRun] <= now]_vars
  <2> SUFFICES ASSUME IInv, RunSlot, slotRun # LongAgo
               PROVE  NextRun[slotRun] <= now
    OBVIOUS
  <2>1. /\ at = "sleeping" /\ due <= now
        /\ NextRun[slotRun] <= due
    BY DEF IInv, SlotInv, RunSlot
  <2>2. /\ slotRun \in 0..Never /\ now \in Int /\ due \in Int
    BY ScheduleAssumption DEF IInv, TypeOK, Never
  <2>3. NextRun[slotRun] \in Int
    BY <2>2, SlotsLieAhead
  <2> QED BY <2>1, <2>2, <2>3
<1> QED BY Invariance, <1>1, PTL DEF Spec, OneRunPerSlot

\* Two woken bodies that asked a vendor began WOKEN_RUN_MIN_INTERVAL apart,
\* whether the first of them succeeded or failed.
THEOREM TheCapHolds == Spec => WokenOncePerCap
<1>1. IInv /\ [Next]_vars
        => [RunWoken /\ asked # LongAgo => now - asked >= Cap]_vars
  BY ScheduleAssumption
     DEF IInv, TypeOK, CapInv, RunWoken, Capped, LongAgo
<1> QED BY Invariance, <1>1, PTL DEF Spec, WokenOncePerCap

=============================================================================
