---------------------------- MODULE MCScheduler ----------------------------
(***************************************************************************)
(* Scheduler for TLC: a grid of slots three instants apart.  In half of    *)
(* the behaviours the clock, the sleeper and the schedule never raise; of  *)
(* those the job's liveness is asked.                                      *)
(***************************************************************************)
EXTENDS Scheduler, FiniteSetsExt

VARIABLE sound

Slots == {t \in 1..Horizon : t % 3 = 0}

GridNextRun ==
  [t \in 0..Never |-> Min({Never} \cup {s \in Slots : s > t})]

MCInit == Init /\ sound \in BOOLEAN

MCSpec == /\ MCInit
          /\ [][/\ \/ TaskStep \/ Wake \/ Tick \/ Close
                   \/ ~sound /\ Raising
                /\ UNCHANGED sound]_<<vars, sound>>
          /\ Fairness

\* A wake is never lost, whatever the bodies before it did: a body begins
\* after it, the woken one or, when the cap refuses, the next slot's.
NoWakeLost ==
  sound => ((waiting # "none") ~> (waiting = "none" \/ at \in {"stopped", "closed"}))

\* A slot that comes round is covered by a scheduled body that begins at or
\* after it, whatever the bodies before it did; a task stops only when the
\* calendar names no further slot.
EverySlotIsCovered ==
  sound => \A t \in 1..Horizon :
             (now >= t /\ NextRun[t - 1] = t)
               ~> (slotRun >= t \/ at \in {"stopped", "closed"})
=============================================================================
