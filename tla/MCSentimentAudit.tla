-------------------------- MODULE MCSentimentAudit --------------------------
(***************************************************************************)
(* SentimentAudit for TLC.  Every window is due early, so that a run can   *)
(* come too late for it.  In half of the behaviours one process works      *)
(* alone, and its clock may be set back; in the others there are two, for  *)
(* one run and one instant less.                                           *)
(***************************************************************************)
EXTENDS SentimentAudit

VARIABLE active

EarlyDue == [w \in Window |-> 0]

Alone == \E p \in Process : active = {p}

MCInit == Init /\ active \in {{CHOOSE p \in Process : TRUE}, Process}

MCSpec ==
  /\ MCInit
  /\ [][/\ \/ \E p \in active : Opens(p) \/ Works(p) \/ Stops(p)
           \/ Tick
           \/ Alone /\ ClockBack
        /\ Alone \/ (now' < Horizon /\ Len(runs') < MaxRuns)
        /\ UNCHANGED active]_<<vars, active>>

\* The join of SentimentSourceStatus, for one process: a transition's log row
\* lies in the span of the run that made it and of no other, wherever runs
\* failed, were abandoned or were cut off, and however the clock was set.
AloneNamesItsRuns == Alone => TransitionNamesItsRun
=============================================================================
