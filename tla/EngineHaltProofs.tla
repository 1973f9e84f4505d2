-------------------------- MODULE EngineHaltProofs --------------------------
(***************************************************************************)
(* What EngineHalt promises for every set of rules and requests and every  *)
(* bound on the repair.  The properties are not inductive: what they say   *)
(* of the row holds because of what a session in progress has read, and    *)
(* what they say of memory because of the branch the tick took.  IInv adds *)
(* both.                                                                   *)
(***************************************************************************)
EXTENDS EngineHalt, TLAPS

USE DEF memory, history, session, EndTick

\* The record and the announcement agree: an episode already told is either
\* owed its record and still in _announced, or in force in the row.
ToldInv ==
  /\ announced # NoRule => told
  /\ told /\ owed => announced # NoRule
  /\ told /\ ~owed => InForce(row)

\* What the tick's branch says about memory while its session is open.
BranchInv ==
  tick.at # "idle" =>
    /\ tick.decision \in Rule
    /\ tick.branch = "halt" => announced = NoRule /\ (told => tick.blind)
    /\ tick.branch = "retry" => announced # NoRule
    /\ tick.branch = "repair" => announced = NoRule /\ pending # NoRule

\* Until a resume commits, the row keeps what the session read of a halt.
SnapshotInv ==
  tick.at = "committing" /\ ~resumed =>
    /\ seen.halted => row.halted
    /\ seen.reason # NoReason => row.reason # NoReason

\* Between repairs there is always an attempt left.
AttemptsInv ==
  /\ pending # NoRule => attempts > 0
  /\ pending # NoRule /\ ~(tick.at # "idle" /\ tick.branch = "repair")
       => attempts < RepairMax

OwedInv == owed <=> (announced # NoRule \/ pending # NoRule)

IInv ==
  /\ TypeOK
  /\ LandedIsInForce
  /\ OwedInv
  /\ ToldInv
  /\ BranchInv
  /\ SnapshotInv
  /\ AttemptsInv

-----------------------------------------------------------------------------
(* The sessions.                                                           *)

\* The two columns after a halt's commit: a column the session read at the
\* value it wanted keeps whatever the row has now.
LEMMA MergedHalt ==
  ASSUME NEW now \in Row, NEW read \in Row, NEW why \in Reason \ {NoReason}
  PROVE  /\ Merge(now, read, HaltRow(why)) \in Row
         /\ Merge(now, read, HaltRow(why)).halted
              <=> (read.halted => now.halted)
         /\ Merge(now, read, HaltRow(why)).reason
              = IF read.reason = why THEN now.reason ELSE why
<1> USE DEF Row
<1>1. /\ DOMAIN now = {"halted", "reason"}
      /\ now.halted \in BOOLEAN /\ read.halted \in BOOLEAN
  OBVIOUS
<1>2. Merge(now, read, HaltRow(why))
        = [column \in {"halted", "reason"} |->
             IF HaltRow(why)[column] = read[column]
             THEN now[column] ELSE HaltRow(why)[column]]
  BY <1>1 DEF Merge
<1>3. /\ Merge(now, read, HaltRow(why)).halted
           = IF TRUE = read.halted THEN now.halted ELSE TRUE
      /\ Merge(now, read, HaltRow(why)).reason
           = IF read.reason = why THEN now.reason ELSE why
  BY <1>2 DEF HaltRow
<1>4. Merge(now, read, HaltRow(why)) \in Row
  BY <1>2, <1>3
<1> QED BY <1>1, <1>3, <1>4

\* A halt's commit never takes an explained halt out of the row, and puts one
\* there when nothing resumed since the session read it.
LEMMA HaltCommitKeepsForce ==
  ASSUME NEW now \in Row, NEW read \in Row, NEW why \in Reason \ {NoReason},
         \/ InForce(now)
         \/ /\ read.halted => now.halted
            /\ read.reason # NoReason => now.reason # NoReason
  PROVE  InForce(Merge(now, read, HaltRow(why)))
  BY MergedHalt DEF InForce, Row

\* Column by column: a halt's commit clears neither halted nor the reason.
LEMMA HaltCommitKeepsColumns ==
  ASSUME NEW now \in Row, NEW read \in Row, NEW why \in Reason \ {NoReason}
  PROVE  /\ now.halted => Merge(now, read, HaltRow(why)).halted
         /\ now.reason # NoReason
              => Merge(now, read, HaltRow(why)).reason # NoReason
  BY MergedHalt DEF Row

\* A resume's commit leaves a row of the table's shape.
LEMMA MergedResume ==
  ASSUME NEW now \in Row, NEW read \in Row
  PROVE  Merge(now, read, [halted |-> FALSE, reason |-> NoReason]) \in Row
  BY DEF Merge, Row, Reason

-----------------------------------------------------------------------------
(* The inductive invariant.                                                *)

\* The idle tick, the idle request and the cold row are of their types.
LEMMA Idle ==
  /\ NoTick \in Tick /\ NoTick.at = "idle"
  /\ NoRequest \in Asked /\ ColdRow \in Row
  /\ NoRule \in Decision /\ Rule \subseteq Decision
  BY DEF NoTick, NoRequest, ColdRow, Tick, Asked, Row, Place, Branch, Decision,
         Reason

\* A tick that goes on to _persist is of its type.
LEMMA PersistingType ==
  ASSUME NEW branch \in Branch, NEW decision \in Decision
  PROVE  /\ Persisting(branch, decision) \in Tick
         /\ Persisting(branch, decision).at = "opening"
         /\ Persisting(branch, decision).branch = branch
         /\ Persisting(branch, decision).decision = decision
         /\ Persisting(branch, decision).blind = ~Readable
  BY DEF Persisting, Tick, Place, Readable

\* The inductive invariant holds in the initial state.
LEMMA InitIInv == Init => IInv
<1> SUFFICES ASSUME Init PROVE IInv
  OBVIOUS
<1>1. TypeOK
  <2>1. attempts \in 0..RepairMax
    BY RepairMaxAssumption DEF Init
  <2> QED BY <2>1, Idle DEF Init, TypeOK
<1>2. LandedIsInForce /\ OwedInv /\ ToldInv /\ BranchInv /\ SnapshotInv
        /\ AttemptsInv
  BY Idle DEF Init, LandedIsInForce, OwedInv, ToldInv, BranchInv, SnapshotInv,
         AttemptsInv
<1> QED BY <1>1, <1>2 DEF IInv

\* The steps of a tick before it opens a session that writes.
LEMMA TickIInv ==
  ASSUME IInv, TickHealthy \/ TickRepair \/ TickSuppressed \/ TickFault
  PROVE  IInv'
<1> USE RuleAssumption, RepairMaxAssumption, Idle DEF IInv
<1>1. CASE TickHealthy
  <2>1. TypeOK'
    BY <1>1 DEF TickHealthy, ToRepair, TypeOK
  <2>2. LandedIsInForce' /\ OwedInv' /\ ToldInv'
    BY <1>1 DEF TickHealthy, ToRepair, LandedIsInForce, OwedInv, ToldInv
  <2>3. BranchInv' /\ SnapshotInv' /\ AttemptsInv'
    BY <1>1 DEF TickHealthy, ToRepair, BranchInv, SnapshotInv, AttemptsInv
  <2> QED BY <2>1, <2>2, <2>3
<1>2. CASE TickRepair
  <2>1. CASE HaltIsRecorded
    <3>0. NextAttempt - 1 \in 0..RepairMax
      BY DEF NextAttempt, TypeOK
    <3>1. TypeOK'
      BY <1>2, <2>1, <3>0 DEF TickRepair, TypeOK
    <3>2. LandedIsInForce' /\ OwedInv' /\ ToldInv'
      BY <1>2, <2>1 DEF TickRepair, LandedIsInForce, OwedInv, ToldInv
    <3>3. BranchInv' /\ SnapshotInv' /\ AttemptsInv'
      BY <1>2, <2>1 DEF TickRepair, BranchInv, SnapshotInv, AttemptsInv
    <3> QED BY <3>1, <3>2, <3>3
  <2>2. CASE ~HaltIsRecorded
    <3>1. ToRepair \in Rule /\ NextAttempt \in 1..RepairMax
      BY <1>2
      DEF TickRepair, ToRepair, NextAttempt, TypeOK, AttemptsInv, Decision
    <3>2. tick' = Persisting("repair", ToRepair)
      BY <1>2, <2>2 DEF TickRepair
    <3>3. TypeOK'
      <4>1. ToRepair \in Decision /\ NextAttempt \in 0..RepairMax
        BY <3>1
      <4>2. tick' \in Tick
        BY <3>2, <4>1, PersistingType DEF Branch
      <4> QED BY <1>2, <2>2, <4>1, <4>2 DEF TickRepair, TypeOK
    <3>4. OwedInv' /\ ToldInv' /\ LandedIsInForce'
      BY <1>2, <2>2, <3>1
      DEF TickRepair, ToRepair, OwedInv, ToldInv, LandedIsInForce
    <3>5. BranchInv' /\ SnapshotInv' /\ AttemptsInv'
      BY <1>2, <2>2, <3>1, <3>2, PersistingType
      DEF TickRepair, BranchInv, SnapshotInv, AttemptsInv, Branch
    <3> QED BY <3>3, <3>4, <3>5
  <2> QED BY <2>1, <2>2
<1>3. CASE TickSuppressed
  <2>1. TypeOK'
    BY <1>3 DEF TickSuppressed, HaltIsRecorded, TypeOK
  <2>2. LandedIsInForce' /\ OwedInv' /\ ToldInv'
    BY <1>3
    DEF TickSuppressed, HaltIsRecorded, LandedIsInForce, OwedInv, ToldInv
  <2>3. BranchInv' /\ SnapshotInv' /\ AttemptsInv'
    BY <1>3
    DEF TickSuppressed, HaltIsRecorded, BranchInv, SnapshotInv, AttemptsInv
  <2> QED BY <2>1, <2>2, <2>3
<1>4. CASE TickFault
  <2>1. FaultBranch \in {"halt", "retry"}
    BY DEF FaultBranch
  <2>2. tick' = Persisting(FaultBranch, fault)
    BY <1>4 DEF TickFault
  <2>3. TypeOK'
    BY <1>4, <2>1, <2>2, PersistingType DEF TickFault, TypeOK, Branch
  <2>4. LandedIsInForce' /\ OwedInv' /\ ToldInv' /\ AttemptsInv' /\ SnapshotInv'
    BY <1>4, <2>1, <2>2, PersistingType
    DEF TickFault, LandedIsInForce, OwedInv, ToldInv, AttemptsInv,
        SnapshotInv, Branch, TypeOK
  <2>5. BranchInv'
    <3>1. announced = NoRule /\ told => ~Readable
      BY <1>4 DEF TickFault, HaltIsRecorded, ToldInv, OwedInv
    <3> QED
      BY <1>4, <2>1, <2>2, <3>1, PersistingType
      DEF TickFault, BranchInv, FaultBranch, TypeOK, Branch, Decision
  <2> QED BY <2>3, <2>4, <2>5
<1> QED BY <1>1, <1>2, <1>3, <1>4

\* _persist and what its callers make of its answer.
LEMMA PersistIInv ==
  ASSUME IInv,
         PersistRead \/ PersistCommit \/ HaltRefused \/ RetryRefused
           \/ RepairRefused
  PROVE  IInv'
<1> USE RuleAssumption, RepairMaxAssumption, Idle DEF IInv
<1>1. CASE PersistRead
  <2>1. TypeOK'
    BY <1>1 DEF PersistRead, Tick, Place, TypeOK
  <2>2. LandedIsInForce' /\ OwedInv' /\ ToldInv'
    BY <1>1 DEF PersistRead, Tick, Place, LandedIsInForce, OwedInv, ToldInv
  <2>3. BranchInv' /\ SnapshotInv' /\ AttemptsInv'
    BY <1>1 DEF PersistRead, Tick, Place, BranchInv, SnapshotInv, AttemptsInv
  <2> QED BY <2>1, <2>2, <2>3
<1>2. CASE PersistCommit
  <2>1. /\ row \in Row /\ seen \in Row
        /\ tick.decision \in Reason \ {NoReason}
    BY <1>2 DEF PersistCommit, TypeOK, BranchInv, Reason
  <2>2. row' = Merge(row, seen, HaltRow(tick.decision))
    BY <1>2 DEF PersistCommit
  <2>3. row' \in Row
    BY <2>1, <2>2, MergedHalt
  <2>4. ~resumed => InForce(row')
    BY <1>2, <2>1, <2>2, HaltCommitKeepsForce DEF PersistCommit, SnapshotInv
  <2>5. TypeOK'
    <3>1. AlertOf[tick.branch] \in {"none", "halted", "recorded_late"}
      BY DEF TypeOK, Tick, Branch, AlertOf
    <3> QED BY <1>2, <2>3, <3>1 DEF PersistCommit, TypeOK
  <2>6. LandedIsInForce' /\ ToldInv' /\ OwedInv'
    BY <1>2, <2>4 DEF PersistCommit, LandedIsInForce, ToldInv, OwedInv
  <2>7. BranchInv' /\ SnapshotInv' /\ AttemptsInv'
    BY <1>2 DEF PersistCommit, BranchInv, SnapshotInv, AttemptsInv
  <2> QED BY <2>5, <2>6, <2>7
<1>3. CASE HaltRefused
  <2>1. TypeOK'
    BY <1>3 DEF HaltRefused, Refused, BranchInv, TypeOK
  <2>2. LandedIsInForce' /\ OwedInv' /\ ToldInv'
    BY <1>3
    DEF HaltRefused, Refused, BranchInv, LandedIsInForce, OwedInv, ToldInv
  <2>3. BranchInv' /\ SnapshotInv' /\ AttemptsInv'
    BY <1>3 DEF HaltRefused, Refused, BranchInv, SnapshotInv, AttemptsInv
  <2> QED BY <2>1, <2>2, <2>3
<1>4. CASE RetryRefused
  <2>1. TypeOK'
    BY <1>4 DEF RetryRefused, Refused, TypeOK
  <2>2. LandedIsInForce' /\ OwedInv' /\ ToldInv'
    BY <1>4 DEF RetryRefused, Refused, LandedIsInForce, OwedInv, ToldInv
  <2>3. BranchInv' /\ SnapshotInv' /\ AttemptsInv'
    BY <1>4 DEF RetryRefused, Refused, BranchInv, SnapshotInv, AttemptsInv
  <2> QED BY <2>1, <2>2, <2>3
<1>5. CASE RepairRefused
  <2>1. TypeOK'
    BY <1>5 DEF RepairRefused, Refused, Abandoned, TypeOK
  <2>2. LandedIsInForce' /\ OwedInv' /\ ToldInv'
    BY <1>5
    DEF RepairRefused, Refused, Abandoned, BranchInv, LandedIsInForce,
        OwedInv, ToldInv
  <2>3. BranchInv' /\ SnapshotInv' /\ AttemptsInv'
    BY <1>5
    DEF RepairRefused, Refused, Abandoned, BranchInv, SnapshotInv,
        AttemptsInv, TypeOK
  <2> QED BY <2>1, <2>2, <2>3
<1> QED BY <1>1, <1>2, <1>3, <1>4, <1>5

\* The operator's requests.
LEMMA RequestIInv ==
  ASSUME IInv, NEW r \in Request,
         \/ RequestRead(r, "halt") \/ RequestRead(r, "resume")
         \/ HaltCommit(r) \/ ResumeCommit(r) \/ RequestRefused(r)
  PROVE  IInv'
<1> USE RuleAssumption, RepairMaxAssumption, Idle DEF IInv
<1>1. CASE RequestRead(r, "halt") \/ RequestRead(r, "resume")
  <2>1. TypeOK'
    BY <1>1 DEF RequestRead, Asked, TypeOK
  <2>2. LandedIsInForce' /\ OwedInv' /\ ToldInv'
    BY <1>1 DEF RequestRead, LandedIsInForce, OwedInv, ToldInv
  <2>3. BranchInv' /\ SnapshotInv' /\ AttemptsInv'
    BY <1>1 DEF RequestRead, BranchInv, SnapshotInv, AttemptsInv
  <2> QED BY <2>1, <2>2, <2>3
<1>2. CASE HaltCommit(r)
  <2>0. OperatorReason \in Reason \ {NoReason}
    BY DEF Reason
  <2>1. row \in Row /\ request[r].seen \in Row
    BY DEF TypeOK, Asked
  <2>2. row' = Merge(row, request[r].seen, HaltRow(OperatorReason))
    BY <1>2 DEF HaltCommit
  <2>3. row' \in Row /\ (InForce(row) => InForce(row'))
    BY <2>1, <2>2, <2>0, MergedHalt, HaltCommitKeepsForce
  <2>4. /\ row.halted => row'.halted
        /\ row.reason # NoReason => row'.reason # NoReason
    BY <2>1, <2>2, <2>0, HaltCommitKeepsColumns
  <2>5. TypeOK'
    BY <1>2, <2>3 DEF HaltCommit, TypeOK
  <2>6. LandedIsInForce' /\ ToldInv' /\ OwedInv' /\ SnapshotInv'
    BY <1>2, <2>3, <2>4
    DEF HaltCommit, LandedIsInForce, ToldInv, OwedInv,
        SnapshotInv
  <2>7. BranchInv' /\ AttemptsInv'
    BY <1>2 DEF HaltCommit, BranchInv, AttemptsInv
  <2> QED BY <2>5, <2>6, <2>7
<1>3. CASE ResumeCommit(r)
  <2>1. row \in Row /\ request[r].seen \in Row
    BY DEF TypeOK, Asked
  <2>2. row' \in Row
    BY <1>3, <2>1, MergedResume DEF ResumeCommit
  <2>3. TypeOK'
    BY <1>3, <2>2 DEF ResumeCommit, TypeOK
  <2>4. LandedIsInForce' /\ OwedInv' /\ ToldInv'
    BY <1>3 DEF ResumeCommit, LandedIsInForce, OwedInv, ToldInv, TypeOK
  <2>5. BranchInv' /\ SnapshotInv' /\ AttemptsInv'
    BY <1>3 DEF ResumeCommit, BranchInv, SnapshotInv, AttemptsInv, TypeOK
  <2> QED BY <2>3, <2>4, <2>5
<1>4. CASE RequestRefused(r)
  <2>1. TypeOK'
    BY <1>4 DEF RequestRefused, TypeOK
  <2>2. LandedIsInForce' /\ OwedInv' /\ ToldInv'
    BY <1>4 DEF RequestRefused, LandedIsInForce, OwedInv, ToldInv
  <2>3. BranchInv' /\ SnapshotInv' /\ AttemptsInv'
    BY <1>4 DEF RequestRefused, BranchInv, SnapshotInv, AttemptsInv
  <2> QED BY <2>1, <2>2, <2>3
<1> QED BY <1>1, <1>2, <1>3, <1>4

\* Faults and the database come and go, and the process restarts.
LEMMA WorldIInv ==
  ASSUME IInv, FaultChanges \/ DatabaseChanges \/ Restart
  PROVE  IInv'
<1> USE RuleAssumption, RepairMaxAssumption, Idle DEF IInv
<1>1. CASE FaultChanges
  <2>1. TypeOK'
    BY <1>1 DEF FaultChanges, TypeOK
  <2>2. LandedIsInForce' /\ OwedInv' /\ ToldInv'
    BY <1>1 DEF FaultChanges, LandedIsInForce, OwedInv, ToldInv
  <2>3. BranchInv' /\ SnapshotInv' /\ AttemptsInv'
    BY <1>1 DEF FaultChanges, BranchInv, SnapshotInv, AttemptsInv
  <2> QED BY <2>1, <2>2, <2>3
<1>2. CASE DatabaseChanges
  <2>1. TypeOK'
    BY <1>2 DEF DatabaseChanges, TypeOK
  <2>2. LandedIsInForce' /\ OwedInv' /\ ToldInv'
    BY <1>2 DEF DatabaseChanges, LandedIsInForce, OwedInv, ToldInv
  <2>3. BranchInv' /\ SnapshotInv' /\ AttemptsInv'
    BY <1>2 DEF DatabaseChanges, BranchInv, SnapshotInv, AttemptsInv
  <2> QED BY <2>1, <2>2, <2>3
<1>3. CASE Restart
  <2>1. TypeOK'
    <3>1. 0 \in 0..RepairMax
      OBVIOUS
    <3> QED BY <1>3, <3>1 DEF Restart, StartedRow, TypeOK
  <2>2. LandedIsInForce' /\ OwedInv' /\ ToldInv'
    BY <1>3 DEF Restart, StartedRow, LandedIsInForce, OwedInv, ToldInv
  <2>3. BranchInv' /\ SnapshotInv' /\ AttemptsInv'
    BY <1>3 DEF Restart, StartedRow, BranchInv, SnapshotInv, AttemptsInv
  <2> QED BY <2>1, <2>2, <2>3
<1> QED BY <1>1, <1>2, <1>3

\* Every step preserves the inductive invariant.
LEMMA NextIInv == IInv /\ [Next]_vars => IInv'
<1> SUFFICES ASSUME IInv, [Next]_vars PROVE IInv'
  OBVIOUS
<1>1. CASE TickStep
  BY <1>1, TickIInv, PersistIInv DEF TickStep
<1>2. CASE \E r \in Request :
             \/ RequestRead(r, "halt") \/ RequestRead(r, "resume")
             \/ HaltCommit(r) \/ ResumeCommit(r) \/ RequestRefused(r)
  BY <1>2, RequestIInv
<1>3. CASE FaultChanges \/ DatabaseChanges \/ Restart
  BY <1>3, WorldIInv
<1>4. CASE UNCHANGED vars
  BY <1>4 DEF vars, IInv, TypeOK, LandedIsInForce, OwedInv,
              ToldInv, BranchInv, SnapshotInv, AttemptsInv, InForce
<1> QED BY <1>1, <1>2, <1>3, <1>4 DEF Next

-----------------------------------------------------------------------------
(* What the halt gate promises.                                            *)

\* Every reachable state satisfies the inductive invariant.
THEOREM Inductive == Spec => []IInv
  BY InitIInv, NextIInv, PTL DEF Spec

\* The state of the gate, the row and the requests keeps its shape; the
\* repair's attempts never pass REPAIR_MAX_ATTEMPTS.
THEOREM TypeCorrect == Spec => []TypeOK
<1>1. IInv => TypeOK
  BY DEF IInv
<1> QED BY <1>1, Inductive, PTL

\* A halt the watchdog wrote stays in force until a resume commits.
THEOREM LandedHaltsStay == Spec => []LandedIsInForce
<1>1. IInv => LandedIsInForce
  BY DEF IInv
<1> QED BY <1>1, Inductive, PTL

\* A halt that was announced and not recorded is still in memory.
THEOREM NoHaltForgotten == Spec => []NothingForgotten
<1>1. IInv => NothingForgotten
  BY DEF IInv, OwedInv, NothingForgotten
<1> QED BY <1>1, Inductive, PTL

\* One announcement per fault episode, and one more per database outage.
THEOREM OneAnnouncement == Spec => AnnouncedOnce
<1>1. ASSUME IInv, Next, alert' = "halted"
      PROVE  ~told \/ (tick.blind /\ ~owed)
  <2>1. /\ tick.at # "idle" /\ tick.branch = "halt"
    <3>1. CASE PersistCommit
      BY <1>1, <3>1 DEF PersistCommit, AlertOf, IInv, TypeOK, Tick, Branch
    <3>2. CASE HaltRefused
      BY <3>2 DEF HaltRefused, Refused
    <3>3. CASE TickHealthy \/ TickRepair \/ TickSuppressed \/ TickFault
      BY <1>1, <3>3 DEF TickHealthy, TickRepair, TickSuppressed, TickFault
    <3>4. CASE PersistRead \/ RetryRefused \/ RepairRefused
      BY <1>1, <3>4 DEF PersistRead, RetryRefused, RepairRefused
    <3>5. CASE \E r \in Request :
                 \/ RequestRead(r, "halt") \/ RequestRead(r, "resume")
                 \/ HaltCommit(r) \/ ResumeCommit(r) \/ RequestRefused(r)
      BY <1>1, <3>5
      DEF RequestRead, HaltCommit, ResumeCommit, RequestRefused
    <3>6. CASE FaultChanges \/ DatabaseChanges \/ Restart
      BY <1>1, <3>6 DEF FaultChanges, DatabaseChanges, Restart
    <3> QED BY <1>1, <3>1, <3>2, <3>3, <3>4, <3>5, <3>6 DEF Next, TickStep
  <2>2. announced = NoRule /\ (told => tick.blind)
    BY <1>1, <2>1 DEF IInv, BranchInv
  <2>3. told => ~owed
    BY <1>1, <2>2 DEF IInv, ToldInv
  <2> QED BY <2>2, <2>3
<1>2. IInv /\ [Next]_vars
        => [alert' = "halted" => ~told \/ (tick.blind /\ ~owed)]_vars
  BY <1>1
<1> QED BY <1>2, Inductive, PTL DEF Spec, AnnouncedOnce

\* Rule 9: only a resume's commit takes an explained halt out of the row.
THEOREM OnlyResumesEndHalts == Spec => OnlyAResumeEndsAHalt
<1>1. ASSUME IInv, Next, InForce(row), ~InForce(row')
      PROVE  \E r \in Request : ResumeCommit(r)
  <2> SUFFICES ASSUME ~\E r \in Request : ResumeCommit(r) PROVE FALSE
    OBVIOUS
  <2>1. CASE TickStep /\ ~PersistCommit
    <3>1. row' = row
      BY <2>1
      DEF TickStep, TickHealthy, TickRepair, TickSuppressed, TickFault,
          PersistRead, HaltRefused, RetryRefused, RepairRefused
    <3> QED BY <1>1, <3>1
  <2>2. CASE PersistCommit
    <3>1. row \in Row /\ seen \in Row /\ tick.decision \in Reason \ {NoReason}
      BY <1>1, <2>2, RuleAssumption
      DEF PersistCommit, IInv, TypeOK, BranchInv, Reason
    <3> QED BY <1>1, <2>2, <3>1, HaltCommitKeepsForce DEF PersistCommit
  <2>3. ASSUME NEW r \in Request, HaltCommit(r) PROVE FALSE
    <3>1. /\ row \in Row /\ request[r].seen \in Row
          /\ OperatorReason \in Reason \ {NoReason}
      BY <1>1, RuleAssumption DEF IInv, TypeOK, Asked, Reason
    <3> QED BY <1>1, <2>3, <3>1, HaltCommitKeepsForce DEF HaltCommit
  <2>4. ASSUME NEW r \in Request,
               \/ RequestRead(r, "halt") \/ RequestRead(r, "resume")
               \/ RequestRefused(r)
        PROVE  FALSE
    <3>1. row' = row
      BY <2>4 DEF RequestRead, RequestRefused
    <3> QED BY <1>1, <3>1
  <2>5. CASE FaultChanges \/ DatabaseChanges \/ Restart
    <3>1. row' = row
      BY <2>5 DEF FaultChanges, DatabaseChanges, Restart, StartedRow
    <3> QED BY <1>1, <3>1
  <2> QED BY <1>1, <2>1, <2>2, <2>3, <2>4, <2>5 DEF Next
<1>2. IInv /\ [Next]_vars
        => [InForce(row) /\ ~InForce(row')
              => \E r \in Request : ResumeCommit(r)]_vars
  BY <1>1
<1> QED BY <1>2, Inductive, PTL DEF Spec, OnlyAResumeEndsAHalt

\* The record of an announced halt stops being owed only on the record.
THEOREM OwedEndsOnTheRecord == Spec => OwedOnlyEndsOnTheRecord
<1>1. ASSUME IInv, Next, owed, ~owed'
      PROVE  \/ InForce(row')
             \/ PersistCommit /\ resumed
             \/ alert' = "abandoned"
             \/ Restart
  <2>1. CASE TickHealthy \/ TickFault \/ PersistRead \/ HaltRefused
               \/ RetryRefused
    BY <1>1, <2>1
    DEF TickHealthy, TickFault, PersistRead, HaltRefused, RetryRefused
  <2>2. CASE TickRepair \/ TickSuppressed
    BY <1>1, <2>2 DEF TickRepair, TickSuppressed, HaltIsRecorded
  <2>3. CASE RepairRefused
    BY <1>1, <2>3 DEF RepairRefused
  <2>4. CASE PersistCommit
    <3>1. IInv'
      BY <1>1, NextIInv
    <3>2. landed' = ~resumed
      BY <2>4 DEF PersistCommit
    <3> QED BY <1>1, <2>4, <3>1, <3>2 DEF IInv, TypeOK, LandedIsInForce
  <2>5. ASSUME NEW r \in Request,
               \/ RequestRead(r, "halt") \/ RequestRead(r, "resume")
               \/ HaltCommit(r) \/ ResumeCommit(r) \/ RequestRefused(r)
        PROVE  FALSE
    BY <1>1, <2>5 DEF RequestRead, HaltCommit, ResumeCommit, RequestRefused
  <2>6. CASE FaultChanges \/ DatabaseChanges \/ Restart
    BY <1>1, <2>6 DEF FaultChanges, DatabaseChanges
  <2> QED BY <1>1, <2>1, <2>2, <2>3, <2>4, <2>5, <2>6 DEF Next, TickStep
<1>2. IInv /\ [Next]_vars
        => [owed /\ ~owed' =>
              \/ InForce(row')
              \/ PersistCommit /\ resumed
              \/ alert' = "abandoned"
              \/ Restart]_vars
  BY <1>1
<1> QED BY <1>2, Inductive, PTL DEF Spec, OwedOnlyEndsOnTheRecord
=============================================================================
