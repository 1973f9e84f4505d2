----------------------------- MODULE EngineHalt -----------------------------
(***************************************************************************)
(* The halt gate of corollary/engine/runtime.py (EngineRuntime             *)
(* .check_watchdog and everything it calls), the one engine_state row it   *)
(* shares with the operator's routes of corollary/api/routes/engine.py,    *)
(* and the database sessions between them.                                 *)
(*                                                                         *)
(* The watchdog tick is synchronous code on the event loop.  The operator  *)
(* routes are plain `def` functions that run in the thread pool, so their  *)
(* database sessions interleave with those of the tick.  Every session     *)
(* that writes reads the row first and commits later, and the ORM writes   *)
(* the columns it changed and no other: `seen` is what a session read,     *)
(* Merge what its commit leaves in the row.                                *)
(***************************************************************************)
EXTENDS Integers

CONSTANTS
  Rule,            \* the watchdog's HaltRule values
  NoRule,          \* None where a rule or a decision is optional
  NoReason,        \* halted_reason is NULL
  OperatorReason,  \* what a human typed at POST /api/engine/halt
  Request,         \* the thread pool's operator requests
  RepairMax        \* REPAIR_MAX_ATTEMPTS

ASSUME RuleAssumption ==
  /\ NoRule \notin Rule
  /\ NoReason \notin Rule
  /\ OperatorReason \notin Rule
  /\ NoReason # OperatorReason
ASSUME RepairMaxAssumption == RepairMax \in Nat \ {0}

VARIABLES
  row,        \* the engine_state row: halted and halted_reason
  db,         \* whether SQLite answers: "ok", "readonly" (locked) or "down"
  fault,      \* what Watchdog.evaluate would answer now, NoRule when healthy
  announced,  \* _announced and its companions: a halt told, not recorded
  pending,    \* _pending_repair: the same, after its fault has ended
  attempts,   \* _repair_attempts
  tick,       \* the tick in progress: its place, branch and decision
  seen,       \* the row as the tick's writing session read it
  request,    \* the operator requests in progress
  alert,      \* the notification the last step emitted, "none" otherwise
  owed,       \* history: an announced halt's record is still missing
  landed,     \* history: a write of ours landed and no resume followed it
  told,       \* history: the present fault episode was announced
  resumed     \* history: a resume committed since that session's read

memory == <<announced, pending, attempts>>
history == <<owed, landed, told>>
session == <<seen, resumed>>
vars == <<row, db, fault, memory, tick, session, request, alert, history>>

Decision == Rule \cup {NoRule}
Reason == Rule \cup {NoReason, OperatorReason}
Row == [halted : BOOLEAN, reason : Reason]
Place == {"idle", "opening", "committing"}
Branch == {"halt", "retry", "repair"}
Tick == [at : Place, branch : Branch, decision : Decision, blind : BOOLEAN]
Asked == [doing : {"nothing", "halt", "resume"}, seen : Row]

\* The row a cold start boots with: halted, for no stated reason.
ColdRow == [halted |-> TRUE, reason |-> NoReason]

\* An explained halt: what _halt_is_recorded asks the row about.
InForce(r) == r.halted /\ r.reason # NoReason

\* What a commit leaves in the row: the columns the session changed since it
\* `read` it are written, the others keep what is there now.
Merge(now, read, new) ==
  [column \in DOMAIN now |->
     IF new[column] = read[column] THEN now[column] ELSE new[column]]

Readable == db # "down"
Writable == db = "ok"

\* A tick that goes on to _persist, and no tick at all.
Persisting(branch, decision) ==
  [at |-> "opening", branch |-> branch, decision |-> decision,
   blind |-> ~Readable]
NoTick == [at |-> "idle", branch |-> "halt", decision |-> NoRule,
           blind |-> FALSE]
NoRequest == [doing |-> "nothing", seen |-> ColdRow]

TypeOK ==
  /\ row \in Row
  /\ db \in {"ok", "readonly", "down"}
  /\ fault \in Decision
  /\ announced \in Decision
  /\ pending \in Decision
  /\ attempts \in 0..RepairMax
  /\ tick \in Tick
  /\ seen \in Row
  /\ request \in [Request -> Asked]
  /\ alert \in {"none", "halted", "recorded_late", "abandoned"}
  /\ owed \in BOOLEAN /\ landed \in BOOLEAN
  /\ told \in BOOLEAN /\ resumed \in BOOLEAN

Init ==
  /\ row = ColdRow
  /\ db = "ok"
  /\ fault = NoRule
  /\ announced = NoRule
  /\ pending = NoRule
  /\ attempts = 0
  /\ tick = NoTick /\ seen = ColdRow
  /\ request = [r \in Request |-> NoRequest]
  /\ alert = "none"
  /\ owed = FALSE /\ landed = FALSE /\ told = FALSE /\ resumed = FALSE

-----------------------------------------------------------------------------
(* The watchdog tick, up to the session that writes.                       *)

\* Mutant of HaltIsRecorded: a reason left in a running row counts.
AnyReasonIsRecorded == Readable /\ row.reason # NoReason

\* _halt_is_recorded: False too when the row cannot be read.
HaltIsRecorded == Readable /\ InForce(row)

\* Mutant of ToRepair: a healthy branch that forgets what the episode announced.
ForgetAnnouncement == pending

\* The unrecorded halt a healthy tick has to repair: what the episode that
\* just ended announced, else what an earlier healthy tick left.
ToRepair == IF announced # NoRule THEN announced ELSE pending

\* Mutant of NextAttempt: the count starts again on every healthy tick.
FirstAttemptAgain == 1

\* Attempts are counted afresh for an announcement that just became due.
NextAttempt == IF announced # NoRule THEN 1 ELSE attempts + 1

\* Mutant of FaultBranch: every tick the row does not explain announces.
AlwaysAnnounce == "halt"

\* The gate's second term: an announcement still in memory means the write is
\* tried again in silence; none means halt() and its notification.
FaultBranch == IF announced # NoRule THEN "retry" ELSE "halt"

\* The healthy branch with nothing unrecorded: the tick ends at once.
TickHealthy ==
  /\ tick.at = "idle" /\ fault = NoRule
  /\ ToRepair = NoRule
  /\ announced' = NoRule
  /\ told' = FALSE
  /\ alert' = "none"
  /\ UNCHANGED <<row, db, fault, pending, attempts, tick, session, request,
                 owed, landed>>

\* The healthy branch with an unrecorded halt: it becomes the one to repair,
\* and the repair asks the row first.  An explained halt supersedes it.
TickRepair ==
  /\ tick.at = "idle" /\ fault = NoRule
  /\ ToRepair # NoRule
  /\ announced' = NoRule
  /\ told' = FALSE
  /\ alert' = "none"
  /\ \/ /\ HaltIsRecorded
        /\ pending' = NoRule
        /\ attempts' = NextAttempt - 1
        /\ owed' = FALSE
        /\ UNCHANGED tick
     \/ /\ ~HaltIsRecorded
        /\ pending' = ToRepair
        /\ attempts' = NextAttempt
        /\ tick' = Persisting("repair", ToRepair)
        /\ UNCHANGED owed
  /\ UNCHANGED <<row, db, fault, session, request, landed>>

\* A fault while the row carries an explained halt: suppressed, and the row is
\* the record from here on.
TickSuppressed ==
  /\ tick.at = "idle" /\ fault # NoRule
  /\ HaltIsRecorded
  /\ announced' = NoRule /\ pending' = NoRule
  /\ owed' = FALSE
  /\ alert' = "none"
  /\ UNCHANGED <<row, db, fault, attempts, tick, session, request, landed,
                 told>>

\* A fault the row does not explain: halt() or _retry_persist, both of which
\* go on to _persist.
TickFault ==
  /\ tick.at = "idle" /\ fault # NoRule
  /\ ~HaltIsRecorded
  /\ tick' = Persisting(FaultBranch, fault)
  /\ alert' = "none"
  /\ UNCHANGED <<row, db, fault, memory, session, request, history>>

-----------------------------------------------------------------------------
(* _persist, and what each of its callers does with the answer.            *)

\* Mutant of HaltRow: a halt written without saying why.
UnexplainedHalt(why) == [halted |-> TRUE, reason |-> NoReason]

\* What _persist and POST /halt set on the row.
HaltRow(why) == [halted |-> TRUE, reason |-> why]

\* The session of _persist reads the row it is about to change.
PersistRead ==
  /\ tick.at = "opening" /\ Readable
  /\ tick' = [tick EXCEPT !.at = "committing"]
  /\ seen' = row /\ resumed' = FALSE
  /\ alert' = "none"
  /\ UNCHANGED <<row, db, fault, memory, request, history>>

\* The notification that goes with a halt's record: none for a late retry,
\* whose halt was announced when the write was refused.
AlertOf == [halt |-> "halted", retry |-> "none", repair |-> "recorded_late"]

\* The session of _persist is over, with or without its commit.
EndTick == tick' = NoTick /\ seen' = ColdRow /\ resumed' = FALSE

\* What halt(), _retry_persist and the repair do once _persist said yes.
PersistCommit ==
  /\ tick.at = "committing" /\ Writable
  /\ row' = Merge(row, seen, HaltRow(tick.decision))
  /\ announced' = NoRule /\ pending' = NoRule
  /\ alert' = AlertOf[tick.branch]
  /\ owed' = FALSE
  /\ landed' = ~resumed
  /\ told' = (tick.branch # "repair" /\ ~resumed)
  /\ EndTick
  /\ UNCHANGED <<db, fault, attempts, request>>

\* The database refuses at the read or at the commit.
Refused == \/ tick.at = "opening" /\ ~Readable
           \/ tick.at = "committing" /\ ~Writable

\* halt(): announced all the same, and remembered as unrecorded.
HaltRefused ==
  /\ Refused /\ tick.branch = "halt"
  /\ announced' = tick.decision
  /\ alert' = "halted"
  /\ owed' = TRUE /\ told' = TRUE
  /\ EndTick
  /\ UNCHANGED <<row, db, fault, pending, attempts, request, landed>>

\* _retry_persist: nothing changes and nothing is said.
RetryRefused ==
  /\ Refused /\ tick.branch = "retry"
  /\ EndTick
  /\ alert' = "none"
  /\ UNCHANGED <<row, db, fault, memory, request, history>>

\* Mutant of Abandoned: one attempt past the bound.
OneAttemptMore == attempts > RepairMax

\* The repair has made its REPAIR_MAX_ATTEMPTS.
Abandoned == attempts >= RepairMax

\* The repair: left for the next healthy tick, or given up on with a critical
\* notification once REPAIR_MAX_ATTEMPTS were made.
RepairRefused ==
  /\ Refused /\ tick.branch = "repair"
  /\ pending' = IF Abandoned THEN NoRule ELSE pending
  /\ owed' = (owed /\ ~Abandoned)
  /\ alert' = IF Abandoned THEN "abandoned" ELSE "none"
  /\ EndTick
  /\ UNCHANGED <<row, db, fault, announced, attempts, request, landed, told>>

TickStep == \/ TickHealthy \/ TickRepair \/ TickSuppressed \/ TickFault
            \/ PersistRead \/ PersistCommit
            \/ HaltRefused \/ RetryRefused \/ RepairRefused

-----------------------------------------------------------------------------
(* The operator's routes.                                                  *)

\* Either route opens its session and reads the row.
RequestRead(r, what) ==
  /\ request[r].doing = "nothing" /\ Readable
  /\ request' = [request EXCEPT ![r] = [doing |-> what, seen |-> row]]
  /\ alert' = "none"
  /\ UNCHANGED <<row, db, fault, memory, tick, session, history>>

\* POST /api/engine/halt: the newest reason is stored, on a halted engine too.
HaltCommit(r) ==
  /\ request[r].doing = "halt" /\ Writable
  /\ row' = Merge(row, request[r].seen, HaltRow(OperatorReason))
  /\ request' = [request EXCEPT ![r] = NoRequest]
  /\ alert' = "none"
  /\ UNCHANGED <<db, fault, memory, tick, session, history>>

\* POST /api/engine/resume: _clear_halt, the one way a halt ends.
ResumeCommit(r) ==
  /\ request[r].doing = "resume" /\ Writable
  /\ row' = Merge(row, request[r].seen,
                  [halted |-> FALSE, reason |-> NoReason])
  /\ request' = [request EXCEPT ![r] = NoRequest]
  /\ resumed' = (tick.at = "committing")
  /\ landed' = FALSE
  /\ told' = (told /\ owed)
  /\ alert' = "none"
  /\ UNCHANGED <<db, fault, memory, tick, seen, owed>>

\* A request whose session the database refuses answers 500.
RequestRefused(r) ==
  /\ request[r].doing # "nothing" /\ ~Writable
  /\ request' = [request EXCEPT ![r] = NoRequest]
  /\ alert' = "none"
  /\ UNCHANGED <<row, db, fault, memory, tick, session, history>>

-----------------------------------------------------------------------------
(* The world.                                                              *)

FaultChanges ==
  /\ fault' \in Decision \ {fault}
  /\ alert' = "none"
  /\ UNCHANGED <<row, db, memory, tick, session, request, history>>

DatabaseChanges ==
  /\ db' \in {"ok", "readonly", "down"} \ {db}
  /\ alert' = "none"
  /\ UNCHANGED <<row, fault, memory, tick, session, request, history>>

\* Mutant of StartedRow: a start that resumes the engine it finds halted.
StartResumes(r) == [r EXCEPT !.halted = FALSE]

\* What start() leaves in the row: mark_started writes t0 and nothing else.
StartedRow(r) == r

\* The process dies and boots: start() calls mark_started.  Memory and
\* the sessions in progress are gone.
Restart ==
  /\ row' = StartedRow(row)
  /\ announced' = NoRule /\ pending' = NoRule /\ attempts' = 0
  /\ EndTick
  /\ request' = [r \in Request |-> NoRequest]
  /\ owed' = FALSE /\ told' = FALSE
  /\ alert' = "none"
  /\ UNCHANGED <<db, fault, landed>>

Next ==
  \/ TickStep
  \/ \E r \in Request :
       \/ RequestRead(r, "halt")
       \/ RequestRead(r, "resume")
       \/ HaltCommit(r)
       \/ ResumeCommit(r)
       \/ RequestRefused(r)
  \/ FaultChanges
  \/ DatabaseChanges
  \/ Restart

Spec == Init /\ [][Next]_vars

\* The supervisor task runs the tick for ever; nobody else is obliged to act.
Fairness == WF_vars(TickStep)

-----------------------------------------------------------------------------
(* Properties.                                                             *)

\* Once a halt of the watchdog is written, the row is halted with its reason
\* for as long as no resume commits after the write began: no other session's
\* commit (a manual halt's, a repair's) and no restart takes it away.
LandedIsInForce == landed => InForce(row)

\* A halt that was announced and refused by the database is never dropped
\* from memory (_announced, then _pending_repair) while its record is owed.
NothingForgotten == owed => announced # NoRule \/ pending # NoRule

\* The record of an announced halt stops being owed only because the row now
\* carries an explained halt, because a resume crossed the write that carried
\* it, because the giving up was announced, or because the process died.
OwedOnlyEndsOnTheRecord ==
  [][owed /\ ~owed' =>
       \/ InForce(row')
       \/ PersistCommit /\ resumed
       \/ alert' = "abandoned"
       \/ Restart]_vars

\* One announcement per fault episode: between the first and the end of the
\* fault only a human's resume makes the same fault news again, and a database
\* that stops answering costs one further alert, not one per tick.
AnnouncedOnce ==
  [][alert' = "halted" => ~told \/ (tick.blind /\ ~owed)]_vars

\* Rule 9: an explained halt ends at POST /api/engine/resume and nowhere else,
\* not with the fault, not with a late write, not across a restart.
OnlyAResumeEndsAHalt ==
  [][InForce(row) /\ ~InForce(row') => \E r \in Request : ResumeCommit(r)]_vars

NobodyResumes == \A r \in Request : request[r].doing # "resume"

\* A fault that stays, on a database that comes back and with nobody pressing
\* resume any more, leaves the engine halted for good, whatever alerts, lost
\* writes and resumes came before.
PersistentFaultHalts ==
  <>[](fault # NoRule /\ db = "ok" /\ NobodyResumes) /\ <>[][~Restart]_vars
    => <>[]InForce(row)

\* An announced halt does not stay unrecorded in silence for ever: a database
\* that comes back, or a fault that ends (the repair's bound), settles it.
OwedIsSettled ==
  (<>[](db = "ok") \/ <>[](fault = NoRule)) /\ <>[][~Restart]_vars
    => []<>~owed

\* What _persist and _retry_persist promise their callers: an answer of True
\* means the row now carries the halt.
TrueMeansTheRowCarriesIt == [][PersistCommit => InForce(row')]_vars

=============================================================================
