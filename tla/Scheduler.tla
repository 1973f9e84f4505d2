----------------------------- MODULE Scheduler -----------------------------
(***************************************************************************)
(* One job of the context scheduler (corollary/engine/scheduler.py): the   *)
(* task that runs its start-up catch-up, its slots and, when another part  *)
(* wakes it early, its smaller woken body.  Jobs share nothing but the     *)
(* event loop, so one job stands for each.                                 *)
(*                                                                         *)
(* Time is counted in small steps from the start of the process.  The job  *)
(* may be late for anything: the loop is shared.                           *)
(***************************************************************************)
EXTENDS Integers

CONSTANTS
  Horizon,    \* bound on the clock
  NextRun,    \* Schedule.next_run: the first slot after an instant
  Cap         \* WOKEN_RUN_MIN_INTERVAL

\* No slot within the calendar's horizon: Schedule.next_run answers None.
Never == Horizon + 1

\* A schedule is a grid: the slot after an instant is that of every instant
\* before it.
ASSUME ScheduleAssumption ==
  /\ Horizon \in Nat /\ Cap \in Nat \ {0}
  /\ NextRun \in [0..Never -> 1..Never]
  /\ \A t \in 0..Horizon : NextRun[t] > t
  /\ \A t, u \in 0..Never : t <= u => NextRun[t] <= NextRun[u]

VARIABLES
  now,        \* the clock
  at,         \* where the job's task is
  due,        \* the slot it sleeps towards or runs, Never before the first
  started,    \* when the body in progress, or the last one, began
  wake,       \* the job's wake event
  lastWoken,  \* last_woken, LongAgo before the first
  waiting,    \* history: what became of the wakes since the last body began
  slotRun,    \* history: when the last scheduled body began
  asked       \* history: when the last woken body that made a request began

vars == <<now, at, due, started, wake, lastWoken, waiting, slotRun, asked>>
history == <<waiting, slotRun, asked>>

Body == {"catching_up", "running", "woken"}
Place == Body \cup {"warming", "choosing", "sleeping", "backing_off",
                    "stopped", "dead", "closed"}
Outcome == {"done", "skipped", "failed"}

\* Far enough back for the cap not to refuse the first wake.
LongAgo == -Cap

TypeOK ==
  /\ now \in 0..Horizon
  /\ at \in Place
  /\ due \in 1..Never
  /\ started \in 0..Horizon
  /\ wake \in BOOLEAN
  /\ lastWoken \in {LongAgo} \cup 0..Horizon
  /\ waiting \in {"none", "pending", "refused"}
  /\ slotRun \in {LongAgo} \cup 0..Horizon
  /\ asked \in {LongAgo} \cup 0..Horizon
  /\ at \in {"sleeping", "woken"} => due \in (slotRun + 1)..Horizon

Init ==
  /\ now = 0 /\ at = "warming" /\ due = Never /\ started = 0
  /\ wake = FALSE /\ lastWoken = LongAgo
  /\ waiting = "none" /\ slotRun = LongAgo /\ asked = LongAgo

-----------------------------------------------------------------------------
(* The job's task.                                                         *)

\* The body that begins now answers every wake so far.
Begin(body) == /\ at' = body /\ started' = now
               /\ waiting' = "none"

\* The calendar is built, well or not.  A catch-up reads the rows and may ask
\* for nothing, so it answers no wake.
Warm ==
  /\ at = "warming"
  /\ \/ at' = "catching_up" /\ started' = now
     \/ at' = "choosing" /\ UNCHANGED started
  /\ UNCHANGED <<now, due, wake, lastWoken, history>>

\* Mutant of Following: the slots a long body overran are run one by one.
EverySlot(slot) == NextRun[slot]

\* _following: past every slot that a long body overran.
Following(slot) ==
  NextRun[IF slot > now THEN slot ELSE now]

Upcoming == IF due = Never THEN NextRun[now] ELSE Following(due)

\* The schedule names the next slot, or none within its horizon.
Choose ==
  /\ at = "choosing"
  /\ due' = Upcoming
  /\ at' = IF Upcoming > Horizon THEN "stopped" ELSE "sleeping"
  /\ UNCHANGED <<now, started, wake, lastWoken, history>>

\* The schedule raises: a recorded failure, a pause and a fresh start.
ScheduleRaises ==
  /\ at = "choosing"
  /\ at' = "backing_off" /\ due' = Never
  /\ UNCHANGED <<now, started, wake, lastWoken, history>>

BackedOff ==
  /\ at = "backing_off" /\ at' = "choosing"
  /\ UNCHANGED <<now, due, started, wake, lastWoken, history>>

\* The slot has come: due wins over a wake, and its body answers the wake.
RunSlot ==
  /\ at = "sleeping" /\ due <= now
  /\ wake' = FALSE
  /\ Begin("running")
  /\ slotRun' = now
  /\ UNCHANGED <<now, due, lastWoken, asked>>

\* A wake is taken before the slot ...
Capped == now - lastWoken < Cap

RunWoken ==
  /\ at = "sleeping" /\ now < due /\ wake
  /\ ~Capped
  /\ wake' = FALSE
  /\ Begin("woken")
  /\ UNCHANGED <<now, due, lastWoken, slotRun, asked>>

\* ... or refused within the hour: the next slot covers it.
RefuseWake ==
  /\ at = "sleeping" /\ now < due /\ wake
  /\ Capped
  /\ wake' = FALSE
  /\ waiting' = "refused"
  /\ UNCHANGED <<now, at, due, started, lastWoken, slotRun, asked>>

\* Mutant of AfterBody: a body that raises ends the task.
AfterBodyUnlessFailed(outcome) ==
  IF outcome = "failed" THEN "dead" ELSE "choosing"

\* A failure is recorded and the job goes on.
AfterBody(outcome) == "choosing"

BodyEnds(outcome) ==
  /\ at \in {"catching_up", "running"}
  /\ at' = AfterBody(outcome)
  /\ UNCHANGED <<now, due, started, wake, lastWoken, history>>

\* Mutant of Charged: only a woken body that succeeds counts.
ChargedIfDone(outcome) == outcome = "done"

\* A skipped body made no request; a failed one may have.
Charged(outcome) == outcome # "skipped"

\* Mutant of WakeAfterBody: the event is cleared when the body ends.
WakeCleared(set) == FALSE

\* The event was cleared before the body: what is set now came after it.
WakeAfterBody(set) == set

WokenEnds(outcome) ==
  /\ at = "woken" /\ at' = "sleeping"
  /\ lastWoken' = IF Charged(outcome) THEN started ELSE lastWoken
  /\ asked' = IF outcome = "skipped" THEN asked ELSE started
  /\ wake' = WakeAfterBody(wake)
  /\ UNCHANGED <<now, due, started, waiting, slotRun>>

TaskStep ==
  \/ Warm \/ Choose \/ BackedOff
  \/ RunSlot \/ RunWoken \/ RefuseWake
  \/ \E outcome \in Outcome : BodyEnds(outcome) \/ WokenEnds(outcome)

-----------------------------------------------------------------------------
(* The rest of the process.                                                *)

\* JobWake: the tickers the job covers have changed.
Wake ==
  /\ wake' = TRUE
  /\ waiting' = "pending"
  /\ UNCHANGED <<now, at, due, started, lastWoken, slotRun, asked>>

Tick == /\ now < Horizon /\ now' = now + 1
        /\ UNCHANGED <<at, due, started, wake, lastWoken, history>>

Alive == at \notin {"stopped", "dead", "closed"}

\* aclose cancels the task.
Close == /\ Alive /\ at' = "closed"
         /\ UNCHANGED <<now, due, started, wake, lastWoken, history>>

\* A clock or a sleeper that raises ends the task: _task_ended says so.
Die == /\ Alive /\ at' = "dead"
       /\ UNCHANGED <<now, due, started, wake, lastWoken, history>>

Raising == ScheduleRaises \/ Die

Next == TaskStep \/ Wake \/ Tick \/ Close \/ Raising

Spec == Init /\ [][Next]_vars

\* The loop resumes the task, its bodies' calls time out, and time passes.
Fairness ==
  /\ WF_vars(Tick)
  /\ WF_vars(Warm \/ Choose \/ BackedOff \/ RunSlot \/ RunWoken \/ RefuseWake)
  /\ WF_vars(\E outcome \in Outcome : BodyEnds(outcome) \/ WokenEnds(outcome))


-----------------------------------------------------------------------------
(* Properties.                                                             *)

\* A job neither bursts to catch up nor repeats a slot: between two scheduled
\* bodies' beginnings the schedule has a slot, however long the first one ran,
\* whatever raised, and whoever woke the job in between.
OneRunPerSlot ==
  [][RunSlot /\ slotRun # LongAgo => NextRun[slotRun] <= now]_vars

\* The hourly cap: two woken bodies that made requests began a Cap apart, also
\* when the first of them failed.
WokenOncePerCap ==
  [][RunWoken /\ asked # LongAgo => now - asked >= Cap]_vars

\* A wake is remembered until a body that begins after it answers it or the
\* cap refuses it: one that comes while a body runs is not taken for answered
\* by that body, nor cleared with the wakes that were.
WakeRemembered == waiting = "pending" => wake

=============================================================================
