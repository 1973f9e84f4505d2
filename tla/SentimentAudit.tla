--------------------------- MODULE SentimentAudit ---------------------------
(***************************************************************************)
(* The weekly sentiment audit (corollary/data/news/audit_runner.py): a run *)
(* opens a row, grades the labels' windows on the vendor's bars, decides   *)
(* whether a source is demoted or restored and closes its row in one       *)
(* transaction.  One lock keeps a process to one run; between processes    *)
(* only the database does.  Reads are autocommitted one by one, a write    *)
(* transaction is one step.                                                *)
(*                                                                         *)
(* One source stands for each.  One instant of the model's clock is a      *)
(* microsecond where the code bumps a closing reading past its start.      *)
(***************************************************************************)
EXTENDS Integers, Sequences

CONSTANTS
  Process,    \* the processes that run the context scheduler
  Window,     \* the labels' grading windows
  Due,        \* outcome_at: when a window's last price is printed
  Abandoned,  \* ABANDONED_RUN_AFTER
  Grace,      \* PRICE_UNAVAILABLE_AFTER
  Hold,       \* TRAILING_WINDOW
  Horizon,    \* bound on the clock
  MaxRuns,    \* bound on the rows
  MaxBack,    \* bound on the clock's steps backwards
  None        \* no instant, no transition

ASSUME AuditAssumption ==
  /\ Horizon \in Nat /\ MaxRuns \in Nat /\ MaxBack \in Nat
  /\ Abandoned \in Nat /\ Grace \in Nat /\ Hold \in Nat /\ Grace <= Hold
  /\ Due \in [Window -> 0..Horizon]
  /\ None \notin Int /\ None \notin {"unaudited", "active", "demoted"}

VARIABLES
  now,        \* the wall clock
  back,       \* how often it has been set back
  runs,       \* audit_run, by id
  status,     \* the source's sentiment_source_status row
  log,        \* its audit_log rows
  outcome,    \* label_outcome: each window's grade
  exists,     \* the windows whose bars the vendor has
  at,         \* where each process's run is
  started,    \* its started_at
  mine,       \* its row's id
  found,      \* the running rows it read
  todo,       \* the windows it set out to grade
  seen,       \* the status row it judged
  change,     \* the transition it decided
  ending      \* its finished_at

database == <<runs, status, log, outcome>>
locals == <<started, mine, found, todo, seen, change, ending>>
world == <<now, back, exists>>
vars == <<world, database, at, locals>>

Opening == {"universe", "read_finished", "read_started", "read_running", "open"}
Working == {"plan", "grade", "weigh", "end", "close"}
Place == {"idle", "fail", "record"} \cup Opening \cup Working
Status == {"unaudited", "active", "demoted"}
Instant == 0..(Horizon + 1)
Run == [started : 0..Horizon, finished : Instant \cup {None},
        status : {"running", "succeeded", "failed"}]
StatusRow == [value : Status, changed : 0..Horizon \cup {None}]
Entry == [at : Instant, run : 1..MaxRuns, from : Status, to : Status]
Grade == [as : {"pending"}, by : {0}]
         \cup [as : {"graded", "unavailable"}, by : 1..MaxRuns]

TypeOK ==
  /\ now \in 0..Horizon /\ back \in 0..MaxBack /\ exists \subseteq Window
  /\ runs \in Seq(Run) /\ Len(runs) <= MaxRuns
  /\ \A r \in DOMAIN runs : runs[r].status = "running" <=> runs[r].finished = None
  /\ status \in StatusRow /\ log \in Seq(Entry)
  /\ outcome \in [Window -> Grade]
  /\ at \in [Process -> Place]
  /\ started \in [Process -> 0..Horizon]
  /\ mine \in [Process -> 0..MaxRuns]
  /\ found \in [Process -> SUBSET (1..MaxRuns)]
  /\ todo \in [Process -> SUBSET Window]
  /\ seen \in [Process -> StatusRow]
  /\ change \in [Process -> Status \cup {None}]
  /\ ending \in [Process -> Instant]
  /\ \A p \in Process : at[p] \in Working \cup {"fail", "record"}
                          => mine[p] \in DOMAIN runs

Unaudited == [value |-> "unaudited", changed |-> None]
Pending == [as |-> "pending", by |-> 0]

Init ==
  /\ now = 0 /\ back = 0 /\ exists \in SUBSET Window
  /\ runs = <<>> /\ status = Unaudited /\ log = <<>>
  /\ outcome = [w \in Window |-> Pending]
  /\ at = [p \in Process |-> "idle"]
  /\ started = [p \in Process |-> 0]
  /\ mine = [p \in Process |-> 0]
  /\ found = [p \in Process |-> {}]
  /\ todo = [p \in Process |-> {}]
  /\ seen = [p \in Process |-> Unaudited]
  /\ change = [p \in Process |-> None]
  /\ ending = [p \in Process |-> 0]

Goto(p, place) == at' = [at EXCEPT ![p] = place]

Continue(p, place) == Goto(p, place) /\ UNCHANGED locals

\* The run returns or raises, the lock is released, and its locals are gone.
Leave(p) ==
  /\ Goto(p, "idle")
  /\ started' = [started EXCEPT ![p] = 0] /\ mine' = [mine EXCEPT ![p] = 0]
  /\ found' = [found EXCEPT ![p] = {}] /\ todo' = [todo EXCEPT ![p] = {}]
  /\ seen' = [seen EXCEPT ![p] = Unaudited]
  /\ change' = [change EXCEPT ![p] = None]
  /\ ending' = [ending EXCEPT ![p] = 0]

-----------------------------------------------------------------------------
(* Opening a run.                                                          *)

Running(r) == runs[r].status = "running"

\* The lock is taken and the clock read; the watch universe is asked for.
Start(p) ==
  /\ at[p] = "idle" /\ Goto(p, "universe")
  /\ started' = [started EXCEPT ![p] = now]
  /\ UNCHANGED <<world, database, mine, found, todo, seen, change, ending>>

Universe(p) ==
  /\ at[p] = "universe" /\ Continue(p, "read_finished")
  /\ UNCHANGED <<world, database>>

\* Mutant of NotAfter: the start reading is not compared with the rows.
AnyTime(instant, p) == TRUE

\* No run starts before one that the rows already state.
NotAfter(instant, p) == instant <= started[p]

\* The latest finished_at, then the latest started_at.
ReadFinished(p) ==
  /\ at[p] = "read_finished"
  /\ IF \A r \in DOMAIN runs :
          runs[r].finished # None => NotAfter(runs[r].finished, p)
     THEN Continue(p, "read_started") ELSE Leave(p)
  /\ UNCHANGED <<world, database>>

ReadStarted(p) ==
  /\ at[p] = "read_started"
  /\ IF \A r \in DOMAIN runs : NotAfter(runs[r].started, p)
     THEN Continue(p, "read_running") ELSE Leave(p)
  /\ UNCHANGED <<world, database>>

\* Another process's live run, as far as its age tells.
TooYoung(r, p) == started[p] - runs[r].started <= Abandoned

ReadRunning(p) ==
  /\ at[p] = "read_running"
  /\ LET running == {r \in DOMAIN runs : Running(r)}
     IN  IF \E r \in running : TooYoung(r, p) THEN Leave(p)
         ELSE /\ found' = [found EXCEPT ![p] = running]
              /\ Goto(p, "open")
              /\ UNCHANGED <<started, mine, todo, seen, change, ending>>
  /\ UNCHANGED <<world, database>>

\* Mutant of Closed: a row is closed whatever it says.
ClosedAnyway(r, as, when) ==
  [runs EXCEPT ![r] = [@ EXCEPT !.status = as, !.finished = when]]

\* Mutant of Closed: the row's finished_at is left out.
ClosedUnfinished(r, as, when) ==
  IF Running(r) THEN [runs EXCEPT ![r] = [@ EXCEPT !.status = as]] ELSE runs

\* _set_terminal: only a running row.
Closed(r, as, when) ==
  IF Running(r)
  THEN [runs EXCEPT ![r] = [@ EXCEPT !.status = as, !.finished = when]]
  ELSE runs

\* The rows once those that were found running, and still are, are abandoned.
AbandonedBy(p) ==
  [r \in DOMAIN runs |-> IF r \in found[p]
                         THEN Closed(r, "failed", started[p])[r] ELSE runs[r]]

\* One transaction: abandon, insert.  uq_audit_run_one_running refuses it when
\* a row is running all the same.  A cancellation waits for the commit.
Open(p) ==
  /\ at[p] = "open" /\ Len(runs) < MaxRuns
  /\ \A r \in DOMAIN runs : AbandonedBy(p)[r].status # "running"
  /\ runs' = Append(AbandonedBy(p),
                    [started |-> started[p], finished |-> None,
                     status |-> "running"])
  /\ mine' = [mine EXCEPT ![p] = Len(runs) + 1]
  /\ \E cancelled \in BOOLEAN : Goto(p, IF cancelled THEN "fail" ELSE "plan")
  /\ UNCHANGED <<world, status, log, outcome, started, found, todo, seen,
                 change, ending>>

\* A universe that is degraded, an insert that is refused, a cancellation or a
\* death before the row is there: nothing is written.
GiveUp(p) ==
  /\ at[p] \in Opening /\ Leave(p)
  /\ UNCHANGED <<world, database>>

-----------------------------------------------------------------------------
(* The run.                                                                *)

Plan(p) ==
  /\ at[p] = "plan" /\ Goto(p, "grade")
  /\ todo' = [todo EXCEPT ![p] =
                {w \in Window : outcome[w] = Pending /\ Due[w] <= started[p]}]
  /\ UNCHANGED <<world, database, started, mine, found, seen, change, ending>>

\* What became of a window's requests: its bars came, the vendor answered
\* without one, a request failed, or the outage ended the stage before it.
Answer(w) == {"failed", "untried", IF w \in exists THEN "bars" ELSE "gone"}

\* Mutant of Verdict: a failed request is a missing price.
FailedIsGone(answer, age) ==
  CASE answer = "bars" -> "graded"
    [] answer # "bars" /\ age <= Grace -> "pending"
    [] OTHER -> "unavailable"

\* grade, then _to_write.
Verdict(answer, age) ==
  CASE answer = "bars" -> "graded"
    [] answer # "bars" /\ age <= Grace -> "pending"
    [] answer = "gone" /\ age > Grace -> "unavailable"
    [] answer = "failed" /\ age > Grace ->
         IF age <= Hold THEN "pending" ELSE "unavailable"
    [] answer = "untried" /\ age > Grace -> "pending"

\* Committed on their own.  A key that another run wrote since refuses them all.
GradeWindows(p) ==
  /\ at[p] = "grade"
  /\ \E answer \in [todo[p] -> {"failed", "untried", "bars", "gone"}] :
       /\ \A w \in todo[p] : answer[w] \in Answer(w)
       /\ LET verdict == [w \in todo[p] |->
                            Verdict(answer[w], started[p] - Due[w])]
              written == {w \in todo[p] : verdict[w] # "pending"}
          IN  IF \E w \in written : outcome[w] # Pending
              THEN Goto(p, "fail") /\ UNCHANGED outcome
              ELSE /\ outcome' = [w \in Window |->
                        IF w \in written
                        THEN [as |-> verdict[w], by |-> mine[p]]
                        ELSE outcome[w]]
                   /\ Goto(p, "weigh")
  /\ UNCHANGED <<world, runs, status, log, locals>>

\* decide_transition: what each status may become.
Successors(value) ==
  CASE value = "unaudited" -> {"active", "demoted"}
    [] value = "active" -> {"demoted"}
    [] value = "demoted" -> {"active"}

Weigh(p) ==
  /\ at[p] = "weigh" /\ Goto(p, "end")
  /\ seen' = [seen EXCEPT ![p] = status]
  /\ \E to \in Successors(status.value) \cup {None} :
       change' = [change EXCEPT ![p] = to]
  /\ UNCHANGED <<world, database, started, mine, found, todo, ending>>

\* _finishing_reading: strictly after the start.
Reading(p) == IF now > started[p] THEN now ELSE started[p] + 1

ReadEnd(p) ==
  /\ at[p] = "end"
  /\ IF now < started[p] THEN Goto(p, "fail") /\ UNCHANGED ending
     ELSE Goto(p, "close") /\ ending' = [ending EXCEPT ![p] = Reading(p)]
  /\ UNCHANGED <<world, database, started, mine, found, todo, seen, change>>

Refused(p) ==
  \/ ~Running(mine[p])
  \/ change[p] # None /\ status # seen[p]

\* One transaction.  A cancellation waits for the commit, and the run then goes
\* on to record a failure; so does a close that is refused.
Close(p) ==
  /\ at[p] = "close" /\ ~Refused(p)
  /\ runs' = Closed(mine[p], "succeeded", ending[p])
  /\ IF change[p] = None THEN UNCHANGED <<status, log>>
     ELSE /\ status' = [value |-> change[p], changed |-> started[p]]
          /\ log' = Append(log, [at |-> ending[p], run |-> mine[p],
                                 from |-> seen[p].value, to |-> change[p]])
  /\ \E cancelled \in BOOLEAN :
       IF cancelled THEN Continue(p, "fail") ELSE Leave(p)
  /\ UNCHANGED <<world, outcome>>

CloseRefused(p) ==
  /\ at[p] = "close" /\ Refused(p) /\ Continue(p, "fail")
  /\ UNCHANGED <<world, database>>

\* Anything raises.
Raises(p) ==
  /\ at[p] \in Working /\ Continue(p, "fail")
  /\ UNCHANGED <<world, database>>

ReadFailure(p) ==
  /\ at[p] = "fail" /\ Goto(p, "record")
  /\ ending' = [ending EXCEPT ![p] = Reading(p)]
  /\ UNCHANGED <<world, database, started, mine, found, todo, seen, change>>

\* _fail_run; the database may refuse it, and the row then stays running.
RecordFailure(p) ==
  /\ at[p] = "record" /\ Leave(p)
  /\ runs' \in {runs, Closed(mine[p], "failed", ending[p])}
  /\ UNCHANGED <<world, status, log, outcome>>

\* The process dies: its row stays as it is.
Crash(p) ==
  /\ at[p] \in Working \cup {"fail", "record"} /\ Leave(p)
  /\ UNCHANGED <<world, database>>

-----------------------------------------------------------------------------
Tick == /\ now < Horizon /\ now' = now + 1
        /\ UNCHANGED <<back, exists, database, at, locals>>

ClockBack == /\ back < MaxBack /\ now > 0
             /\ back' = back + 1 /\ now' = now - 1
             /\ UNCHANGED <<exists, database, at, locals>>

Opens(p) == \/ Start(p) \/ Universe(p) \/ ReadFinished(p) \/ ReadStarted(p)
            \/ ReadRunning(p) \/ Open(p)

Works(p) == \/ Plan(p) \/ GradeWindows(p) \/ Weigh(p) \/ ReadEnd(p) \/ Close(p)
            \/ CloseRefused(p) \/ ReadFailure(p) \/ RecordFailure(p)

Stops(p) == GiveUp(p) \/ Raises(p) \/ Crash(p)

Next ==
  \/ \E p \in Process : Opens(p) \/ Works(p) \/ Stops(p)
  \/ Tick \/ ClockBack

Spec == Init /\ [][Next]_vars

-----------------------------------------------------------------------------
(* Properties.                                                             *)

\* The half-open span of a closed run.
Spans(r, instant) ==
  /\ runs[r].finished # None
  /\ runs[r].started < instant /\ instant <= runs[r].finished

\* The join of SentimentSourceStatus: a transition's log row lies in the span
\* of the run that made it and of no other, wherever runs failed, were
\* abandoned or were cut off, and however the clock was set.
TransitionNamesItsRun ==
  \A i \in DOMAIN log :
    {r \in DOMAIN runs : Spans(r, log[i].at)} = {log[i].run}

\* No two writers turn one terminal state into the other: a closed row is not
\* written again, by a run that was given up for dead, by a cancelled run that
\* had committed, or by a later run that finds it.
TerminalIsFinal ==
  [][\A r \in DOMAIN runs : ~Running(r) => runs'[r] = runs[r]]_vars

\* A vendor's outage costs no grade: while the vendor has the bars, a window is
\* given up only by a run that asked for it more than TRAILING_WINDOW late.
OutageCostsNoGrade ==
  \A w \in exists :
    outcome[w].as = "unavailable" => runs[outcome[w].by].started - Due[w] > Hold
=============================================================================
