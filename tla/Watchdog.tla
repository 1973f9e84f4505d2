------------------------------ MODULE Watchdog ------------------------------
(***************************************************************************)
(* The Watchdog of corollary/engine/runtime.py: what the sockets, the      *)
(* supervisors and the risk manager tell it, and evaluate, which answers   *)
(* with at most one fault per tick.                                        *)
(*                                                                         *)
(* The clock is a bounded counter and every call is stamped with it.  The  *)
(* socket None of the code is the variables `heard` and `feed`: polls and  *)
(* messages of any socket, and whether a feed is expected at all.  A       *)
(* socket's name is a number, which is all the tie-breaks compare.         *)
(***************************************************************************)
EXTENDS Integers

CONSTANTS
  Socket,          \* the named sockets
  Timeout,         \* WATCHDOG_TIMEOUT_SECONDS, in ticks of the clock
  MaxTime,         \* bound on the clock
  HeartbeatArmed,  \* heartbeat_armed: whether the risk manager beats at all
  None             \* no timestamp

ASSUME SocketAssumption == Socket \subseteq Nat
ASSUME TimeAssumption == Timeout \in Nat \ {0} /\ MaxTime \in Nat
ASSUME ArmedAssumption == HeartbeatArmed \in BOOLEAN
ASSUME NoneAssumption == None \notin Int

VARIABLES
  now,          \* the clock
  closed,       \* closed_at of each socket, None when no close is held
  observed,     \* close_observed: an evaluation reported that close
  reopened,     \* close_reopened: the socket was back before it was reported
  activity,     \* last_activity_at of each socket
  heard,        \* _last_activity_at of the whole process
  expectation,  \* _expectations: whether each socket should speak, since when
  feed,         \* the same for the socket None
  handshake,    \* _handshakes
  beat,         \* _last_heartbeat_at, or the moment of the start
  verdict,      \* the latest evaluation's answer
  quiet,        \* history: since when a socket owes us a message
  unconfirmed,  \* history: since when a socket owes us its handshake
  unreported,   \* history: its latest close was not reported yet
  up            \* history: it opened after its latest close

closes == <<closed, observed, reopened>>
expectations == <<expectation, feed, handshake>>
history == <<quiet, unconfirmed, unreported, up>>
vars == <<now, closes, activity, heard, expectations, beat, verdict, history>>

Time == 0..MaxTime
Moment == Time \cup {None}
Expectation == [expected : BOOLEAN, since : Moment]

\* A socket nobody asked about is expected, but has nothing to be judged by
\* until it speaks; a handshake nobody asked about is not expected.
ByDefault == [expected |-> TRUE, since |-> None]
NotExpected == [expected |-> FALSE, since |-> None]
\* Mutant of ExpectedNow: a wait that starts with the next tick.
ExpectedSoon == [expected |-> TRUE, since |-> now + 1]

ExpectedNow == [expected |-> TRUE, since |-> now]

Fault == {"closed", "unconfirmed", "stale", "heartbeat"}
Healthy == [rule |-> "healthy", socket |-> None, reconnected |-> FALSE]
Verdict == [rule : Fault \cup {"healthy"}, socket : Socket \cup {None},
            reconnected : BOOLEAN]

TypeOK ==
  /\ now \in Time
  /\ closed \in [Socket -> Moment]
  /\ observed \in [Socket -> BOOLEAN]
  /\ reopened \in [Socket -> BOOLEAN]
  /\ activity \in [Socket -> Moment]
  /\ heard \in Moment
  /\ expectation \in [Socket -> Expectation]
  /\ feed \in Expectation
  /\ handshake \in [Socket -> Expectation]
  /\ beat \in Time
  /\ verdict \in Verdict
  /\ quiet \in [Socket -> Moment]
  /\ unconfirmed \in [Socket -> Moment]
  /\ unreported \in [Socket -> BOOLEAN]
  /\ up \in [Socket -> BOOLEAN]

Init ==
  /\ now = 0
  /\ closed = [s \in Socket |-> None]
  /\ observed = [s \in Socket |-> FALSE]
  /\ reopened = [s \in Socket |-> FALSE]
  /\ activity = [s \in Socket |-> None]
  /\ heard = None
  /\ expectation = [s \in Socket |-> ByDefault]
  /\ feed = ByDefault
  /\ handshake = [s \in Socket |-> NotExpected]
  /\ beat = 0
  /\ verdict = Healthy
  /\ quiet = [s \in Socket |-> None]
  /\ unconfirmed = [s \in Socket |-> None]
  /\ unreported = [s \in Socket |-> FALSE]
  /\ up = [s \in Socket |-> FALSE]

-----------------------------------------------------------------------------
(* What the sockets report.                                                *)

\* _record_activity.  `quiet` follows it: the socket owes nothing for now.
Activity(s) ==
  /\ activity' = [activity EXCEPT ![s] = now]
  /\ heard' = now
  /\ quiet' = [quiet EXCEPT ![s] = now]

Message(s) ==
  /\ Activity(s)
  /\ UNCHANGED <<now, closes, expectations, beat, verdict, unconfirmed,
                 unreported, up>>

\* record_poll: a REST poll is activity of no socket.
Poll ==
  /\ heard' = now
  /\ UNCHANGED <<now, closes, activity, expectations, beat, verdict, history>>

\* Mutant of HeldAcrossReopen: a reopen clears the close at once.
NeverHeld(s) == FALSE

\* The close a reopen must not cancel: nothing has reported it yet.
HeldAcrossReopen(s) == closed[s] # None /\ ~observed[s]

\* record_stream_open
StreamOpen(s) ==
  /\ Activity(s)
  /\ up' = [up EXCEPT ![s] = TRUE]
  /\ \/ /\ HeldAcrossReopen(s)
        /\ reopened' = [reopened EXCEPT ![s] = TRUE]
        /\ UNCHANGED <<closed, observed>>
     \/ /\ ~HeldAcrossReopen(s)
        /\ closed' = [closed EXCEPT ![s] = None]
        /\ observed' = [observed EXCEPT ![s] = FALSE]
        /\ reopened' = [reopened EXCEPT ![s] = FALSE]
  /\ UNCHANGED <<now, expectations, beat, verdict, unconfirmed, unreported>>

\* A close starts as neither reported nor reopened.
ReopenedAfterClose(s) == [reopened EXCEPT ![s] = FALSE]

\* record_stream_closed
RecordClose(s) ==
  /\ closed' = [closed EXCEPT ![s] = now]
  /\ observed' = [observed EXCEPT ![s] = FALSE]
  /\ reopened' = ReopenedAfterClose(s)
  /\ unreported' = [unreported EXCEPT ![s] = TRUE]
  /\ up' = [up EXCEPT ![s] = FALSE]

StreamClosed(s) ==
  /\ RecordClose(s)
  /\ UNCHANGED <<now, activity, heard, expectations, beat, verdict, quiet,
                 unconfirmed>>

Heartbeat ==
  /\ HeartbeatArmed
  /\ beat' = now
  /\ UNCHANGED <<now, closes, activity, heard, expectations, verdict, history>>

-----------------------------------------------------------------------------
(* What the supervisors expect.                                            *)

\* Mutant of Expect: every call starts the wait again.
ExpectAgain(e, start) == start

\* A call for what is already expected keeps the moment it began.
Expect(e, start) == IF e.expected /\ e.since # None THEN e ELSE start

\* expect_feed
ExpectFeed(s) ==
  /\ expectation' = [expectation EXCEPT ![s] = Expect(expectation[s], ExpectedNow)]
  /\ quiet' = IF expectation[s].since # None THEN quiet
              ELSE [quiet EXCEPT ![s] = now]
  /\ UNCHANGED <<now, closes, activity, heard, feed, handshake, beat, verdict,
                 unconfirmed, unreported, up>>

\* stop_expecting_feed
StopExpectingFeed(s) ==
  /\ expectation' = [expectation EXCEPT ![s] = NotExpected]
  /\ UNCHANGED <<now, closes, activity, heard, feed, handshake, beat, verdict,
                 history>>

\* The same for the socket None: is any feed held open at all.
ExpectAnyFeed ==
  /\ feed' = Expect(feed, ExpectedNow)
  /\ UNCHANGED <<now, closes, activity, heard, expectation, handshake, beat,
                 verdict, history>>

StopExpectingAnyFeed ==
  /\ feed' = NotExpected
  /\ UNCHANGED <<now, closes, activity, heard, expectation, handshake, beat,
                 verdict, history>>

\* expect_handshake
ExpectHandshake(s) ==
  /\ handshake' = [handshake EXCEPT ![s] = Expect(handshake[s], ExpectedNow)]
  /\ unconfirmed' = IF unconfirmed[s] # None THEN unconfirmed
                    ELSE [unconfirmed EXCEPT ![s] = now]
  /\ UNCHANGED <<now, closes, activity, heard, expectation, feed, beat,
                 verdict, quiet, unreported, up>>

\* stop_expecting_handshake
StopExpectingHandshake(s) ==
  /\ handshake' = [handshake EXCEPT ![s] = NotExpected]
  /\ unconfirmed' = [unconfirmed EXCEPT ![s] = None]
  /\ UNCHANGED <<now, closes, activity, heard, expectation, feed, beat,
                 verdict, quiet, unreported, up>>

-----------------------------------------------------------------------------
(* evaluate: the oldest held close, else the handshake that has been owed   *)
(* longest, else the socket silent longest, else the silence of the whole   *)
(* process, else the heartbeat.                                             *)

Elapsed(since) == now - since >= Timeout

\* The members of S for which `since` is earliest, a tie going to the name.
First(S, since) ==
  {s \in S : \A t \in S : since[s] < since[t] \/ (since[s] = since[t] /\ s <= t)}

HeldCloses == {s \in Socket : closed[s] # None}

Unconfirmed ==
  {s \in Socket : handshake[s].expected /\ Elapsed(handshake[s].since)}

\* Mutant of StaleSince: silence before the session counts as silence.
LastActivityOnly(e, last) == last

\* _stale_since: silence is counted from the last activity, and never from
\* before the expectation began.
StaleSince(e, last) ==
  IF last # None /\ (e.since = None \/ e.since <= last) THEN last ELSE e.since

SilentSince == [s \in Socket |-> StaleSince(expectation[s], activity[s])]

\* Mutant of Silent: any activity in the process answers for every socket.
SilentUnlessAnythingSpeaks ==
  {s \in Socket : /\ expectation[s].expected
                  /\ SilentSince[s] # None
                  /\ Elapsed(SilentSince[s])
                  /\ heard # None => Elapsed(heard)}

\* _judged_names and _silent_socket: a socket is judged once it has spoken or
\* is expected since a stated moment, and one's talk does not cover another's
\* silence.
Silent ==
  {s \in Socket : /\ expectation[s].expected
                  /\ SilentSince[s] # None
                  /\ Elapsed(SilentSince[s])}

AllSilent ==
  heard # None /\ feed.expected /\ Elapsed(StaleSince(feed, heard))

NoHeartbeat == HeartbeatArmed /\ Elapsed(beat)

Answer(rule, s, reconnected) ==
  verdict' = [rule |-> rule, socket |-> s, reconnected |-> reconnected]

\* Mutant of ClearedBy: a close reported once is gone, down or not.
ClearAnyway(s) == TRUE

\* Reporting a close retires it when its socket is already back.
ClearedBy(s) == reopened[s]

\* The close branch marks the close observed and retires it once reopened.
EvaluateClose(s) ==
  /\ s \in First(HeldCloses, closed)
  /\ Answer("closed", s, reopened[s])
  /\ \/ /\ ClearedBy(s)
        /\ closed' = [closed EXCEPT ![s] = None]
        /\ observed' = [observed EXCEPT ![s] = FALSE]
        /\ reopened' = [reopened EXCEPT ![s] = FALSE]
     \/ /\ ~ClearedBy(s)
        /\ observed' = [observed EXCEPT ![s] = TRUE]
        /\ UNCHANGED <<closed, reopened>>
  /\ unreported' = [unreported EXCEPT ![s] = FALSE]
  /\ UNCHANGED <<now, activity, heard, expectations, beat, quiet, unconfirmed,
                 up>>

\* The branches that only answer.
EvaluateRest ==
  /\ HeldCloses = {}
  /\ \/ \E s \in First(Unconfirmed, [t \in Socket |-> handshake[t].since]) :
          Answer("unconfirmed", s, FALSE)
     \/ /\ Unconfirmed = {}
        /\ \/ \E s \in First(Silent, SilentSince) : Answer("stale", s, FALSE)
           \/ /\ Silent = {}
              /\ \/ AllSilent /\ Answer("stale", None, FALSE)
                 \/ /\ ~AllSilent
                    /\ \/ NoHeartbeat /\ Answer("heartbeat", None, FALSE)
                       \/ ~NoHeartbeat /\ verdict' = Healthy
  /\ UNCHANGED <<now, closes, activity, heard, expectations, beat, history>>

Evaluate == EvaluateRest \/ \E s \in Socket : EvaluateClose(s)

Clock ==
  /\ now < MaxTime
  /\ now' = now + 1
  /\ UNCHANGED <<closes, activity, heard, expectations, beat, verdict, history>>

\* What the owner of a socket may tell the watchdog about it.
Report(s) == \/ Message(s) \/ StreamOpen(s) \/ StreamClosed(s)
             \/ ExpectFeed(s) \/ StopExpectingFeed(s)
             \/ ExpectHandshake(s) \/ StopExpectingHandshake(s)

Next == \/ \E s \in Socket : Report(s)
        \/ Poll \/ Heartbeat
        \/ ExpectAnyFeed \/ StopExpectingAnyFeed
        \/ Evaluate
        \/ Clock

Spec == Init /\ [][Next]_vars

-----------------------------------------------------------------------------
(* Properties.                                                             *)

\* A close is held until an evaluation reported it: neither a reopen within
\* one tick, nor another socket's close or open, nor a change of what is
\* expected drops it.
CloseHeldUntilReported == \A s \in Socket : unreported[s] => closed[s] # None

\* One close, one halt: an evaluation reports a close again only while its
\* socket is still down, and says "has since reconnected" only of a socket
\* that is up.
ReportedOnce ==
  [][Evaluate /\ verdict'.rule = "closed"
       => LET s == verdict'.socket
          IN /\ unreported[s] \/ ~up[s]
             /\ verdict'.reconnected => up[s]]_vars

\* The closes this class holds are a CloseLedger.
Ledger == INSTANCE CloseLedger
            WITH owed <- {s \in Socket : closed[s] # None /\ ~observed[s]},
                 down <- {s \in Socket : closed[s] # None /\ ~reopened[s]}
ClosesAreALedger == Ledger!Spec

\* No silence is missed: a healthy answer means that every expected socket
\* spoke, or began to be expected, less than a timeout ago, whatever the other
\* sockets did, and that no handshake has been owed for a timeout.
HealthyMeansHeard ==
  [][Evaluate /\ verdict' = Healthy
       => \A s \in Socket :
            /\ expectation[s].expected /\ quiet[s] # None => ~Elapsed(quiet[s])
            /\ unconfirmed[s] # None => ~Elapsed(unconfirmed[s])]_vars

\* No silence is invented: a socket is called stale or unconfirmed only after
\* a whole timeout, counted from no earlier than the start of the expectation,
\* so a night of silence does not halt the engine at the open.
StaleMeansATimeout ==
  [][Evaluate /\ verdict'.socket # None
       => LET s == verdict'.socket
          IN /\ verdict'.rule = "stale"
                  => expectation[s].expected /\ quiet[s] # None
                       /\ Elapsed(quiet[s])
             /\ verdict'.rule = "unconfirmed"
                  => unconfirmed[s] # None /\ Elapsed(unconfirmed[s])]_vars
=============================================================================
