------------------------------- MODULE Sockets -------------------------------
(***************************************************************************)
(* The sockets a session holds open: SocketSupervisor of                   *)
(* corollary/engine/sockets.py, the VendorStream tasks it launches         *)
(* (corollary/sockets.py and its two subclasses), and the Watchdog they    *)
(* all report to.                                                          *)
(*                                                                         *)
(* Everything runs on one event loop, so what the code does between two    *)
(* awaits is one step.  A socket is connecting, opening (connected, not    *)
(* signed in), open, in backoff, or its task has ended; the supervisor is  *)
(* asleep, working on a tick (it awaits the broker, or a re-plan), or      *)
(* releasing what it held.  The two market-data sockets obey one code, and *)
(* the order socket is the one whose handshake is expected.                *)
(***************************************************************************)
EXTENDS Integers

CONSTANTS
  Socket, Timeout, MaxTime, None,  \* as in Watchdog
  TradeSocket,  \* TRADE_SOCKET, the order socket
  MaxWork       \* bound on how long one tick of the supervisor may take

ASSUME TradeAssumption == TradeSocket \in Socket
ASSUME WorkAssumption == MaxWork \in Nat

VARIABLES
  now, closed, observed, reopened, activity, heard, expectation, feed,
  handshake, beat, verdict, quiet, unconfirmed, unreported, up,  \* the watchdog
  session,     \* whether the exchange is in session
  stage,       \* where each socket's task is; "none" when there is none
  listening,   \* the order socket's flag: its stream was acknowledged
  held,        \* _streams: the sockets the supervisor holds
  planned,     \* _plans is not None: the broker's book has been read
  plan,        \* the market-data sockets the engine subscribes for that book
  supervisor,  \* what the supervisor's task is doing
  at,          \* when the tick under way began
  dead         \* history: when a tick first found a held socket's task ended

Watch == INSTANCE Watchdog WITH HeartbeatArmed <- FALSE

watchdog == <<now, closed, observed, reopened, activity, heard, expectation,
              feed, handshake, beat, verdict, quiet, unconfirmed, unreported, up>>
streams == <<stage, listening>>
supervision == <<held, planned, plan, supervisor, at, dead>>
vars == <<watchdog, session, streams, supervision>>

QuoteSocket == Socket \ {TradeSocket}
Stage == {"none", "connecting", "opening", "open", "backoff", "ended"}
Work == {"asleep", "working", "releasing", "shutting", "gone"}

\* begin_close was called on exactly the streams the supervisor has dropped.
Closing == {s \in Socket : stage[s] # "none"} \ held

Connected(s) == stage[s] \in {"opening", "open"}

TypeOK ==
  /\ Watch!TypeOK
  /\ session \in BOOLEAN
  /\ stage \in [Socket -> Stage]
  /\ listening \in BOOLEAN
  /\ held \subseteq {s \in Socket : stage[s] # "none"}
  /\ planned \in BOOLEAN
  /\ plan \in SUBSET QuoteSocket /\ (plan # {} => planned)
  /\ supervisor \in Work
  /\ at \in Watch!Time /\ at <= now
  /\ dead \in [Socket -> Watch!Moment]

Init ==
  /\ Watch!Init
  /\ session \in BOOLEAN
  /\ stage = [s \in Socket |-> "none"]
  /\ listening = FALSE
  /\ held = {}
  /\ planned = FALSE
  /\ plan = {}
  /\ supervisor = "asleep"
  /\ at = 0
  /\ dead = [s \in Socket |-> None]

-----------------------------------------------------------------------------
(* A socket's task: run, run_session and the handlers of its messages.      *)

Goes(s, next) == stage' = [stage EXCEPT ![s] = next]

\* A session begins: the order socket's says it is not listening.
Connecting(s) ==
  /\ Goes(s, "connecting")
  /\ listening' = (listening /\ s # TradeSocket)

Connect(s) ==
  /\ stage[s] = "connecting"
  /\ Goes(s, IF s \in Closing THEN "ended" ELSE "opening")
  /\ UNCHANGED <<watchdog, session, listening, supervision>>

\* A frame that changes nothing but the clock of its socket.
Receive(s) ==
  /\ Connected(s)
  /\ Watch!Message(s)
  /\ UNCHANGED <<session, streams, supervision>>

SignedIn(s) ==
  /\ stage[s] = "opening"
  /\ Watch!StreamOpen(s)
  /\ Goes(s, "open")
  /\ UNCHANGED <<session, listening, supervision>>

\* _confirm_listening: the server names the order stream.
Acknowledged(s) ==
  /\ s = TradeSocket
  /\ stage[s] = "open"
  /\ Watch!Message(s)
  /\ listening' = TRUE
  /\ UNCHANGED <<session, stage, supervision>>

\* An answer that must not be retried: the task records the close and raises,
\* and _guard lets the task end.  Market data may be refused at any time.
Refused(s) ==
  /\ Connected(s)
  /\ s = TradeSocket => stage[s] = "opening"
  /\ Watch!Activity(s)
  /\ Watch!RecordClose(s)
  /\ Goes(s, "ended")
  /\ UNCHANGED <<now, expectation, feed, handshake, beat, verdict,
                 unconfirmed, session, listening, supervision>>

\* Mutant of Ours: every close is the vendor's.
NeverOurs(s) == FALSE

\* A close that follows begin_close is attributed to this process.
Ours(s) == s \in Closing

\* SocketClosed, from the connect, the sign-in or the read.
Lost(s) ==
  /\ stage[s] = "connecting" \/ Connected(s)
  /\ \/ Ours(s) /\ Goes(s, "ended") /\ UNCHANGED watchdog
     \/ ~Ours(s) /\ Goes(s, "backoff") /\ Watch!StreamClosed(s)
  /\ UNCHANGED <<session, listening, supervision>>

\* _backoff is over, or a close is asked for while it lasts.
Retry(s) ==
  /\ stage[s] = "backoff"
  /\ \/ s \notin Closing /\ Connecting(s)
     \/ s \in Closing /\ Goes(s, "ended") /\ UNCHANGED listening
  /\ UNCHANGED <<watchdog, session, supervision>>

\* Any other exception: _guard logs it, and nobody relaunches the socket.
Dies(s) ==
  /\ stage[s] = "connecting" \/ Connected(s)
  /\ Goes(s, "ended")
  /\ UNCHANGED <<watchdog, session, listening, supervision>>

-----------------------------------------------------------------------------
(* The supervisor: one tick, and what a tick in session decides.            *)

\* _launch: sockets not held yet, of which some may fail to build.
Launch(wanted) ==
  \E built \in SUBSET (wanted \ held) :
    /\ held' = held \cup built
    /\ stage' = [s \in Socket |-> IF s \in built THEN "connecting" ELSE stage[s]]
    /\ listening' = (listening /\ TradeSocket \notin built)

\* _open, up to the await of the plan.
TickInSession ==
  /\ supervisor = "asleep" /\ session
  /\ Launch({TradeSocket})
  /\ supervisor' = "working"
  /\ at' = now
  /\ UNCHANGED <<watchdog, session, planned, plan, dead>>

Since(start) == [expected |-> TRUE, since |-> start]

\* Mutant of Expected: only a socket that is up is expected to speak.
ExpectedWhileUp(sockets) ==
  {s \in sockets : s \in held' /\ stage[s] # "ended"}

\* Mutant of Expected: every socket that is held is expected to speak.
ExpectedIfHeld(sockets) == held'

\* A market-data socket is expected while it is held and the plan subscribes it.
Expected(sockets) == sockets \cap held'

\* The handshake is owed by an order socket that is held and not listening.
ConfirmedNow == TradeSocket \in held' => listening

\* _settle_expectations and _settle_handshake, stamped when the tick began.
Settle(sockets) ==
  LET speaking == Expected(sockets)
  IN /\ expectation' =
          [s \in Socket |-> IF s \in speaking
                            THEN Watch!Expect(expectation[s], Since(at))
                            ELSE Watch!NotExpected]
     /\ quiet' = [s \in Socket |-> IF s \in speaking /\ expectation[s].since = None
                                   THEN at ELSE quiet[s]]
     /\ feed' = IF speaking = {} THEN Watch!NotExpected
                ELSE Watch!Expect(feed, Since(at))
     /\ handshake' = [handshake EXCEPT ![TradeSocket] =
                        IF ConfirmedNow THEN Watch!NotExpected
                        ELSE Watch!Expect(@, Since(at))]
     /\ unconfirmed' = [unconfirmed EXCEPT ![TradeSocket] =
                          IF ConfirmedNow THEN None
                          ELSE IF @ = None THEN at ELSE @]

\* A tick notices which of its sockets have ended.
NoteDead ==
  dead' = [s \in Socket |-> IF s \in held' /\ stage[s] = "ended"
                            THEN IF dead[s] = None THEN now ELSE dead[s]
                            ELSE None]

\* _plan answers with what the book needs, or raises; a plan that is held is
\* only revised, which does not change which sockets the engine subscribes.
Plan ==
  \/ planned /\ UNCHANGED <<planned, plan>>
  \/ ~planned /\ planned' = TRUE /\ plan' \in SUBSET QuoteSocket
  \/ ~planned /\ UNCHANGED <<planned, plan>>

\* The rest of _open.
TickSettles ==
  /\ supervisor = "working"
  /\ Plan
  /\ Launch(plan')
  /\ Settle(plan')
  /\ NoteDead
  /\ supervisor' = "asleep"
  /\ UNCHANGED <<now, closed, observed, reopened, activity, heard, beat,
                 verdict, unreported, up, session, at>>

\* Mutant of Withdraw: the handshake stays expected.
WithdrawFeeds ==
  /\ expectation' = [s \in Socket |-> Watch!NotExpected]
  /\ feed' = Watch!NotExpected
  /\ UNCHANGED <<handshake, unconfirmed>>

\* _stop takes every expectation back first.
Withdraw ==
  /\ expectation' = [s \in Socket |-> Watch!NotExpected]
  /\ feed' = Watch!NotExpected
  /\ handshake' = [handshake EXCEPT ![TradeSocket] = Watch!NotExpected]
  /\ unconfirmed' = [unconfirmed EXCEPT ![TradeSocket] = None]

\* Mutant of Drop: the streams stay in the supervisor's hands.
DropThePlan ==
  /\ UNCHANGED held
  /\ planned' = FALSE
  /\ plan' = {}

\* Then it drops every stream, each with its begin_close, and the plan.
Drop ==
  /\ held' = {}
  /\ planned' = FALSE
  /\ plan' = {}

Stop(after) ==
  /\ Withdraw
  /\ Drop
  /\ dead' = [s \in Socket |-> None]
  /\ supervisor' = after
  /\ UNCHANGED <<now, closed, observed, reopened, activity, heard, beat,
                 verdict, quiet, unreported, up, session, streams, at>>

TickOutOfSession ==
  /\ supervisor = "asleep" /\ ~session
  /\ Stop(IF held = {} THEN "asleep" ELSE "releasing")

\* Mutant of AfterRelease: a task that hangs in its connect is not cancelled.
UnlessItHangs(s) == IF stage[s] = "connecting" THEN "connecting" ELSE "none"

\* A cancelled task ends, whatever it waits for.
AfterRelease(s) == "none"

\* The streams are closed, and their tasks cancelled and awaited.
Released ==
  /\ supervisor \in {"releasing", "shutting"}
  /\ stage' = [s \in Socket |-> AfterRelease(s)]
  /\ supervisor' = IF supervisor = "shutting" THEN "gone" ELSE "asleep"
  /\ UNCHANGED <<watchdog, session, listening, held, planned, plan, at, dead>>

\* aclose: the loop is cancelled where it waits, then _stop.  A _stop that was
\* under way is cancelled with it and leaves the second one nothing to find.
Shutdown ==
  \/ supervisor \in {"asleep", "working"} /\ Stop("shutting")
  \/ supervisor = "releasing" /\ Stop("gone")

-----------------------------------------------------------------------------

Bell ==
  /\ session' = ~session
  /\ UNCHANGED <<watchdog, streams, supervision>>

\* No tick of the supervisor outlasts MaxWork.
Clock ==
  /\ supervisor = "working" => now < at + MaxWork
  /\ Watch!Clock
  /\ UNCHANGED <<session, streams, supervision>>

\* check_watchdog asks for its verdict.
Evaluate == Watch!Evaluate /\ UNCHANGED <<session, streams, supervision>>

Task(s) == \/ Connect(s) \/ Receive(s) \/ SignedIn(s) \/ Acknowledged(s)
           \/ Refused(s) \/ Lost(s) \/ Retry(s) \/ Dies(s)

Supervise == TickInSession \/ TickSettles \/ TickOutOfSession \/ Released

Next == \/ \E s \in Socket : Task(s)
        \/ Supervise \/ Shutdown
        \/ Bell \/ Clock \/ Evaluate

Spec == Init /\ [][Next]_vars

-----------------------------------------------------------------------------
(* Properties.                                                             *)

\* The nightly false halt never comes: a socket is called silent or
\* unconfirmed only while the supervisor holds it, and the silence of the whole
\* process only while it holds a market-data socket.
VerdictsAreAboutHeldSockets ==
  [][Evaluate => /\ verdict'.rule \in {"stale", "unconfirmed"}
                      => held # {} /\ verdict'.socket \in held \cup {None}
                 /\ verdict'.rule = "stale" => held \ {TradeSocket} # {}]_vars

\* "trade_updates ... its staleness is never expected, at any hour": a day
\* without fills is not a fault of the order socket.
OrderSocketIsNeverStale ==
  [][Evaluate /\ verdict'.rule = "stale" => verdict'.socket # TradeSocket]_vars

DeadForATimeout == {s \in Socket : dead[s] # None /\ Watch!Elapsed(dead[s])}

\* A socket whose task ended is left stopped and still expected, so the
\* watchdog does not call the engine healthy a timeout after a tick found it.
DeadSocketIsReported ==
  [][Evaluate /\ verdict' = Watch!Healthy => DeadForATimeout = {}]_vars

\* The same, for the sockets whose silence or handshake is still expected: an
\* order socket that was acknowledged before it died owes neither.
DeadExpectedSocketIsReported ==
  [][Evaluate /\ verdict' = Watch!Healthy
       => DeadForATimeout \subseteq {TradeSocket} /\ (DeadForATimeout # {} => listening)]_vars

Charged(s) == unreported'[s] /\ ~unreported[s]

\* "Any close from here on is ours": after begin_close the close that follows is
\* not recorded as the vendor's fault, on any of the sockets that are given up;
\* only an answer that refuses a sign-in still is.
NoCloseAfterBeginClose ==
  [][\A s \in Closing : Charged(s) => Refused(s)]_vars

\* No task is orphaned: unless the supervisor is releasing them, every task
\* belongs to a socket it holds, so a bell that rings during the release does
\* not open a second socket beside one that still runs.
NoOrphanTask == supervisor \in {"asleep", "working"} => Closing = {}

=============================================================================
