--------------------------- MODULE WatchdogProofs ---------------------------
(***************************************************************************)
(* What Watchdog promises for every set of sockets and every timeout.      *)
(***************************************************************************)
EXTENDS Watchdog, TLAPS

USE DEF closes, expectations, history

\* A close still to be reported is held and unobserved; one that was reported
\* is held only while its socket is down.
ClosesInv ==
  \A s \in Socket :
    /\ closed[s] = None => ~observed[s] /\ ~reopened[s]
    /\ observed[s] => ~reopened[s]
    /\ unreported[s] <=> closed[s] # None /\ ~observed[s]
    /\ closed[s] # None => (up[s] <=> reopened[s])

\* No timestamp the staleness is measured by lies ahead of the clock.
PastInv ==
  \A s \in Socket :
    /\ activity[s] # None => activity[s] <= now
    /\ expectation[s].since # None => expectation[s].since <= now

\* The two fields the staleness is measured by and the history agree.
ExpectInv ==
  \A s \in Socket :
    /\ expectation[s].since # None => expectation[s].expected
    /\ expectation[s].expected
         => quiet[s] = StaleSince(expectation[s], activity[s])
    /\ handshake[s].expected <=> unconfirmed[s] # None
    /\ handshake[s].since = unconfirmed[s]

IInv == TypeOK /\ ClosesInv /\ PastInv /\ ExpectInv

-----------------------------------------------------------------------------
(* The inductive invariant.                                                *)

\* None is no point in time.
LEMMA NoneIsNoTime == None \notin Time
  BY NoneAssumption, TimeAssumption DEF Time

\* The three expectations the code builds are of their type, and a call for
\* what is expected leaves it expected.
LEMMA ExpectationTypes ==
  ASSUME TypeOK
  PROVE  /\ ByDefault \in Expectation
         /\ NotExpected \in Expectation
         /\ \A e \in Expectation :
              /\ Expect(e, ExpectedNow) \in Expectation
              /\ Expect(e, ExpectedNow).expected
              /\ Expect(e, ExpectedNow).since = IF e.expected /\ e.since # None
                                   THEN e.since ELSE now
  BY DEF TypeOK, ByDefault, NotExpected, Expectation, Expect, ExpectedNow,
         Moment

\* Every answer is a verdict.
LEMMA AnswerTypes ==
  ASSUME NEW rule \in Fault, NEW s \in Socket \cup {None},
         NEW reconnected \in BOOLEAN, Answer(rule, s, reconnected)
  PROVE  verdict' \in Verdict
  BY DEF Answer, Verdict

LEMMA InitIInv == Init => IInv
<1> SUFFICES ASSUME Init PROVE IInv
  OBVIOUS
<1>1. TypeOK
  <2>1. 0 \in Time
    BY TimeAssumption DEF Time
  <2>2. ByDefault \in Expectation /\ NotExpected \in Expectation
    BY DEF ByDefault, NotExpected, Expectation, Moment
  <2>3. Healthy \in Verdict
    BY DEF Healthy, Verdict
  <2> QED BY <2>1, <2>2, <2>3 DEF Init, TypeOK, Moment
<1>2. ClosesInv
  BY DEF Init, ClosesInv
<1>3. PastInv
  BY DEF Init, PastInv, ByDefault
<1>4. ExpectInv
  BY DEF Init, ExpectInv, ByDefault, NotExpected, StaleSince
<1> QED BY <1>1, <1>2, <1>3, <1>4 DEF IInv

LEMMA NextTypeOK == IInv /\ [Next]_vars => TypeOK'
<1> SUFFICES ASSUME TypeOK, [Next]_vars PROVE TypeOK'
  BY DEF IInv
<1> USE DEF TypeOK, Moment
<1>1. ASSUME NEW s \in Socket, Message(s) PROVE TypeOK'
  BY <1>1 DEF Message, Activity
<1>2. ASSUME NEW s \in Socket, StreamOpen(s) PROVE TypeOK'
  BY <1>2 DEF StreamOpen, Activity
<1>3. ASSUME NEW s \in Socket, StreamClosed(s) PROVE TypeOK'
  BY <1>3 DEF StreamClosed, RecordClose, ReopenedAfterClose
<1>4. ASSUME NEW s \in Socket, ExpectFeed(s) PROVE TypeOK'
  BY <1>4, ExpectationTypes DEF ExpectFeed
<1>5. ASSUME NEW s \in Socket, StopExpectingFeed(s) PROVE TypeOK'
  BY <1>5, ExpectationTypes DEF StopExpectingFeed
<1>6. ASSUME NEW s \in Socket, ExpectHandshake(s) PROVE TypeOK'
  BY <1>6, ExpectationTypes DEF ExpectHandshake
<1>7. ASSUME NEW s \in Socket, StopExpectingHandshake(s) PROVE TypeOK'
  BY <1>7, ExpectationTypes DEF StopExpectingHandshake
<1>8. CASE Poll \/ Heartbeat
  BY <1>8 DEF Poll, Heartbeat
<1>9. CASE ExpectAnyFeed \/ StopExpectingAnyFeed
  BY <1>9, ExpectationTypes DEF ExpectAnyFeed, StopExpectingAnyFeed
<1>10. CASE EvaluateRest
  <2>1. verdict' \in Verdict
    <3>1. CASE \E s \in Socket : Answer("unconfirmed", s, FALSE)
                                   \/ Answer("stale", s, FALSE)
      BY <3>1, AnswerTypes DEF Fault
    <3>2. CASE Answer("stale", None, FALSE) \/ Answer("heartbeat", None, FALSE)
      BY <3>2, AnswerTypes DEF Fault
    <3>3. CASE verdict' = Healthy
      BY <3>3 DEF Healthy, Verdict
    <3> QED BY <1>10, <3>1, <3>2, <3>3 DEF EvaluateRest, First, Unconfirmed,
                                           Silent
  <2> QED BY <1>10, <2>1 DEF EvaluateRest
<1>11. ASSUME NEW s \in Socket, EvaluateClose(s) PROVE TypeOK'
  <2>1. verdict' \in Verdict
    BY <1>11, AnswerTypes DEF EvaluateClose, Fault
  <2> QED BY <1>11, <2>1 DEF EvaluateClose
<1>12. CASE Clock
  BY <1>12, TimeAssumption DEF Clock, Time
<1>13. CASE UNCHANGED vars
  BY <1>13 DEF vars
<1> QED BY <1>1, <1>2, <1>3, <1>4, <1>5, <1>6, <1>7, <1>8, <1>9, <1>10,
           <1>11, <1>12, <1>13 DEF Next, Report, Evaluate

\* The steps that touch no close, and what they leave alone.
LEMMA OtherStepsKeepCloses ==
  ASSUME [Next]_vars,
         \A s \in Socket : ~StreamOpen(s) /\ ~StreamClosed(s)
                             /\ ~EvaluateClose(s)
  PROVE  UNCHANGED <<closes, unreported, up>>
<1>1. ASSUME NEW s \in Socket,
             \/ Message(s) \/ ExpectFeed(s) \/ StopExpectingFeed(s)
             \/ ExpectHandshake(s) \/ StopExpectingHandshake(s)
      PROVE  UNCHANGED <<closes, unreported, up>>
  BY <1>1 DEF Message, Activity, ExpectFeed, StopExpectingFeed,
              ExpectHandshake, StopExpectingHandshake
<1>2. CASE Poll \/ Heartbeat \/ ExpectAnyFeed \/ StopExpectingAnyFeed
             \/ EvaluateRest \/ Clock
  BY <1>2 DEF Poll, Heartbeat, ExpectAnyFeed, StopExpectingAnyFeed,
              EvaluateRest, Clock
<1>3. CASE UNCHANGED vars
  BY <1>3 DEF vars
<1> QED BY <1>1, <1>2, <1>3 DEF Next, Report, Evaluate

LEMMA NextClosesInv == IInv /\ [Next]_vars => ClosesInv'
<1> SUFFICES ASSUME TypeOK, ClosesInv, [Next]_vars PROVE ClosesInv'
  BY DEF IInv
<1> USE DEF ClosesInv
<1>1. ASSUME NEW s \in Socket, StreamOpen(s) PROVE ClosesInv'
  BY <1>1 DEF StreamOpen, HeldAcrossReopen, TypeOK
<1>2. ASSUME NEW s \in Socket, StreamClosed(s) PROVE ClosesInv'
  <2>1. closed'[s] # None
    BY <1>2, NoneIsNoTime DEF StreamClosed, RecordClose, TypeOK
  <2> QED BY <1>2, <2>1 DEF StreamClosed, RecordClose, ReopenedAfterClose, TypeOK
<1>3. ASSUME NEW s \in Socket, EvaluateClose(s) PROVE ClosesInv'
  <2>1. closed[s] # None
    BY <1>3 DEF EvaluateClose, First, HeldCloses
  <2> QED BY <1>3, <2>1 DEF EvaluateClose, ClearedBy, TypeOK
<1>4. CASE \A s \in Socket : ~StreamOpen(s) /\ ~StreamClosed(s)
                               /\ ~EvaluateClose(s)
  BY <1>4, OtherStepsKeepCloses
<1> QED BY <1>1, <1>2, <1>3, <1>4

\* What a socket owes is touched only by what is said of that socket.
LEMMA OtherStepsKeepExpectations ==
  ASSUME [Next]_vars, ~Clock,
         \A s \in Socket :
           /\ ~Message(s) /\ ~StreamOpen(s)
           /\ ~ExpectFeed(s) /\ ~StopExpectingFeed(s)
           /\ ~ExpectHandshake(s) /\ ~StopExpectingHandshake(s)
  PROVE  UNCHANGED <<now, activity, expectation, handshake, quiet, unconfirmed>>
<1>1. ASSUME NEW s \in Socket, StreamClosed(s) \/ EvaluateClose(s)
      PROVE  UNCHANGED <<now, activity, expectation, handshake, quiet,
                         unconfirmed>>
  BY <1>1 DEF StreamClosed, RecordClose, EvaluateClose
<1>2. CASE Poll \/ Heartbeat \/ ExpectAnyFeed \/ StopExpectingAnyFeed
             \/ EvaluateRest
  BY <1>2 DEF Poll, Heartbeat, ExpectAnyFeed, StopExpectingAnyFeed,
              EvaluateRest
<1>3. CASE UNCHANGED vars
  BY <1>3 DEF vars
<1> QED BY <1>1, <1>2, <1>3 DEF Next, Report, Evaluate

LEMMA NextPastInv == IInv /\ [Next]_vars => PastInv'
<1> SUFFICES ASSUME TypeOK, PastInv, [Next]_vars PROVE PastInv'
  BY DEF IInv
<1> USE DEF PastInv
<1>0. now \in Int
  BY TimeAssumption DEF TypeOK, Time
<1>1. ASSUME NEW s \in Socket, Message(s) \/ StreamOpen(s) PROVE PastInv'
  BY <1>0, <1>1 DEF Message, StreamOpen, Activity, TypeOK
<1>2. ASSUME NEW s \in Socket, ExpectFeed(s) PROVE PastInv'
  BY <1>0, <1>2, ExpectationTypes DEF ExpectFeed, TypeOK
<1>3. ASSUME NEW s \in Socket, StopExpectingFeed(s) PROVE PastInv'
  BY <1>3 DEF StopExpectingFeed, NotExpected, TypeOK
<1>4. ASSUME NEW s \in Socket, ExpectHandshake(s) \/ StopExpectingHandshake(s)
      PROVE  PastInv'
  BY <1>4 DEF ExpectHandshake, StopExpectingHandshake
<1>5. CASE Clock
  <2>1. \A s \in Socket : /\ activity[s] \in Time \cup {None}
                          /\ expectation[s].since \in Time \cup {None}
    BY DEF TypeOK, Moment, Expectation
  <2> QED BY <1>5, <2>1, TimeAssumption DEF Clock, Time, TypeOK
<1>6. CASE /\ ~Clock
           /\ \A s \in Socket :
                /\ ~Message(s) /\ ~StreamOpen(s)
                /\ ~ExpectFeed(s) /\ ~StopExpectingFeed(s)
                /\ ~ExpectHandshake(s) /\ ~StopExpectingHandshake(s)
  BY <1>6, OtherStepsKeepExpectations
<1> QED BY <1>1, <1>2, <1>3, <1>4, <1>5, <1>6

LEMMA NextExpectInv == IInv /\ [Next]_vars => ExpectInv'
<1> SUFFICES ASSUME TypeOK, PastInv, ExpectInv, [Next]_vars PROVE ExpectInv'
  BY DEF IInv
<1> USE DEF ExpectInv
<1>0. now \in Int /\ now # None
  BY TimeAssumption, NoneIsNoTime DEF TypeOK, Time
<1>1. ASSUME NEW s \in Socket, Message(s) \/ StreamOpen(s) PROVE ExpectInv'
  <2>1. /\ activity' = [activity EXCEPT ![s] = now]
        /\ quiet' = [quiet EXCEPT ![s] = now]
        /\ UNCHANGED <<expectation, handshake, unconfirmed>>
    BY <1>1 DEF Message, StreamOpen, Activity
  <2>2. StaleSince(expectation[s], now) = now
    BY <1>0 DEF StaleSince, PastInv
  <2> QED BY <2>1, <2>2 DEF TypeOK, StaleSince
<1>2. ASSUME NEW s \in Socket, ExpectFeed(s) PROVE ExpectInv'
  <2> DEFINE e == Expect(expectation[s], ExpectedNow)
  <2>1. /\ expectation' = [expectation EXCEPT ![s] = e]
        /\ quiet' = IF expectation[s].since # None THEN quiet
                    ELSE [quiet EXCEPT ![s] = now]
        /\ UNCHANGED <<activity, handshake, unconfirmed>>
    BY <1>2 DEF ExpectFeed
  <2>2. CASE expectation[s].since # None
    <3>1. e = expectation[s]
      BY <2>2 DEF Expect
    <3> QED BY <2>1, <2>2, <3>1 DEF TypeOK, StaleSince
  <2>3. CASE expectation[s].since = None
    <3>1. e.expected /\ e.since = now
      BY <2>3, ExpectationTypes DEF TypeOK
    <3>2. StaleSince(e, activity[s]) = now
      <4>1. activity[s] # None => activity[s] \in Int /\ activity[s] <= now
        BY TimeAssumption DEF PastInv, TypeOK, Moment, Time
      <4> QED BY <1>0, <3>1, <4>1 DEF StaleSince
    <3> HIDE DEF e
    <3> QED BY <1>0, <2>1, <2>3, <3>1, <3>2 DEF TypeOK, StaleSince
  <2> QED BY <2>2, <2>3
<1>3. ASSUME NEW s \in Socket, StopExpectingFeed(s) PROVE ExpectInv'
  BY <1>3 DEF StopExpectingFeed, NotExpected, TypeOK, StaleSince
<1>4. ASSUME NEW s \in Socket, ExpectHandshake(s) PROVE ExpectInv'
  BY <1>0, <1>4, ExpectationTypes DEF ExpectHandshake, TypeOK, StaleSince
<1>5. ASSUME NEW s \in Socket, StopExpectingHandshake(s) PROVE ExpectInv'
  BY <1>5 DEF StopExpectingHandshake, NotExpected, TypeOK, StaleSince
<1>6. CASE Clock
  BY <1>6 DEF Clock, StaleSince
<1>7. CASE /\ ~Clock
           /\ \A s \in Socket :
                /\ ~Message(s) /\ ~StreamOpen(s)
                /\ ~ExpectFeed(s) /\ ~StopExpectingFeed(s)
                /\ ~ExpectHandshake(s) /\ ~StopExpectingHandshake(s)
  BY <1>7, OtherStepsKeepExpectations DEF StaleSince
<1> QED BY <1>1, <1>2, <1>3, <1>4, <1>5, <1>6, <1>7

\* The invariant the theorems below rest on.
THEOREM Inductive == Spec => []IInv
<1>1. IInv /\ [Next]_vars => IInv'
  BY NextTypeOK, NextClosesInv, NextPastInv, NextExpectInv DEF IInv
<1> QED BY <1>1, InitIInv, PTL DEF Spec

-----------------------------------------------------------------------------
(* The theorems.                                                           *)

\* Every field of the watchdog keeps its type.
THEOREM TypeCorrect == Spec => []TypeOK
<1>1. IInv => TypeOK
  BY DEF IInv
<1> QED BY <1>1, Inductive, PTL

\* No close is dropped before an evaluation has reported it.
THEOREM ClosesAreHeld == Spec => []CloseHeldUntilReported
<1>1. IInv => CloseHeldUntilReported
  BY DEF IInv, ClosesInv, CloseHeldUntilReported
<1> QED BY <1>1, Inductive, PTL

\* The held closes of the watchdog are a CloseLedger: every report it makes is
\* of a close still owed one or of a socket still down.
THEOREM RefinesTheLedger == Spec => ClosesAreALedger
<1>1. Init => Ledger!Init
  BY DEF Init, Ledger!Init
<1>2. ASSUME IInv, [Next]_vars PROVE [Ledger!Next]_Ledger!vars
  <2> USE DEF Ledger!Next, Ledger!vars, Ledger!Close, Ledger!Open,
              Ledger!Report
  <2>0. TypeOK /\ ClosesInv
    BY <1>2 DEF IInv
  <2>1. ASSUME NEW s \in Socket, StreamOpen(s) PROVE Ledger!Open(s)
    BY <2>0, <2>1 DEF StreamOpen, HeldAcrossReopen, TypeOK, ClosesInv
  <2>2. ASSUME NEW s \in Socket, StreamClosed(s) PROVE Ledger!Close(s)
    <3>1. now # None
      BY <2>0, NoneIsNoTime DEF TypeOK
    <3> QED BY <2>0, <2>2, <3>1 DEF StreamClosed, RecordClose, ReopenedAfterClose, TypeOK
  <2>3. ASSUME NEW s \in Socket, EvaluateClose(s) PROVE Ledger!Report(s)
    <3>1. closed[s] # None
      BY <2>3 DEF EvaluateClose, First, HeldCloses
    <3> QED BY <2>0, <2>3, <3>1 DEF EvaluateClose, ClearedBy, TypeOK, ClosesInv
  <2>4. CASE \A s \in Socket : ~StreamOpen(s) /\ ~StreamClosed(s)
                                 /\ ~EvaluateClose(s)
    BY <1>2, <2>4, OtherStepsKeepCloses
  <2> QED BY <2>1, <2>2, <2>3, <2>4
<1> QED BY <1>1, <1>2, Inductive, PTL DEF Spec, ClosesAreALedger, Ledger!Spec

\* A close is reported again only while its socket is down, and "has since
\* reconnected" is said only of a socket that is up.
THEOREM OneReportPerClose == Spec => ReportedOnce
<1>1. ASSUME IInv, Evaluate, verdict'.rule = "closed"
      PROVE  LET s == verdict'.socket
             IN /\ unreported[s] \/ ~up[s]
                /\ verdict'.reconnected => up[s]
  <2>1. CASE EvaluateRest
    <3>1. CASE \E t \in Socket \cup {None} :
                 \/ Answer("unconfirmed", t, FALSE) \/ Answer("stale", t, FALSE)
                 \/ Answer("heartbeat", t, FALSE)
      BY <1>1, <3>1 DEF Answer
    <3>2. CASE verdict' = Healthy
      BY <1>1, <3>2 DEF Healthy
    <3> QED BY <2>1, <3>1, <3>2 DEF EvaluateRest, First, Unconfirmed, Silent
  <2>2. ASSUME NEW s \in Socket, EvaluateClose(s)
        PROVE  LET t == verdict'.socket
               IN /\ unreported[t] \/ ~up[t]
                  /\ verdict'.reconnected => up[t]
    <3>1. closed[s] # None
      BY <2>2 DEF EvaluateClose, First, HeldCloses
    <3>2. verdict'.socket = s /\ verdict'.reconnected = reopened[s]
      BY <2>2 DEF EvaluateClose, Answer
    <3> QED BY <1>1, <3>1, <3>2 DEF IInv, ClosesInv, TypeOK
  <2> QED BY <1>1, <2>1, <2>2 DEF Evaluate
<1>2. IInv /\ [Next]_vars
        => [Evaluate /\ verdict'.rule = "closed"
              => LET s == verdict'.socket
                 IN /\ unreported[s] \/ ~up[s]
                    /\ verdict'.reconnected => up[s]]_vars
  BY <1>1
<1> QED BY <1>2, Inductive, PTL DEF Spec, ReportedOnce

\* A healthy answer: no expected socket has been silent for a timeout.
THEOREM NoSilenceMissed == Spec => HealthyMeansHeard
<1>1. ASSUME IInv, Evaluate, verdict' = Healthy, NEW s \in Socket
      PROVE  /\ expectation[s].expected /\ quiet[s] # None => ~Elapsed(quiet[s])
             /\ unconfirmed[s] # None => ~Elapsed(unconfirmed[s])
  <2>1. Unconfirmed = {} /\ Silent = {}
    BY <1>1 DEF Evaluate, EvaluateClose, EvaluateRest, Answer, Healthy
  <2>2. expectation[s].expected => quiet[s] = SilentSince[s]
    BY <1>1 DEF IInv, ExpectInv, SilentSince
  <2>3. unconfirmed[s] # None
          => handshake[s].expected /\ handshake[s].since = unconfirmed[s]
    BY <1>1 DEF IInv, ExpectInv
  <2> QED BY <2>1, <2>2, <2>3 DEF Unconfirmed, Silent
<1>2. IInv /\ [Next]_vars
        => [Evaluate /\ verdict' = Healthy
              => \A s \in Socket :
                   /\ expectation[s].expected /\ quiet[s] # None
                        => ~Elapsed(quiet[s])
                   /\ unconfirmed[s] # None => ~Elapsed(unconfirmed[s])]_vars
  BY <1>1
<1> QED BY <1>2, Inductive, PTL DEF Spec, HealthyMeansHeard

\* A socket is called stale or unconfirmed only after a whole timeout.
THEOREM NoSilenceInvented == Spec => StaleMeansATimeout
<1> DEFINE Late(s) ==
      /\ verdict'.rule = "stale"
           => expectation[s].expected /\ quiet[s] # None /\ Elapsed(quiet[s])
      /\ verdict'.rule = "unconfirmed"
           => unconfirmed[s] # None /\ Elapsed(unconfirmed[s])
<1>1. ASSUME IInv, Evaluate, verdict'.socket # None
      PROVE  Late(verdict'.socket)
  <2>1. ASSUME NEW s \in Socket, EvaluateClose(s) PROVE Late(verdict'.socket)
    BY <2>1 DEF EvaluateClose, Answer
  <2>2. ASSUME NEW s \in Unconfirmed, Answer("unconfirmed", s, FALSE)
        PROVE  Late(verdict'.socket)
    BY <1>1, <2>2 DEF Unconfirmed, Answer, IInv, ExpectInv
  <2>3. ASSUME NEW s \in Silent, Answer("stale", s, FALSE)
        PROVE  Late(verdict'.socket)
    BY <1>1, <2>3 DEF Silent, SilentSince, Answer, IInv, ExpectInv
  <2>4. CASE \/ Answer("stale", None, FALSE)
             \/ Answer("heartbeat", None, FALSE)
             \/ verdict' = Healthy
    BY <1>1, <2>4 DEF Answer, Healthy
  <2> QED BY <1>1, <2>1, <2>2, <2>3, <2>4 DEF Evaluate, EvaluateRest, First
<1>2. IInv /\ [Next]_vars
        => [Evaluate /\ verdict'.socket # None
              => Late(verdict'.socket)]_vars
  BY <1>1
<1> QED BY <1>2, Inductive, PTL DEF Spec, StaleMeansATimeout
=============================================================================
