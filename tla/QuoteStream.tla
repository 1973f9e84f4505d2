----------------------------- MODULE QuoteStream -----------------------------
(***************************************************************************)
(* What one market-data connection is subscribed to: AlpacaQuoteStream of  *)
(* corollary/data/providers/alpaca.py, converging on the plan in force by  *)
(* difference, and the vendor that answers each frame with the whole set   *)
(* the connection carries (reconcile_acknowledgement and replan_at_cap of  *)
(* corollary/engine/stream.py).                                            *)
(*                                                                         *)
(* A plan is a set of symbols, each a unit of its own, under a cap.  Sends *)
(* wait for a lock that is granted in order, so frames leave in the order  *)
(* of the steps that queued them; the vendor reads them in order and its   *)
(* answers arrive in order.                                                *)
(***************************************************************************)
EXTENDS Naturals, FiniteSets, Sequences, SequencesExt

CONSTANTS
  Symbol,      \* the symbols a plan may ask for
  Unknown,     \* the symbols the vendor never streams
  Budget,      \* the account's cap, under which the first plan is built
  VendorCap,   \* how many symbols the vendor lets one connection carry
  MaxPending,  \* PENDING_REPLIES_MAX
  MaxAir       \* bound on the frames and answers in flight

ASSUME SymbolAssumption == IsFiniteSet(Symbol) /\ Unknown \subseteq Symbol
ASSUME BoundAssumption == {Budget, VendorCap, MaxPending, MaxAir} \subseteq Nat

VARIABLES
  subscribed,    \* _subscribed: the plan was put on this connection
  plan,          \* the symbols of the plan in force
  cap,           \* its cap
  answered,      \* _acknowledgement is not None
  acknowledged,  \* the symbols it lists
  pending,       \* _pending_replies
  frames,        \* _unanswered_frames
  additions,     \* _unanswered_additions
  named,         \* the symbols the latest reconciliation records as refused
  sent,          \* the frames the vendor has not read
  answers,       \* its answers that have not been read
  carried,       \* what it streams on this connection
  withdrawn      \* history: what was unsubscribed on this connection

claims == <<answered, acknowledged>>
replies == <<pending, frames, additions>>
wire == <<sent, answers, carried>>
vars == <<subscribed, plan, cap, claims, replies, named, wire, withdrawn>>

Symbols == SUBSET Symbol
Frame == [add : BOOLEAN, symbols : Symbols]
\* An answer, and the symbols its frame asked for.
Answer == [over : BOOLEAN, carries : Symbols, asked : Symbols]

TypeOK ==
  /\ subscribed \in BOOLEAN
  /\ plan \in Symbols /\ cap \in 0..Budget /\ Cardinality(plan) <= cap
  /\ answered \in BOOLEAN /\ acknowledged \in Symbols
  /\ pending \in Seq(Symbols) /\ Len(pending) <= MaxPending
  /\ frames \in 0..MaxPending
  /\ additions \in Symbols
  /\ named \in Symbols
  /\ sent \in Seq(Frame) /\ answers \in Seq(Answer)
  /\ carried \in Symbols
  /\ withdrawn \in Symbols

Init ==
  /\ subscribed = FALSE
  /\ plan \in {p \in Symbols : Cardinality(p) <= Budget}
  /\ cap = Budget
  /\ answered = FALSE /\ acknowledged = {}
  /\ pending = <<>> /\ frames = 0 /\ additions = {}
  /\ named = {}
  /\ sent = <<>> /\ answers = <<>> /\ carried = {}
  /\ withdrawn = {}

-----------------------------------------------------------------------------
(* What is asked.                                                          *)

Smaller(a, b) == IF a < b THEN a ELSE b

\* The last n members of s.
Latest(s, n) == SubSeq(s, 1 + (IF Len(s) > n THEN Len(s) - n ELSE 0), Len(s))

\* _expect_replies, of the state each frame asks for.
Expecting(states, before, count) ==
  /\ pending' = Latest(before \o states, MaxPending)
  /\ frames' = Smaller(count + Len(states), MaxPending)

\* What no answer can speak of yet: the list, if it was not the first frame.
Answerable(p, count) == IF count > 0 THEN p ELSE {}

\* _subscribe: the whole plan, on a connection with `count` frames unanswered
\* and `before` on their way.
Subscribe(p, count, before) ==
  /\ plan' = p
  /\ answered' = FALSE /\ UNCHANGED acknowledged
  /\ additions' = Answerable(p, count)
  /\ subscribed' = TRUE
  /\ \/ p = {} /\ Expecting(<<>>, <<>>, count) /\ sent' = before
     \/ /\ p # {}
        /\ Expecting(<<p>>, <<>>, count)
        /\ sent' = Append(before, [add |-> TRUE, symbols |-> p])

\* A new connection: what the one before was owed is forgotten.
Handshake ==
  /\ ~subscribed
  /\ Subscribe(plan, 0, <<>>)
  /\ answers' = <<>> /\ carried' = {} /\ withdrawn' = {}
  /\ UNCHANGED <<cap, named>>

\* The connection is lost, with what was on its way.
Disconnect ==
  /\ subscribed
  /\ subscribed' = FALSE
  /\ sent' = <<>> /\ answers' = <<>> /\ carried' = {}
  /\ UNCHANGED <<plan, cap, claims, replies, named, withdrawn>>

\* _held_symbols: the state the last unanswered frame asked for, else the
\* server's last word, else the plan.
HeldSymbols == IF pending # <<>> THEN Last(pending)
               ELSE IF answered THEN acknowledged ELSE plan

\* Mutant of Outstanding: only the latest revision's additions are awaited.
LatestOnly(added) == added

\* An addition stays outstanding with those of the revisions before.
Outstanding(added) == additions \cup added

\* Mutant of Removed: what no answer has confirmed is left alone.
RemovedIfAnswered(p) == IF answered THEN plan \ p ELSE {}

\* What a revision takes off the wire.
Removed(p) == plan \ p

\* apply_plan: the difference, an unsubscribe and then a subscribe.
Revise(p) ==
  LET removed == Removed(p)
      added == p \ plan
      kept == HeldSymbols \ removed
      Each(s, x) == IF s = {} THEN <<>> ELSE <<x>>
  IN /\ p # plan /\ Cardinality(p) <= cap
     /\ plan' = p
     /\ answered' = FALSE
     /\ \/ ~subscribed /\ UNCHANGED <<replies, sent, withdrawn>>
        \/ /\ subscribed
           /\ Len(sent) + Len(answers) + 2 <= MaxAir
           /\ additions' = Outstanding(added) \cap p
           /\ Expecting(Each(removed, kept) \o Each(added, kept \cup added),
                        pending, frames)
           /\ sent' = sent \o Each(removed, [add |-> FALSE, symbols |-> removed])
                           \o Each(added, [add |-> TRUE, symbols |-> added])
           /\ withdrawn' = withdrawn \cup removed
     /\ UNCHANGED <<subscribed, cap, acknowledged, named, answers, carried>>

-----------------------------------------------------------------------------
(* The vendor, as the client's code and its tests describe it.             *)

Replies(over, asked) ==
  answers' = Append(answers, [over |-> over, carries |-> carried', asked |-> asked])

\* It reads one frame and answers it; a subscribe that would put the
\* connection over its limit changes nothing.
Read ==
  /\ sent # <<>>
  /\ LET f == Head(sent)
         wanted == carried \cup (f.symbols \ Unknown)
     IN \/ /\ f.add /\ Cardinality(wanted) <= VendorCap
           /\ carried' = wanted
           /\ Replies(FALSE, f.symbols)
        \/ /\ f.add /\ Cardinality(wanted) > VendorCap
           /\ carried' = carried
           /\ Replies(TRUE, f.symbols)
        \/ /\ ~f.add
           /\ carried' = carried \ f.symbols
           /\ Replies(FALSE, {})
  /\ sent' = Tail(sent)
  /\ UNCHANGED <<subscribed, plan, cap, claims, replies, named, withdrawn>>

-----------------------------------------------------------------------------
(* What is answered.                                                       *)

\* _unanswered_frames and _unanswered_additions once an answer that lists S
\* was read.
FramesLeft == IF frames = 0 THEN 0 ELSE frames - 1
AdditionsLeft(S) == IF FramesLeft = 0 THEN {} ELSE additions \ S

Expected(S) == pending # <<>> /\ Head(pending) = S

\* Mutant of Superseded: the answer to the last frame is skipped too.
AsExpected(S) == Expected(S)

\* _is_superseded: the state of a frame that a later one has replaced.
Superseded(S) == Expected(S) /\ Len(pending) > 1

\* _reconcile
Reconcile ==
  /\ answers # <<>> /\ ~Head(answers).over
  /\ LET S == Head(answers).carries
     IN /\ frames' = FramesLeft
        /\ additions' = AdditionsLeft(S)
        /\ pending' = IF Expected(S) THEN Tail(pending) ELSE <<>>
        /\ \/ Superseded(S) /\ UNCHANGED claims /\ named' = {}
           \/ /\ ~Superseded(S)
              /\ answered' = TRUE /\ acknowledged' = S
              /\ named' = plan \ (S \cup additions')
  /\ answers' = Tail(answers)
  /\ UNCHANGED <<subscribed, plan, cap, sent, carried, withdrawn>>

\* Mutant of CorrectedCap: a halving that does not get below one.
HalfRoundedUp(count) ==
  IF count > 0 THEN Smaller(count, cap - 1) ELSE (cap + 1) \div 2

\* _corrected_cap, strictly below the cap that was refused.
CorrectedCap(count) ==
  LET candidate == IF count > 0 THEN count ELSE cap \div 2
  IN IF cap = 0 THEN 0 ELSE Smaller(candidate, cap - 1)

\* Mutant of Kept: the cap is lowered and the plan is not made again.
KeptWhole(p) == p = plan

\* replan_at_cap: the units are taken in order until the cap is spent.
Kept(p) == Cardinality(p) = Smaller(cap', Cardinality(plan))

\* _error and _correct_cap: the plan is made again under a smaller cap, which
\* keeps some of its symbols, and the whole of it is subscribed.
CorrectCap ==
  /\ answers # <<>> /\ Head(answers).over
  /\ cap' = CorrectedCap(IF answered THEN Cardinality(acknowledged \cap plan) ELSE 0)
  /\ \E p \in SUBSET plan :
       /\ Kept(p)
       /\ Subscribe(p, FramesLeft, sent)
  /\ answers' = Tail(answers)
  /\ UNCHANGED <<named, carried, withdrawn>>

-----------------------------------------------------------------------------

Listen == Reconcile \/ CorrectCap

Next == \/ Handshake \/ Disconnect
        \/ \E p \in Symbols : Revise(p)
        \/ Read \/ Listen

Spec == Init /\ [][Next]_vars

-----------------------------------------------------------------------------
(* Properties.                                                             *)

Quiet == subscribed /\ sent = <<>> /\ answers = <<>>

\* Symbols of a subscribe whose answer has not been read.
InTheAir ==
  UNION ({f.symbols : f \in {g \in ToSet(sent) : g.add}}
         \cup {a.asked : a \in ToSet(answers)})

\* "Symbols a revision added whose frame is still owed an answer are held out
\* of the refusal record": no record names a symbol whose subscribe is
\* unanswered, unless it was unsubscribed on this connection before (an answer
\* in flight may still list it, and is taken for the answer it waits for).
NothingNewNamedTooEarly ==
  [][Reconcile => named' \cap InTheAir' \subseteq withdrawn]_vars

\* No refusal is silent: once everything is answered, each symbol of the plan
\* that the vendor does not stream is named, and the acknowledgement lists
\* what it does stream.
EveryRefusalIsNamed ==
  Quiet => /\ plan \subseteq carried \cup named
           /\ plan # {} => answered /\ acknowledged = carried

\* Revisions converge: as long as no cap was corrected, nothing beyond the plan
\* is streamed once everything is answered.  (A correction subscribes a smaller
\* plan and unsubscribes nothing.)
RevisionsConverge == Quiet /\ cap = Budget => carried \subseteq plan

-----------------------------------------------------------------------------
(* Liveness.  The vendor reads what it is sent, and the session's task reads *)
(* its answers.                                                            *)

LiveSpec == Spec /\ WF_vars(Handshake) /\ WF_vars(Read) /\ WF_vars(Listen)

\* A cap correction cannot loop: when the plan is left alone and the connection
\* holds, everything sent is answered for good.
CorrectionsEnd ==
  <>[][Handshake \/ Read \/ Listen]_vars => <>[]Quiet
=============================================================================
