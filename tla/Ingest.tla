------------------------------- MODULE Ingest -------------------------------
(***************************************************************************)
(* IngestService of corollary/engine/ingest.py: a pass pulls the activities*)
(* after its cursor, asks for the orders, the contract terms and the       *)
(* settlement prices, rebuilds the ledger from the whole history it holds  *)
(* and reconciles four tables against it in one transaction.               *)
(*                                                                         *)
(* An activity is its index in the broker's record, and carries the number *)
(* of its own order.  The history held is the record up to the cursor.     *)
(* The broker's orders endpoint answers with the latest Window orders, and *)
(* the vendors may fail to answer at every call.  Passes never overlap.    *)
(***************************************************************************)
EXTENDS Ledger, TLC

CONSTANTS
  Kind,         \* what the broker may post: activities without their stamp
  MaxPosted,    \* bound on the activities posted
  Window,       \* ORDERS_LIMIT_MAX: how many orders one answer holds
  Unlisted,     \* contracts the contracts endpoint does not carry
  Adjusted      \* contracts whose deliverable is not their underlying

ASSUME BoundsAssumption == MaxPosted \in Nat /\ Window \in Nat

VARIABLES
  posted,       \* the broker's record
  pulled,       \* _cursor and _history: the activities held
  terms,        \* _terms: the contracts whose terms are cached
  prices,       \* _settlements: the contracts and sessions with a price
  pass,         \* how far the pass is, and what the vendors answered it
  fills,        \* table fill
  trades,       \* table realized_trade: how many rows there are of each key
  groups,       \* table mleg_group: the orders it holds
  rejections,   \* table ledger_rejection: fingerprint to activity_ids
  last          \* history: what the last committed pass knew

memory == <<pulled, terms, prices, pass>>
tables == <<fills, trades, groups, rejections>>
vars == <<posted, memory, tables, last>>

NoPass == [at |-> "idle", orders |-> {}, unanswered |-> {}]
Nothing == [pulled |-> 0, orders |-> {}, termed |-> {}, priced |-> {},
            unanswered |-> {}]

Init ==
  /\ posted = <<>>
  /\ pulled = 0 /\ terms = {} /\ prices = {} /\ pass = NoPass
  /\ fills = <<>> /\ trades = <<>> /\ groups = {} /\ rejections = <<>>
  /\ last = Nothing

-----------------------------------------------------------------------------
(* normalise_activities: the movements of the history, or the rule that    *)
(* refuses them.  `known` is what a pass knows: the history it holds, the  *)
(* orders it was told, the contracts with terms and those with a price.    *)

History(known) == 1..known.pulled

Symbols(known) ==
  {posted[i].symbol : i \in {j \in History(known) : posted[j].type # "JNLC"}}

Of(known, s) == {i \in History(known) : posted[i].symbol = s}

\* FillSide.implied_intent: "buy" opens or closes, so it decides nothing.
ImpliedIntent(side) == CASE side = "sell" -> "sell_to_close"
                         [] side = "sell_short" -> "sell_to_open"
                         [] side = "buy" -> None

JoinedIntent(known, i) == IF i \in known.orders THEN posted[i].intent ELSE None

IntentOf(known, i) ==
  IF posted[i].type # "FILL" THEN posted[i].intent
  ELSE IF JoinedIntent(known, i) # None THEN JoinedIntent(known, i)
  ELSE ImpliedIntent(posted[i].side)

\* _movement_from_fill and _movement_from_option_event: None, or the refusal.
NormaliseRule(known, i) ==
  LET a == posted[i]
      joined == JoinedIntent(known, i)
  IN CASE a.type = "JNLC" -> "not_a_ledger_activity"
       [] a.type = "FILL" /\ a.qty = 0 -> "fractional_quantity"
       [] a.type \in {"OPEXP", "OPASN"} /\ a.qty = 0 -> "missing_event_quantity"
       [] /\ a.type = "FILL" /\ a.qty # 0
          /\ joined # None /\ ImpliedIntent(a.side) \notin {None, joined}
            -> "intent_contradicts_side"
       [] a.type = "FILL" /\ a.qty # 0 /\ IntentOf(known, i) = None
            -> "unknown_intent"
       [] a.type = "OPASN" /\ a.qty # 0 /\ a.symbol \notin known.priced
            -> "unpriced_option_event"
       [] OTHER -> None

IsMovement(known, i) == NormaliseRule(known, i) = None

LotMovement(known, i) ==
  [id |-> i, at |-> posted[i].at, intent |-> IntentOf(known, i),
   qty |-> posted[i].qty,
   price |-> IF posted[i].type = "OPEXP" THEN 0 ELSE posted[i].price,
   kind |-> CASE posted[i].type = "FILL" -> "fill"
              [] posted[i].type = "OPEXP" -> "expiry"
              [] posted[i].type = "OPASN" -> "settlement"]

\* One contract's movements, oldest first; the broker's order breaks a tie.
Movements(known, s) ==
  LET ids == {i \in Of(known, s) : IsMovement(known, i)}
      ordered == SetToSortSeq(ids, LAMBDA i, j :
                   \/ posted[i].at < posted[j].at
                   \/ posted[i].at = posted[j].at /\ i < j)
  IN [k \in DOMAIN ordered |-> LotMovement(known, ordered[k])]

\* match_movements: without a multiplier the whole contract is refused.
Book(known, s) ==
  IF s \in known.termed THEN MatchMovements(Movements(known, s), s \notin Adjusted)
  ELSE [EmptyBook EXCEPT !.refused =
          {[rule |-> "unknown_multiplier", id |-> i] :
             i \in {j \in Of(known, s) : IsMovement(known, j)}}]

\* The ledger's rejections, as [rule, id] of the activity each one names.
LedgerRejections(known) ==
  {[rule |-> NormaliseRule(known, i), id |-> i] :
     i \in {j \in History(known) : ~IsMovement(known, j)}}
    \cup UNION {Book(known, s).refused : s \in Symbols(known)}

-----------------------------------------------------------------------------
(* _ensure_terms and _ensure_settlements: the refusals of the ingest.      *)

Sessions(known, s) ==
  {posted[i].session : i \in {j \in Of(known, s) : posted[j].type = "OPASN"}}

\* One price per contract: exercises in two sessions have none.
Ambiguous(known, s) == Cardinality(Sessions(known, s)) > 1

Wanted(known, s) == s \in known.termed /\ Cardinality(Sessions(known, s)) = 1

WithPrice(known, cached) ==
  {s \in Symbols(known) : /\ Wanted(known, s)
                          /\ \A day \in Sessions(known, s) : <<s, day>> \in cached}

\* The fingerprint of a refusal: what it is about, not its evidence.
OfSymbol(rule, s) == [source |-> "ingest", rule |-> rule, about |-> s]
OfOrder(rule, i) == [source |-> "ingest", rule |-> rule, about |-> i]
OfActivity(rule, i) == [source |-> "ledger", rule |-> rule, about |-> i]

\* The rule says whether the endpoint answered: an outage heals by itself.
Because(known, s, failed, unavailable) ==
  OfSymbol(IF s \in known.unanswered THEN failed ELSE unavailable, s)

SymbolRefusals(known) ==
  {Because(known, s, "contract_terms_fetch_failed", "contract_terms_unavailable") :
     s \in Symbols(known) \ known.termed}
    \cup {OfSymbol("settlement_session_ambiguous", s) :
            s \in {t \in Symbols(known) : t \in known.termed /\ Ambiguous(known, t)}}
    \cup {Because(known, s, "settlement_price_fetch_failed",
                  "settlement_price_unavailable") :
            s \in {t \in Symbols(known) : Wanted(known, t) /\ t \notin known.priced}}

OrderRefusals(known) ==
  {OfOrder("mleg_order_has_no_legs", i) :
     i \in {j \in known.orders : posted[j].legs = "none"}}
    \cup {OfOrder("mleg_leg_not_writable", i) :
            i \in {j \in known.orders : posted[j].legs = "unwritable"}}

-----------------------------------------------------------------------------
(* What the tables should hold.                                            *)

\* Mutant of ByDesignRules: an over-close is taken for a row of no interest.
OverCloseByDesign == {"not_a_ledger_activity", "over_close"}

ByDesignRules == {"not_a_ledger_activity"}

\* The rows of ledger_rejection this pass asserts, with their evidence.
DesiredRejections(known) ==
  LET stored == {r \in LedgerRejections(known) : r.rule \notin ByDesignRules}
      asserted == {OfActivity(r.rule, r.id) : r \in stored}
                    \cup SymbolRefusals(known) \cup OrderRefusals(known)
  IN [f \in asserted |->
        CASE f.source = "ledger" -> {f.about}
          [] f \in SymbolRefusals(known) -> Of(known, f.about)
          [] f \in OrderRefusals(known) -> {}]

\* Mutant of Guarded: only what the vendors refused is guarded.
GuardedByRefusals(known) == {f.about : f \in SymbolRefusals(known)}

\* The contracts this pass could not fully account for.
Guarded(known) ==
  {f.about : f \in SymbolRefusals(known)}
    \cup {posted[r.id].symbol : r \in LedgerRejections(known)}

Unbooked(known) ==
  {r.id : r \in {q \in LedgerRejections(known) : q.rule = "unverified_deliverable"}}

\* Mutant of FillIds: a fill of no contracts is written too.
EveryFill(known) ==
  {i \in History(known) : IsMovement(known, i) \/ posted[i].type = "FILL"}

\* _fill_values: a fill refused for want of an intent still has a row.
FillIds(known) ==
  {i \in History(known) :
     \/ IsMovement(known, i)
     \/ posted[i].type = "FILL" /\ posted[i].qty > 0}

DesiredFills(known) ==
  [i \in FillIds(known) |->
     [intent |-> IF IsMovement(known, i) THEN IntentOf(known, i) ELSE None,
      price |-> IF i \in Unbooked(known) THEN None
                ELSE LotMovement(known, i).price]]

\* The realized trades as a bag: two equal slices are two trades.
DesiredTrades(known) ==
  LET row(s, k) == [symbol |-> s, trade |-> Book(known, s).trades[k]]
      slices == UNION {{s} \X DOMAIN Book(known, s).trades : s \in Symbols(known)}
      keys == {row(p[1], p[2]) : p \in slices}
  IN [key \in keys |-> Cardinality({p \in slices : row(p[1], p[2]) = key})]

CountOf(bag, key) == IF key \in DOMAIN bag THEN bag[key] ELSE 0

\* How many rows of a trade are left: a guarded one is never deleted.
Reconciled(held, wanted, guarded) ==
  IF guarded THEN Max({held, wanted}) ELSE wanted

ReconciledTrades(known) ==
  LET wanted == DesiredTrades(known)
      guarded == Guarded(known)
      left(key) == Reconciled(CountOf(trades, key), CountOf(wanted, key),
                              key.symbol \in guarded)
  IN [key \in {k \in DOMAIN wanted \cup DOMAIN trades : left(k) > 0} |-> left(key)]

OrderRules == {"mleg_order_has_no_legs", "mleg_leg_not_writable"}

\* Mutant of ReExamined: no refusal is ever disproved.
NeverReExamined(known, f) == FALSE

\* _re_examined: the pass looked at everything the refusal is about.
ReExamined(known, f) ==
  /\ rejections[f] \subseteq History(known)
  /\ f.rule \in OrderRules => f.about \in known.orders
  /\ f.source = "ingest" /\ f.rule \notin OrderRules => f.about \in Symbols(known)

ReconciledRejections(known) ==
  LET desired == DesiredRejections(known)
      kept == {f \in DOMAIN rejections :
                 f \notin DOMAIN desired /\ ~ReExamined(known, f)}
  IN [f \in DOMAIN desired \cup kept |->
        IF f \in DOMAIN desired THEN desired[f] ELSE rejections[f]]

-----------------------------------------------------------------------------
(* The broker and the pass.                                                *)

Stamps == IF posted = <<>> THEN {1}
          ELSE {Last(posted).at, Last(posted).at + 1}

\* External: the broker posts an activity, at the same instant as the one
\* before it or later.
Post(k) ==
  /\ Len(posted) < MaxPosted
  /\ \E at \in Stamps : posted' = Append(posted, ("at" :> at) @@ k)
  /\ UNCHANGED <<memory, tables, last>>

\* run: activities(since_id), and the cursor moves before anything else.
Pull ==
  /\ pass.at = "idle"
  /\ pulled' = Len(posted)
  /\ pass' = [NoPass EXCEPT !.at = "pulled"]
  /\ UNCHANGED <<posted, terms, prices, tables, last>>

\* orders(status=ALL): the latest orders, whatever the history held is.
AskOrders ==
  /\ pass.at = "pulled"
  /\ pass' = [pass EXCEPT
                !.at = "ordered",
                !.orders = {i \in DOMAIN posted : i + Window > Len(posted)}]
  /\ UNCHANGED <<posted, pulled, terms, prices, tables, last>>

Knowledge ==
  [pulled |-> pulled, orders |-> pass.orders, termed |-> terms, priced |-> {},
   unanswered |-> pass.unanswered]

\* _ensure_terms: a cached contract is never asked for again.
FetchTerms ==
  /\ pass.at = "ordered"
  /\ LET missing == Symbols(Knowledge) \ terms
     IN \E down \in SUBSET missing :
          /\ terms' = terms \cup (missing \ (down \cup Unlisted))
          /\ pass' = [pass EXCEPT !.at = "termed", !.unanswered = down]
  /\ UNCHANGED <<posted, pulled, prices, tables, last>>

\* _ensure_settlements
FetchPrices ==
  /\ pass.at = "termed"
  /\ LET wanted == {s \in Symbols(Knowledge) : Wanted(Knowledge, s)}
         missing == wanted \ WithPrice(Knowledge, prices)
     IN \E down \in SUBSET missing :
          /\ prices' = prices \cup UNION {{s} \X Sessions(Knowledge, s) :
                                            s \in missing \ down}
          /\ pass' = [pass EXCEPT !.at = "priced", !.unanswered = @ \cup down]
  /\ UNCHANGED <<posted, pulled, terms, tables, last>>

Known == [Knowledge EXCEPT !.priced = WithPrice(Knowledge, prices)]

\* The transaction: _write_fills, _write_trades, _write_mleg and
\* _write_rejections.
Commit ==
  /\ pass.at = "priced"
  /\ fills' = DesiredFills(Known) @@ fills
  /\ trades' = ReconciledTrades(Known)
  /\ groups' = groups \cup {i \in pass.orders : posted[i].legs = "written"}
  /\ rejections' = ReconciledRejections(Known)
  /\ last' = Known
  /\ pass' = NoPass
  /\ UNCHANGED <<posted, pulled, terms, prices>>

\* The broker's endpoints and the database raise out of the pass; what it
\* cached stays.
Abort ==
  /\ pass.at # "idle"
  /\ pass' = NoPass
  /\ UNCHANGED <<posted, pulled, terms, prices, tables, last>>

\* The process starts again with nothing in memory.
Restart ==
  /\ pulled' = 0 /\ terms' = {} /\ prices' = {} /\ pass' = NoPass
  /\ UNCHANGED <<posted, tables, last>>

Work == \/ Pull \/ AskOrders \/ FetchTerms \/ FetchPrices
        \/ Commit \/ Abort \/ Restart

Next == Work \/ \E k \in Kind : Post(k)

Spec == Init /\ [][Next]_vars

-----------------------------------------------------------------------------
(* Properties.                                                             *)

TypeOK ==
  /\ Len(posted) <= MaxPosted /\ pulled \in 0..Len(posted)
  /\ \A s \in terms : s \notin Unlisted
  /\ pass.at \in {"idle", "pulled", "ordered", "termed", "priced"}
  /\ \A i \in DOMAIN fills :      \* ck_fill_qty
       i \in DOMAIN posted /\ posted[i].type # "JNLC" /\ posted[i].qty > 0
  /\ \A key \in DOMAIN trades : trades[key] \in Nat \ {0}
  /\ groups \subseteq DOMAIN posted
  /\ \A f \in DOMAIN rejections : rejections[f] \subseteq DOMAIN posted

\* The activities that take contracts out of the book.
Closes(i) == /\ posted[i].type # "JNLC"
             /\ posted[i].qty > 0
             /\ posted[i].intent \in {"sell_to_close", "buy_to_close"}

\* The contracts closed on a symbol at an instant, by the part of the broker's
\* record that the last pass saw ...
ClosedQty(s, at) ==
  MapThenSumSet(LAMBDA i : posted[i].qty,
                {i \in 1..last.pulled : /\ Closes(i)
                                       /\ posted[i].symbol = s
                                       /\ posted[i].at = at})

\* ... and by the rows of realized_trade.
BookedQty(bag, s, at) ==
  MapThenSumSet(LAMBDA key : bag[key] * key.trade.qty,
                {key \in DOMAIN bag : key.symbol = s /\ key.trade.closed = at})

\* The contract a stored refusal names; those of an mleg order name none.
Names(f, s) ==
  IF f.source = "ledger" THEN posted[f.about].symbol = s
  ELSE f.rule \notin OrderRules /\ f.about = s

Refused(s) == \E f \in DOMAIN rejections : Names(f, s)

\* No silent gap and no silent excess: the realized trades of a contract close
\* exactly what the broker closed, or a stored refusal names the contract.
RightOrRefused ==
  \A i \in 1..last.pulled :
    Closes(i) => \/ Refused(posted[i].symbol)
                 \/ BookedQty(trades, posted[i].symbol, posted[i].at)
                      = ClosedQty(posted[i].symbol, posted[i].at)

\* A provider outage does not erase lifetime P&L: a close whose contracts are
\* all booked stays booked through every later pass, restart and outage.
BookedStaysBooked ==
  [][\A i \in 1..last.pulled :
       LET s == posted[i].symbol
           at == posted[i].at
       IN (Closes(i) /\ BookedQty(trades, s, at) >= ClosedQty(s, at))
            => BookedQty(trades', s, at) >= ClosedQty(s, at)]_<<trades, last>>

\* What a pass would know if every vendor answered it in full.
Everything ==
  LET all == [pulled |-> Len(posted), orders |-> DOMAIN posted,
              termed |-> {}, priced |-> {}, unanswered |-> {}]
      termed == [all EXCEPT !.termed = Symbols(all) \ Unlisted]
  IN [termed EXCEPT !.priced = {s \in Symbols(all) : Wanted(termed, s)}]

\* Every outage heals: after a pass that knows everything the tables are what
\* a first ingestion of the whole record would have written, whatever rows
\* and refusals the degraded passes before it left; a contract that even then
\* is not fully accounted for may keep older fills and trades.
HealsToACleanIngest ==
  [][Commit /\ Known = Everything
       => /\ rejections' = DesiredRejections(Everything)
          /\ \A i \in DOMAIN fills' :
               IF i \in FillIds(Everything)
               THEN fills'[i] = DesiredFills(Everything)[i]
               ELSE posted[i].symbol \in Guarded(Everything)
          /\ \A key \in DOMAIN trades' \cup DOMAIN DesiredTrades(Everything) :
               key.symbol \notin Guarded(Everything)
                 => CountOf(trades', key)
                      = CountOf(DesiredTrades(Everything), key)]_vars

\* "a run that cannot state a P&L simply produces fewer trades": no contract
\* that the broker closed once is booked twice.
NoCloseBookedTwice ==
  \A key \in DOMAIN trades :
    BookedQty(trades, key.symbol, key.trade.closed)
      <= ClosedQty(key.symbol, key.trade.closed)
=============================================================================
