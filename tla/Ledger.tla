------------------------------- MODULE Ledger -------------------------------
(***************************************************************************)
(* The matcher of corollary/engine/ledger.py: the movements of one         *)
(* contract, oldest first, consume its open lots first in, first out.      *)
(*                                                                         *)
(* A movement is [id, at, intent, qty, price, kind]; kind is "fill",       *)
(* "expiry" (OPEXP) or "settlement" (OPEXC and OPASN).  Money is an        *)
(* integer and the contract multiplier is 1.                               *)
(***************************************************************************)
EXTENDS Integers, Sequences, SequencesExt

CONSTANT None      \* no price

Opens(m) == m.intent \in {"buy_to_open", "sell_to_open"}

\* opens_short and closes_short: the direction of the lots a movement is for.
ForShort(m) == m.intent \in {"sell_to_open", "buy_to_close"}

\* What is known of a contract after some of its movements.
EmptyBook == [queue |-> <<>>, trades |-> <<>>, deliveries |-> <<>>,
              refused |-> {}]

Refusal(rule, m) == [rule |-> rule, id |-> m.id]

Refuse(book, rule, m) ==
  [book EXCEPT !.refused = @ \cup {Refusal(rule, m)}]

\* A broker nets, so the queue holds lots of one direction only.
Conflicts(book, m) ==
  book.queue # <<>> /\ Head(book.queue).short # ForShort(m)

OpenLot(book, m) ==
  [book EXCEPT !.queue = Append(@, [at |-> m.at, price |-> m.price,
                                    qty |-> m.qty, short |-> ForShort(m)])]

Total(queue) == MapThenSumSet(LAMBDA i : queue[i].qty, DOMAIN queue)

\* Mutant of Taken: the newest lots go first.
TakenFromTheBack(queue, qty) ==
  [i \in DOMAIN queue |->
     LET after == Total([j \in 1..(Len(queue) - i) |-> queue[i + j]])
     IN Max({0, Min({queue[i].qty, qty - after})})]

\* How much of each lot a close of `qty` contracts takes, the oldest first.
Taken(queue, qty) ==
  [i \in DOMAIN queue |->
     LET before == Total(SubSeq(queue, 1, i - 1))
     IN Max({0, Min({queue[i].qty, qty - before})})]

\* Mutant of Pnl: a short is booked like a long.
LongPnl(lot, price) == price - lot.price

Pnl(lot, price) == IF lot.short THEN lot.price - price ELSE price - lot.price

\* _realize
Realize(lot, m, qty) ==
  [opened |-> lot.at, closed |-> m.at, qty |-> qty, open |-> lot.price,
   close |-> m.price, pnl |-> Pnl(lot, m.price) * qty, kind |-> m.kind]

\* What a close leaves of the queue.
Rest(queue, taken) ==
  SelectSeq([i \in DOMAIN queue |-> [queue[i] EXCEPT !.qty = @ - taken[i]]],
            LAMBDA lot : lot.qty > 0)

\* Mutant of Overruns: a close that finds some lots is taken as covered.
OverrunsAnEmptyQueue(queue, m) == queue = <<>>

Overruns(queue, m) == m.qty > Total(queue)

\* A close consumes its lots even when it books nothing: the contracts are
\* gone.  A settlement also says which shares it moved.
CloseLots(book, m, verified) ==
  LET queue == book.queue
      taken == Taken(queue, m.qty)
      used == SelectSeq([i \in DOMAIN queue |-> i], LAMBDA i : taken[i] > 0)
      settles == m.kind = "settlement"
      unverified == settles /\ ~verified
  IN [queue |-> Rest(queue, taken),
      trades |-> IF unverified \/ m.price = None THEN book.trades
                 ELSE book.trades \o [k \in DOMAIN used |->
                        Realize(queue[used[k]], m, taken[used[k]])],
      deliveries |-> IF ~settles THEN book.deliveries
                     ELSE book.deliveries \o [k \in DOMAIN used |->
                            [id |-> m.id, qty |-> taken[used[k]],
                             short |-> queue[used[k]].short]],
      refused |->
        book.refused
          \cup (IF unverified THEN {Refusal("unverified_deliverable", m)}
                ELSE IF m.price = None
                     THEN {Refusal("unpriced_option_event", m)} ELSE {})
          \cup (IF Overruns(queue, m) THEN {Refusal("over_close", m)}
                ELSE {})]

\* One turn of the matcher's loop.
Match(book, m, verified) ==
  IF Conflicts(book, m) THEN Refuse(book, "direction_conflict", m)
  ELSE IF ~Opens(m) THEN CloseLots(book, m, verified)
  ELSE IF m.price = None THEN Refuse(book, "unpriced_option_event", m)
  ELSE OpenLot(book, m)

\* match_movements, for the movements of one contract in order.
MatchMovements(movements, verified) ==
  FoldLeft(LAMBDA book, m : Match(book, m, verified), EmptyBook, movements)
=============================================================================
