------------------------------ MODULE MCLedger ------------------------------
(***************************************************************************)
(* The matcher's loop over every short sequence of movements, against a    *)
(* definition of first in, first out that has no queue: contract by        *)
(* contract, the k-th to be closed is the k-th that was opened.            *)
(***************************************************************************)
EXTENDS Ledger

CONSTANT MaxMovements   \* bound on the movements of the contract

VARIABLES
  verified,       \* whether the contract's deliverable is known
  movements,      \* the movements seen, in order of time
  book            \* what the matcher makes of them
vars == <<verified, movements, book>>

Trade(intent, qty, price, kind) ==
  [intent |-> intent, qty |-> qty, price |-> price, kind |-> kind]

\* Opening fills of one and two contracts, a closing fill that runs over, and
\* the events that end a contract: an expiry at zero, a settlement with and
\* without a price.
Kinds ==
  {Trade("buy_to_open", 1, 1, "fill"), Trade("buy_to_open", 2, 3, "fill"),
   Trade("buy_to_open", 1, None, "fill"), Trade("sell_to_open", 2, 4, "fill"),
   Trade("sell_to_close", 3, 2, "fill"), Trade("buy_to_close", 3, 0, "expiry"),
   Trade("sell_to_close", 2, 6, "settlement"),
   Trade("buy_to_close", 1, None, "settlement")}

Movement(k, n) == [id |-> n, at |-> n, intent |-> k.intent, qty |-> k.qty,
                   price |-> k.price, kind |-> k.kind]

Init == verified \in BOOLEAN /\ movements = <<>> /\ book = EmptyBook

Next == /\ Len(movements) < MaxMovements
        /\ \E k \in Kinds :
             LET m == Movement(k, Len(movements) + 1)
             IN /\ movements' = Append(movements, m)
                /\ book' = Match(book, m, verified)
        /\ UNCHANGED verified

Spec == Init /\ [][Next]_vars

-----------------------------------------------------------------------------
(* The reference: a signed position instead of a queue.                    *)

\* The contracts that movement m really opens or closes at position p.
Effect(p, m) ==
  CASE m.intent = "buy_to_open" /\ p >= 0 /\ m.price # None -> m.qty
    [] m.intent = "sell_to_open" /\ p <= 0 /\ m.price # None -> m.qty
    [] m.intent = "sell_to_close" /\ p > 0 -> Min({p, m.qty})
    [] m.intent = "buy_to_close" /\ p < 0 -> Min({0 - p, m.qty})
    [] OTHER -> 0

Signed(p, m) == IF m.intent \in {"buy_to_open", "buy_to_close"}
                THEN Effect(p, m) ELSE 0 - Effect(p, m)

Position[n \in Nat] ==
  IF n = 0 THEN 0
  ELSE Position[n - 1] + Signed(Position[n - 1], movements[n])

\* The contracts opened, or closed, by the first n movements.
Count(opening, n) ==
  MapThenSumSet(LAMBDA i : IF Opens(movements[i]) = opening
                           THEN Effect(Position[i - 1], movements[i]) ELSE 0,
                1..n)

\* The contracts that movement i opened and movement j closed.
Between(i, j) ==
  Cardinality({k \in (Count(TRUE, i - 1) + 1)..Count(TRUE, i) :
                 k \in (Count(FALSE, j - 1) + 1)..Count(FALSE, j)})

Books(j) == /\ movements[j].price # None
            /\ movements[j].kind = "settlement" => verified

SlicesAreInTurn ==
  {<<t.opened, t.closed, t.qty>> : t \in {book.trades[k] : k \in DOMAIN book.trades}}
    = {<<i, j, Between(i, j)>> :
         <<i, j>> \in {p \in (DOMAIN movements) \X (DOMAIN movements) :
                         Between(p[1], p[2]) > 0 /\ Books(p[2])}}

QueueIsThePosition ==
  LET p == Position[Len(movements)]
  IN /\ Total(book.queue) = IF p < 0 THEN 0 - p ELSE p
     /\ \A i \in DOMAIN book.queue : /\ book.queue[i].short <=> p < 0
                                     /\ book.queue[i].qty > 0

\* Every contract closed is booked once, against the contract opened in its
\* turn, and what is open is what was opened and not yet closed, in one
\* direction: no contract is matched twice, skipped, or matched out of order.
FirstInFirstOut == SlicesAreInTurn /\ QueueIsThePosition

Sum(S, f(_)) == MapThenSumSet(f, S)

Cash(m) == IF m.intent \in {"buy_to_open", "buy_to_close"}
           THEN 0 - m.price * m.qty ELSE m.price * m.qty
OpenValue(lot) == IF lot.short THEN 0 - lot.price * lot.qty
                  ELSE lot.price * lot.qty

\* The reconciliation of the module's docstring: when nothing was refused, the
\* realized P&L is the cash that moved plus the cost of what is still open.
MoneyAddsUp ==
  book.refused = {}
    => Sum(DOMAIN book.trades, LAMBDA k : book.trades[k].pnl)
         = Sum(DOMAIN movements, LAMBDA i : Cash(movements[i]))
             + Sum(DOMAIN book.queue, LAMBDA i : OpenValue(book.queue[i]))

\* No silent gap: the contracts of a close that no trade books are named by a
\* refusal of that close.
EveryGapIsRefused ==
  \A j \in DOMAIN movements :
    \/ \E r \in book.refused : r.id = j
    \/ Opens(movements[j])
    \/ movements[j].qty
         = Sum({k \in DOMAIN book.trades : book.trades[k].closed = j},
               LAMBDA k : book.trades[k].qty)
=============================================================================
