------------------------------ MODULE MCIngest ------------------------------
(***************************************************************************)
(* Ingest for TLC: what the broker may post.  A short call is enough for   *)
(* every branch: it opens with a side that says so, is bought back with a  *)
(* side that does not, and can be assigned away.                           *)
(***************************************************************************)
EXTENDS Ingest

Act(type, side, intent, qty, price, session, legs) ==
  [type |-> type, symbol |-> "C", side |-> side, intent |-> intent, qty |-> qty,
   price |-> price, session |-> session, legs |-> legs]

SellToOpen(price) ==
  Act("FILL", "sell_short", "sell_to_open", 1, price, None, "simple")
BuyToOpen(price) == Act("FILL", "buy", "buy_to_open", 1, price, None, "simple")
BuyToClose == Act("FILL", "buy", "buy_to_close", 1, 1, None, "simple")
SellToClose == Act("FILL", "sell", "sell_to_close", 1, 9, None, "simple")
Assigned(session) ==
  Act("OPASN", "buy", "buy_to_close", 1, session, session, "simple")
Expired == Act("OPEXP", "buy", "buy_to_close", 2, 0, None, "simple")

\* Short lots, bought back or assigned, with outages anywhere.
ShortKinds == {SellToOpen(4), SellToOpen(5), BuyToClose, Assigned(2)}

\* Long lots, whose opening side says nothing: only the order tells it, and
\* the first order rolls off the broker's answer.
LongKinds == {BuyToOpen(4), SellToClose}

On(symbol, act) == [act EXCEPT !.symbol = symbol]

\* One of everything the pass treats in its own way: two sessions, an expiry,
\* an adjusted contract, an unlisted one, a quantity of zero, an order that
\* contradicts its fill, the three outcomes of an mleg order and a cash
\* journal.
EveryKind ==
  {SellToOpen(4), Assigned(1), Assigned(2), Expired,
   On("Adj", SellToOpen(4)), On("Adj", Assigned(1)), On("Unl", SellToOpen(4)),
   [SellToOpen(4) EXCEPT !.qty = 0], [Assigned(1) EXCEPT !.qty = 0],
   [SellToOpen(4) EXCEPT !.intent = "sell_to_close"],
   [SellToOpen(4) EXCEPT !.legs = "written"],
   [BuyToClose EXCEPT !.legs = "none"],
   [BuyToClose EXCEPT !.legs = "unwritable"],
   [BuyToClose EXCEPT !.type = "JNLC"]}

AllKinds == ShortKinds \cup LongKinds \cup EveryKind

\* What a behaviour's broker posts, and how often at most.
Scenes == {[kinds |-> ShortKinds, posts |-> 3],
           [kinds |-> LongKinds, posts |-> 4],
           [kinds |-> EveryKind, posts |-> 2]}
LongShortScene ==
  {[kinds |-> ShortKinds \ {SellToOpen(5)}, posts |-> 4]}

CONSTANT Scene
VARIABLE scene

MCInit == Init /\ scene \in Scene

MCSpec ==
  /\ MCInit
  /\ [][/\ \/ Work
           \/ /\ Len(posted) < scene.posts
              /\ \E k \in scene.kinds : Post(k)
        /\ UNCHANGED scene]_<<vars, scene>>
=============================================================================
