--------------------------- MODULE MCBookExchange ---------------------------
(* Orders for TLC. *)
EXTENDS BookExchange

Of(s, t, p, q, a, g) == [side |-> s, type |-> t, price |-> p, quantity |-> q,
                         agent |-> a, group |-> g, short |-> FALSE]

PricesValue == 1 .. 2

\* Orders of a group: one that rests while others of it fill, and what those
\* meet.
GroupRequests ==
  {Of("BUY", "MARKET", NoPrice, 1, "a", "g"), Of("BUY", "LIMIT", 1, 1, "a", "g"),
   Of("BUY", "MARKET", NoPrice, 2, "a", "g"), Of("SELL", "LIMIT", 2, 1, "b", NoGroup),
   Of("BUY", "STOP", 1, 1, "a", "g")}

\* Orders of one agent that are of no group: they meet, hide and empty levels,
\* stop orders fire at once, later, or one another, and orders for nothing or
\* for less rest in the book.
SingleRequests ==
  {Of("BUY", "LIMIT", 2, 2, "a", NoGroup), Of("SELL", "LIMIT", 1, 1, "a", NoGroup),
   Of("SELL", "LIMIT", 3, 1, "a", NoGroup), Of("SELL", "MARKET", NoPrice, 2, "a", NoGroup),
   Of("BUY", "STOP", 2, 1, "a", NoGroup), Of("BUY", "STOP", 3, 1, "a", NoGroup),
   Of("SELL", "LIMIT", 2, 0, "a", NoGroup), Of("BUY", "LIMIT", 2, -1, "a", NoGroup)}
AllRequests == GroupRequests \cup SingleRequests

\* The two kinds are not mixed; the first are followed for three calls, while
\* a subscriber comes and goes, the second for four, or three when one of them
\* is for nothing or for less.
Single(i) == orders[i].agent = "a" /\ orders[i].group = NoGroup
Unmixed ==
  \/ Len(orders) <= 3 /\ \A i \in Received : ~Single(i)
  \/ /\ now <= 2 /\ subscribed = FirstSubscribers /\ \A i \in Received : Single(i)
     /\ Len(orders) <= 3 \/ \A i \in Received : orders[i].quantity > 0
ThreePrices == 1 .. 3

ShortRequests ==
  {[Of("SELL", "LIMIT", 1, 1, "a", NoGroup) EXCEPT !.short = TRUE],
   Of("BUY", "MARKET", NoPrice, 1, "b", NoGroup), Of("BUY", "LIMIT", 1, 1, "b", NoGroup)}

\* A stop order that a later call fires when younger trades are dispatched.
LateRequests ==
  {Of("BUY", "STOP", 2, 1, "a", NoGroup), Of("BUY", "LIMIT", 1, 1, "b", NoGroup),
   Of("SELL", "LIMIT", 2, 2, "b", NoGroup), Of("BUY", "MARKET", NoPrice, 1, "b", NoGroup),
   Of("BUY", "LIMIT", 1, 1, "a", NoGroup)}

EachOnce == \A i, j \in Received : orders[i] = orders[j] => i = j
=============================================================================
