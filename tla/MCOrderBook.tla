----------------------------- MODULE MCOrderBook -----------------------------
(* Orders for TLC: three prices, so that an empty level can hide under a    *)
(* better one and above a worse one.                                       *)
EXTENDS OrderBook

Plain(s, t, p, q) == [side |-> s, type |-> t, price |-> p, quantity |-> q,
                      agent |-> 1, group |-> 0, short |-> FALSE]

PricesValue == 1 .. 3
\* Single and double orders that meet, hide and empty levels, and stop orders
\* that fire at once, later, or one another.
BookRequests ==
  {Plain("BUY", "LIMIT", 1, 1), Plain("BUY", "LIMIT", 2, 2), Plain("SELL", "LIMIT", 1, 1),
   Plain("SELL", "LIMIT", 3, 1), Plain("SELL", "MARKET", NoPrice, 2),
   Plain("BUY", "STOP", 2, 1), Plain("BUY", "STOP", 3, 1)}

\* Each of these at most once: a fall of the price that fires one stop order,
\* whose trade brings the price to another.
CascadeRequests ==
  {Plain("BUY", "LIMIT", p, 1) : p \in PricesValue} \cup
  {Plain("SELL", "LIMIT", 2, 2), Plain("SELL", "STOP", 2, 1), Plain("SELL", "STOP", 1, 1)}

EachOnce == \A i, j \in Received : orders[i] = orders[j] => i = j
=============================================================================
