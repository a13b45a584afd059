---------------------------- MODULE PriceTimeBook ----------------------------
(***************************************************************************)
(* What an order book promises ("price-time priority", utils/orders.py     *)
(* class OrderBook), without queues and heaps: one order at a time takes   *)
(* from the resting orders of the other side, always from the one with the *)
(* best price and among those the oldest, and goes on until it is filled   *)
(* or nothing is left that it may take.                                    *)
(***************************************************************************)
EXTENDS Integers, Sequences

CONSTANTS
  NoPrice,           \* the limit of an order that takes any price
  Limits,            \* the limits there are, NoPrice among them
  Quantities         \* the quantities there are

VARIABLES
  sides,             \* the side of each order, by age
  limits,            \* its limit
  open,              \* what is left of it
  resting,           \* the orders that may be taken from
  taker,             \* the order that is taking, 0 when none is
  trades             \* the trades so far

vars == <<sides, limits, open, resting, taker, trades>>

Orders == DOMAIN sides
Beats(p, q, s) == IF s = "BUY" THEN p > q ELSE p < q

\* May order t take from the resting order r?
MayTake(t, r) ==
  /\ sides[r] # sides[t]
  /\ limits[t] = NoPrice \/ ~Beats(limits[r], limits[t], sides[t])

Candidates(t) == {r \in resting : MayTake(t, r)}

\* A limit order takes as long as it rests itself, another one as long as it
\* wants something.  Quantities are integers: an order for nothing, or for
\* less, rests and takes like any other until it is met.
Takes(t) == IF limits[t] = NoPrice THEN open[t] > 0 ELSE t \in resting

\* Does r come before q in the book?
Precedes(r, q) ==
  \/ Beats(limits[r], limits[q], sides[r])
  \/ limits[r] = limits[q] /\ r < q

Init ==
  /\ sides = <<>> /\ limits = <<>> /\ open = <<>> /\ trades = <<>>
  /\ resting = {} /\ taker = 0

\* A limit order rests and takes at once; a market order takes; a stop order
\* does neither.
Arrive(s, limit, quantity) ==
  LET n == Len(sides) + 1
  IN  /\ taker = 0
      /\ sides' = Append(sides, s)
      /\ limits' = Append(limits, limit)
      /\ open' = Append(open, quantity)
      /\ resting' = IF limit = NoPrice THEN resting ELSE resting \cup {n}
      /\ taker' \in IF limit = NoPrice THEN {0, n} ELSE {n}
      /\ UNCHANGED trades

Take(r) ==
  LET quantity == IF open[r] < open[taker] THEN open[r] ELSE open[taker]
  IN  /\ taker # 0 /\ Takes(taker)
      /\ r \in Candidates(taker)
      /\ \A q \in Candidates(taker) \ {r} : Precedes(r, q)
      /\ open' = [open EXCEPT ![r] = @ - quantity, ![taker] = @ - quantity]
      /\ resting' = resting \ {i \in {r, taker} : open'[i] = 0}
      /\ trades' = Append(trades, [price |-> limits[r], quantity |-> quantity,
                                   buy |-> IF sides[r] = "BUY" THEN r ELSE taker,
                                   sell |-> IF sides[r] = "BUY" THEN taker ELSE r])
      /\ UNCHANGED <<sides, limits, taker>>

\* An order stops taking only when it has to; a stop order may come next.
NextTaker ==
  /\ taker # 0 => ~Takes(taker) \/ Candidates(taker) = {}
  /\ taker' \in {0} \cup {i \in Orders : limits[i] = NoPrice}
  /\ UNCHANGED <<sides, limits, open, resting, trades>>

Withdraw(i) ==
  /\ taker = 0
  /\ resting' = resting \ {i}
  /\ UNCHANGED <<sides, limits, open, taker, trades>>

Next ==
  \/ \E s \in {"BUY", "SELL"}, limit \in Limits, quantity \in Quantities : Arrive(s, limit, quantity)
  \/ \E r \in resting : Take(r)
  \/ NextTaker
  \/ \E i \in resting : Withdraw(i)

Spec == Init /\ [][Next]_vars
=============================================================================
