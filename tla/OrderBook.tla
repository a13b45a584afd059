------------------------------ MODULE OrderBook ------------------------------
(***************************************************************************)
(* The order book of one instrument (utils/orders.py): limit orders rest   *)
(* in a queue per price, the prices of a side also stand in a heap, stop   *)
(* orders wait aside.                                                      *)
(*                                                                         *)
(* The methods of the book never await, so nothing interleaves with a      *)
(* call; it is still split into the iterations of its loops, one step      *)
(* each, and pc says which loop is running.                                *)
(*                                                                         *)
(* An empty price level is deleted from the dict at once and from the heap *)
(* only when it comes to its top, so the heap may hold prices without      *)
(* orders, or a price twice; and reading a price that is not in the dict   *)
(* (a defaultdict) puts an empty queue there.                              *)
(***************************************************************************)
EXTENDS Integers, Sequences, FiniteSets, Functions, Filters

CONSTANTS
  Prices,         \* the prices there are
  Requests,       \* the orders there may be, see Request
  Agents,         \* those who order
  Groups,         \* the OCO groups, and what stands for none
  MaxOrders,      \* bound on the orders of a run
  MaxTime         \* bound on the exchange's current_time

Sides == {"BUY", "SELL"}
Types == {"LIMIT", "MARKET", "STOP"}
NoPrice == 0
\* parse_quantity makes 0 of a quantity that is missing and lets every integer
\* through; nobody looks at it again.
Request == [side : Sides, type : Types, price : Prices \cup {NoPrice}, quantity : Int,
            agent : Agents, group : Groups, short : BOOLEAN]

ASSUME PricesAssumption == Prices \subseteq Nat \ {NoPrice} /\ IsFiniteSet(Prices)
ASSUME RequestsAssumption ==
  Requests \subseteq {r \in Request : r.type = "MARKET" <=> r.price = NoPrice}
ASSUME BoundsAssumption == MaxOrders \in Nat /\ MaxTime \in Nat \ {0}

VARIABLES
  now,            \* current_time of the exchange
  orders,         \* the orders received; the place is the order_id
  times,          \* Order.timestamp, by order
  remaining,      \* Order.quantity, by order
  status,         \* Order.status, by order
  byId,           \* the keys of orders_by_id
  book,           \* bids and asks: price -> queue of orders, by side
  heap,           \* bid_levels and ask_levels: how often a price is in it
  stops,          \* stop_orders, in the order of the dict
  history,        \* the trades in the order they were recorded; the place is seq
  pc,             \* the loop that is running
  working,        \* the order it runs for
  triggered       \* triggered_orders not yet executed

bookVars == <<book, heap>>
orderVars == <<orders, times, remaining, status, byId>>
loopVars == <<pc, working, triggered>>
vars == <<now, orderVars, bookVars, stops, history, loopVars>>

-----------------------------------------------------------------------------
Received == DOMAIN orders
Opposite(s) == IF s = "BUY" THEN "SELL" ELSE "BUY"
Better(s, p, q) == IF s = "BUY" THEN p > q ELSE p < q

InHeap(s) == {p \in Prices : heap[s][p] > 0}
Top(s) == CHOOSE p \in InHeap(s) : \A q \in InHeap(s) : ~Better(s, q, p)

Queue(s, p) == IF p \in DOMAIN book[s] THEN book[s][p] ELSE <<>>
BestQueue(s) == Queue(s, Top(s))

\* The levels of a side, and its heap, when queue q is left at its best price.
WithQueue(levels, p, q) ==
  IF q = <<>> THEN Restrict(levels, DOMAIN levels \ {p})
              ELSE [r \in DOMAIN levels \cup {p} |-> IF r = p THEN q ELSE levels[r]]
HeapWithQueue(h, p, q) == IF q = <<>> THEN [h EXCEPT ![p] = @ - 1] ELSE h

\* Mutant: the heap is cut at the first price that has a queue, not before it.
HeapWithoutTops(h, levels, s) ==
  [p \in Prices |-> IF \E q \in DOMAIN levels : h[q] > 0 /\ Better(s, q, p) THEN h[p] ELSE 0]

\* _remove_price_level: pop while the top has no queue.
HeapWithoutEmptyTops(h, levels, s) ==
  [p \in Prices |-> IF \E q \in DOMAIN levels : h[q] > 0 /\ ~Better(s, p, q) THEN h[p] ELSE 0]

\* get_best_bid and get_best_ask read the queue at the top of the heap.
LookedUp ==
  [s \in Sides |->
     IF InHeap(s) = {} \/ Top(s) \in DOMAIN book[s] THEN book[s]
     ELSE [p \in DOMAIN book[s] \cup {Top(s)} |-> Queue(s, p)]]

-----------------------------------------------------------------------------
Init ==
  /\ now = 1
  /\ orders = <<>> /\ times = <<>> /\ remaining = <<>> /\ status = <<>> /\ byId = {}
  /\ book = [s \in Sides |-> <<>>]
  /\ heap = [s \in Sides |-> [p \in Prices |-> 0]]
  /\ stops = <<>> /\ history = <<>>
  /\ pc = "idle" /\ working = 0 /\ triggered = <<>>

\* Mutant: a new order is put before those that wait at its price.
AddLimitInFront(r, n) ==
  /\ book' = [book EXCEPT ![r.side] = WithQueue(@, r.price, <<n>> \o Queue(r.side, r.price))]
  /\ heap' = IF r.price \in DOMAIN book[r.side] THEN heap
             ELSE [heap EXCEPT ![r.side][r.price] = @ + 1]

\* _add_limit_order.
AddLimit(r, n) ==
  /\ book' = [book EXCEPT ![r.side] = WithQueue(@, r.price, Append(Queue(r.side, r.price), n))]
  /\ heap' = IF r.price \in DOMAIN book[r.side] THEN heap
             ELSE [heap EXCEPT ![r.side][r.price] = @ + 1]

\* add_order, up to its first loop.
AddOrder(r) ==
  LET n == Len(orders) + 1
  IN  /\ pc = "idle" /\ Len(orders) < MaxOrders
      /\ orders' = Append(orders, r) /\ times' = Append(times, now)
      /\ remaining' = Append(remaining, r.quantity) /\ status' = Append(status, "ACTIVE")
      /\ byId' = byId \cup {n}
      /\ working' = IF r.type = "STOP" THEN 0 ELSE n
      /\ \/ r.type = "LIMIT" /\ AddLimit(r, n) /\ pc' = "limit" /\ UNCHANGED stops
         \/ r.type = "MARKET" /\ pc' = "market" /\ UNCHANGED <<bookVars, stops>>
         \/ r.type = "STOP" /\ stops' = Append(stops, n) /\ pc' = "stops" /\ UNCHANGED bookVars
      /\ UNCHANGED <<now, history, triggered>>

-----------------------------------------------------------------------------
(* One trade: both orders filled, recorded and dropped when they are done. *)

Traded(buy, sell) == IF remaining[buy] < remaining[sell] THEN remaining[buy] ELSE remaining[sell]

\* Mutant: only one of the two orders is filled.
TradeOneSided(buy, sell, price, time) ==
  LET quantity == Traded(buy, sell)
      left == [remaining EXCEPT ![buy] = @ - quantity]
  IN  /\ remaining' = left
      /\ status' = [i \in Received |-> IF i \notin {buy, sell} THEN status[i]
                                       ELSE IF left[i] = 0 THEN "FILLED" ELSE "PARTIALLY_FILLED"]
      /\ history' = Append(history, [price |-> price, quantity |-> quantity, time |-> time,
                                     buy |-> buy, sell |-> sell,
                                     buyStatus |-> status'[buy], sellStatus |-> status'[sell]])

\* Order.fill of both, record_trade.
Trade(buy, sell, price, time) ==
  LET quantity == Traded(buy, sell)
      left == [remaining EXCEPT ![buy] = @ - quantity, ![sell] = @ - quantity]
  IN  /\ remaining' = left
      /\ status' = [i \in Received |-> IF i \notin {buy, sell} THEN status[i]
                                       ELSE IF left[i] = 0 THEN "FILLED" ELSE "PARTIALLY_FILLED"]
      /\ history' = Append(history, [price |-> price, quantity |-> quantity, time |-> time,
                                     buy |-> buy, sell |-> sell,
                                     buyStatus |-> status'[buy], sellStatus |-> status'[sell]])

\* What is left of a queue when its first order has traded.
After(q) == IF remaining'[Head(q)] = 0 THEN Tail(q) ELSE q

\* The best levels of the sides given are left with the queues given.
Leave(rest) ==
  /\ book' = [s \in Sides |-> IF s \in DOMAIN rest THEN WithQueue(book[s], Top(s), rest[s])
                              ELSE book[s]]
  /\ heap' = [s \in Sides |-> IF s \in DOMAIN rest THEN HeapWithQueue(heap[s], Top(s), rest[s])
                              ELSE heap[s]]

(* _match_market_order, of a market order ("market") or a triggered stop. *)

Takes == pc \in {"market", "stop"} /\ remaining[working] > 0
Other == Opposite(orders[working].side)

MatchMarket ==
  LET first == Head(BestQueue(Other))
      buy == IF Other = "BUY" THEN first ELSE working
      sell == IF Other = "BUY" THEN working ELSE first
  IN  /\ Takes /\ InHeap(Other) # {} /\ BestQueue(Other) # <<>>
      /\ Trade(buy, sell, Top(Other), times[working])
      /\ Leave([s \in {Other} |-> After(BestQueue(s))])
      /\ byId' = IF remaining'[first] = 0 THEN byId \ {first} ELSE byId
      /\ UNCHANGED <<now, orders, times, stops, loopVars>>

SkipEmptyLevel ==
  /\ Takes /\ InHeap(Other) # {} /\ BestQueue(Other) = <<>>
  /\ Leave([s \in {Other} |-> <<>>])
  /\ UNCHANGED <<now, orderVars, stops, history, loopVars>>

Done == ~Takes \/ InHeap(Other) = {}

\* add_order returns: no stop order is looked at after a market order.
EndMarket ==
  /\ pc = "market" /\ Done
  /\ pc' = "idle" /\ working' = 0
  /\ UNCHANGED <<now, orderVars, bookVars, stops, history, triggered>>

(* _match_limit_order. *)

Crossed == InHeap("BUY") # {} /\ InHeap("SELL") # {} /\ Top("BUY") >= Top("SELL")

\* At the price of the order that was there.
MatchLimit ==
  LET bid == Head(BestQueue("BUY"))
      ask == Head(BestQueue("SELL"))
      buying == orders[working].side = "BUY"
  IN  /\ pc = "limit" /\ Crossed
      /\ \A s \in Sides : BestQueue(s) # <<>>
      /\ Trade(bid, ask, Top(Other), times[IF buying THEN bid ELSE ask])
      /\ Leave([s \in Sides |-> After(BestQueue(s))])
      /\ byId' = byId \ {i \in {bid, ask} : remaining'[i] = 0}
      /\ UNCHANGED <<now, orders, times, stops, loopVars>>

DropCrossedLevel ==
  /\ pc = "limit" /\ Crossed
  /\ \E s \in Sides : BestQueue(s) = <<>>
  /\ Leave([s \in Sides |-> BestQueue(s)])
  /\ UNCHANGED <<now, orderVars, stops, history, loopVars>>

EndLimit ==
  /\ pc = "limit" /\ ~Crossed
  /\ pc' = "stops" /\ working' = 0
  /\ UNCHANGED <<now, orderVars, bookVars, stops, history, triggered>>

-----------------------------------------------------------------------------
(* _check_stop_triggers. *)

\* trade_history is sorted by timestamp and then by seq.
Earlier(i, j) ==
  history[i].time < history[j].time \/ (history[i].time = history[j].time /\ i < j)
LastTrade == CHOOSE i \in DOMAIN history : \A j \in DOMAIN history \ {i} : Earlier(j, i)

NoMarket == history = <<>> /\ \A s \in Sides : InHeap(s) = {}

\* Twice current_price: of the last trade, or else the middle of the market.
MarketPrice ==
  IF history # <<>> THEN 2 * history[LastTrade].price
  ELSE IF InHeap("BUY") = {} THEN 2 * Top("SELL")
  ELSE IF InHeap("SELL") = {} THEN 2 * Top("BUY")
  ELSE Top("BUY") + Top("SELL")

\* Has a price, given twice, reached the price of the stop order?
Reached(i, price) == IF orders[i].side = "BUY" THEN price >= 2 * orders[i].price
                                               ELSE price <= 2 * orders[i].price

\* The next stop order of those triggered, which becomes a market order.
Execute(fired) ==
  /\ pc' = "stop" /\ working' = Head(fired) /\ triggered' = Tail(fired)
  /\ orders' = [orders EXCEPT ![Head(fired)].type = "MARKET", ![Head(fired)].price = NoPrice]

CheckStops ==
  LET fires == {i \in Range(stops) : ~NoMarket /\ Reached(i, MarketPrice)}
      fired == KeepOnly(stops, fires)
  IN  /\ pc = "stops"
      /\ book' = IF stops = <<>> THEN book ELSE LookedUp
      /\ stops' = KeepOnly(stops, Received \ fires)
      /\ \/ fired = <<>> /\ pc' = "idle" /\ UNCHANGED <<orders, working, triggered>>
         \/ fired # <<>> /\ Execute(fired)
      /\ UNCHANGED <<now, times, remaining, status, byId, heap, history>>

\* Mutant: nobody looks again after the stop orders have traded.
EndStopForGood ==
  /\ pc = "stop" /\ Done
  /\ byId' = IF remaining[working] = 0 THEN byId \ {working} ELSE byId
  /\ \/ triggered = <<>> /\ pc' = "idle" /\ working' = 0 /\ UNCHANGED <<orders, triggered>>
     \/ triggered # <<>> /\ Execute(triggered)
  /\ UNCHANGED <<now, times, remaining, status, bookVars, stops, history>>

\* After the last one the stop orders are checked again.
EndStop ==
  /\ pc = "stop" /\ Done
  /\ byId' = IF remaining[working] = 0 THEN byId \ {working} ELSE byId
  /\ \/ triggered = <<>> /\ pc' = "stops" /\ working' = 0 /\ UNCHANGED <<orders, triggered>>
     \/ triggered # <<>> /\ Execute(triggered)
  /\ UNCHANGED <<now, times, remaining, status, bookVars, stops, history>>

-----------------------------------------------------------------------------
(* cancel_order, where it succeeds; it changes nothing where it fails. *)

Cancelled(i) ==
  /\ pc = "idle" /\ i \in byId /\ status[i] \notin {"FILLED", "CANCELED"}
  /\ status' = [status EXCEPT ![i] = "CANCELED"]
  /\ byId' = byId \ {i}
  /\ UNCHANGED <<now, orders, times, remaining, history, loopVars>>

CancelStop(i) ==
  /\ i \in Range(stops) /\ Cancelled(i)
  /\ stops' = KeepOnly(stops, Received \ {i})
  /\ UNCHANGED bookVars

CancelLimit(i) ==
  LET s == orders[i].side
      price == orders[i].price
      rest == KeepOnly(Queue(s, price), Received \ {i})
  IN  /\ i \notin Range(stops) /\ i \in Range(Queue(s, price)) /\ Cancelled(i)
      /\ book' = [book EXCEPT ![s] = WithQueue(@, price, rest)]
      /\ heap' = IF rest # <<>> THEN heap
                 ELSE [heap EXCEPT ![s] = HeapWithoutEmptyTops(@, book'[s], s)]
      /\ UNCHANGED stops

CancelOrder(i) == CancelStop(i) \/ CancelLimit(i)

\* get_best_bid and get_best_ask, for a snapshot.
Quote ==
  /\ pc = "idle"
  /\ book' = LookedUp
  /\ UNCHANGED <<now, orderVars, heap, stops, history, loopVars>>

NewTime ==
  /\ pc = "idle" /\ now < MaxTime
  /\ now' = now + 1
  /\ UNCHANGED <<orderVars, bookVars, stops, history, loopVars>>

\* The loops of add_order.
Matching ==
  \/ MatchMarket \/ SkipEmptyLevel \/ EndMarket
  \/ MatchLimit \/ DropCrossedLevel \/ EndLimit
  \/ CheckStops \/ EndStop

Next ==
  \/ \E r \in Requests : AddOrder(r)
  \/ Matching
  \/ \E i \in Received : CancelOrder(i)
  \/ Quote \/ NewTime

\* The loops run to their end once a call has begun.
Spec == Init /\ [][Next]_vars /\ WF_vars(Matching)

-----------------------------------------------------------------------------
Statuses == {"ACTIVE", "PARTIALLY_FILLED", "FILLED", "CANCELED"}

\* Every variable keeps its type: no price is popped from a heap it is not in.
TypeOK ==
  /\ now \in 1 .. MaxTime
  /\ orders \in Seq(Request) /\ Len(orders) <= MaxOrders
  /\ times \in [Received -> 1 .. MaxTime]
  /\ remaining \in [Received -> Int]
  /\ status \in [Received -> Statuses]
  /\ byId \subseteq Received
  /\ \A s \in Sides : /\ DOMAIN book[s] \subseteq Prices
                      /\ \A p \in DOMAIN book[s] : book[s][p] \in Seq(Received)
  /\ heap \in [Sides -> [Prices -> Nat]]
  /\ Range(stops) \cup Range(triggered) \cup ({working} \ {0}) \subseteq Received
  /\ pc \in {"idle", "market", "limit", "stops", "stop"}

\* An order for nothing, or for less, is open until it has met another.
IsOpen(i) == status[i] \notin {"FILLED", "CANCELED"}

\* Between calls the dict, the heap and orders_by_id tell the same story: the
\* queues hold the limit orders that are open, each once, in its place and
\* by age, and each of their prices is in the heap.  An order that fell out
\* of one of them would be confirmed and never trade.
BookHoldsOpenOrders ==
  pc = "idle" =>
    \A s \in Sides :
      /\ \A i \in Received :
           orders[i].type = "LIMIT" /\ orders[i].side = s /\ IsOpen(i) =>
             i \in byId /\ i \in Range(Queue(s, orders[i].price))
      /\ \A p \in DOMAIN book[s] :
           /\ book[s][p] # <<>> => heap[s][p] > 0
           /\ \A k \in DOMAIN book[s][p] :
                LET i == book[s][p][k]
                IN  /\ orders[i].type = "LIMIT" /\ orders[i].side = s /\ orders[i].price = p
                    /\ IsOpen(i)
                    /\ k > 1 => book[s][p][k - 1] < i

\* Between calls no two open limit orders could trade with each other.
NotCrossed ==
  pc = "idle" =>
    \A i, j \in Received :
      /\ orders[i].type = "LIMIT" /\ orders[i].side = "BUY" /\ IsOpen(i)
      /\ orders[j].type = "LIMIT" /\ orders[j].side = "SELL" /\ IsOpen(j)
      => orders[i].price < orders[j].price

Total(q) ==
  LET sum[n \in 0 .. Len(q)] == IF n = 0 THEN 0 ELSE sum[n - 1] + q[n]
  IN  sum[Len(q)]

\* The quantities of the trades, with 0 for those that order i has no part in.
Fills(i) ==
  [k \in DOMAIN history |->
     IF i \in {history[k].buy, history[k].sell} THEN history[k].quantity ELSE 0]

\* Nothing is made or lost by matching: what an order has traded and what is
\* left of it are its quantity.
TradesAddUp ==
  \A i \in Received : orders[i].quantity = remaining[i] + Total(Fills(i))

PriceTime ==
  INSTANCE PriceTimeBook WITH
    Limits <- Prices \cup {NoPrice},
    Quantities <- {r.quantity : r \in Requests},
    sides <- [i \in Received |-> orders[i].side],
    limits <- [i \in Received |-> IF orders[i].type = "LIMIT" THEN orders[i].price ELSE NoPrice],
    open <- remaining,
    resting <- {i \in Received : i \in Range(Queue(orders[i].side, orders[i].price))},
    taker <- working,
    trades <- [k \in DOMAIN history |-> [price |-> history[k].price,
                                         quantity |-> history[k].quantity,
                                         buy |-> history[k].buy, sell |-> history[k].sell]]

\* "Price-time priority matching": with its heaps, its stale levels and its
\* cancellations the book takes every trade that a plain search for the best
\* and oldest order would take, and no other.
PriceTimePriority == PriceTime!Spec

\* The check for stop orders stops only when the price it reads has reached
\* none of those that wait, however many of them fired one another.
StopsSettled ==
  [][pc' = "idle" /\ pc \in {"stops", "stop"} /\ ~NoMarket =>
       \A i \in Range(stops') : ~Reached(i, MarketPrice)]_vars

\* Each call of add_order comes to its end: the loops over levels that may be
\* empty, and the stop orders that call for another check.
EveryCallReturns == (pc # "idle") ~> (pc = "idle")

\* get_best_bid, get_best_ask: "the highest bid price and total quantity
\* available at that price", or None "if no bids exist".
QuotesHaveOrders ==
  pc = "idle" => \A s \in Sides : InHeap(s) # {} => BestQueue(s) # <<>>

\* "STOP orders are triggered when market price >= stop price" or <= it: none
\* is left waiting when a call has brought the price there.
NoStopLeftBehind ==
  pc = "idle" /\ history # <<>> =>
    \A i \in Range(stops) : ~Reached(i, MarketPrice)

\* "This handles cascading stop triggers caused by the price movements": when
\* the check for stop orders ends, none is reached by the latest trade.
CascadesComplete ==
  [][pc = "stops" /\ pc' = "idle" /\ history # <<>> =>
       \A i \in Range(stops') : ~Reached(i, 2 * history[Len(history)].price)]_vars
=============================================================================
