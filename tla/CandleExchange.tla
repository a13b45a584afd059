--------------------------- MODULE CandleExchange ---------------------------
(***************************************************************************)
(* The candle exchange of one instrument                                   *)
(* (exchanges/candle_based_exchange_agent.py): it fills the open orders    *)
(* along a price path through the candle, in its TIME_TICK handler.        *)
(*                                                                         *)
(* The handler awaits whenever it sends, a fill or a price update.  Orders *)
(* and subscriptions are handled in tasks of their own, which run at those *)
(* awaits; between two awaits nothing interleaves.                         *)
(***************************************************************************)
EXTENDS Integers, Sequences, FiniteSets

CONSTANTS
  Candles,        \* the candles there may be: [open, high, low, close]
  Requests,       \* the orders there may be, see Order
  Senders,        \* the traders
  FirstSubscribers,  \* those subscribed before the first tick
  Comers,         \* those that subscribe and unsubscribe later
  NoGroup,        \* the oco_group of a single order
  NoCandle,       \* no candle has been processed
  MaxOrders,      \* bound on the orders of a run; an order's number is its
                  \* place in the dict open_orders
  MaxTicks        \* bound on the ticks of a run

Prices == Nat
Order == [sender : Senders, side : {"BUY", "SELL"}, type : {"MARKET", "LIMIT", "STOP"},
          price : Prices, group : {NoGroup} \cup Nat]
Candle == {c \in [open : Prices, high : Prices, low : Prices, close : Prices] :
             c.low <= c.open /\ c.open <= c.high /\ c.low <= c.close /\ c.close <= c.high}

ASSUME CandlesAssumption == Candles \subseteq Candle
ASSUME RequestsAssumption == Requests \subseteq Order
ASSUME SendersAssumption == IsFiniteSet(Senders) /\ FirstSubscribers \cup Comers \subseteq Senders
ASSUME BoundsAssumption == MaxOrders \in Nat /\ MaxTicks \in Nat
ASSUME NoGroupAssumption == NoGroup \notin Nat
ASSUME NoCandleAssumption == NoCandle \notin Candle

VARIABLES
  pc,             \* where handle_time_tick stands
  tick,           \* ticks taken
  answered,       \* BARRIER_RESPONSEs published
  candle,         \* the candle being processed, or processed last
  segment,        \* the segment of its price path, 1 to 3
  triggered,      \* triggered_orders of the segment still to be looked at
  sending,        \* the order whose fill is being sent
  orders,         \* the orders received so far, by number
  status,         \* their status; "GONE" is no longer in open_orders
  fillPrice,      \* the price in the TRADE_EXECUTION, by number
  subscribed,     \* subscribed_agents
  toNotify,       \* subscribers the running loop has not reached
  notifySize,     \* the size of the set when that loop began
  lastFill,       \* history: segment and price of the candle's last fill
  rested,         \* history: orders open when the candle began
  dropped,        \* history: orders cleared when it ended
  disturbed       \* history: a subscriber came or went during a loop

bookVars == <<orders, status, fillPrice>>
pathVars == <<candle, segment, triggered, lastFill, rested>>
notifyVars == <<subscribed, toNotify, notifySize, disturbed>>
vars == <<pc, tick, answered, sending, dropped, bookVars, pathVars, notifyVars>>

-----------------------------------------------------------------------------
(* The price path and _get_trigger_price. *)

Path(c) == IF c.close >= c.open THEN <<c.open, c.low, c.high, c.close>>
                                ELSE <<c.open, c.high, c.low, c.close>>
From(c, i) == Path(c)[i]
To(c, i) == Path(c)[i + 1]
Segments == 1 .. 3
Moves(c) == c.low < c.high

WaitsForLow(o) == (o.type = "LIMIT" /\ o.side = "BUY") \/ (o.type = "STOP" /\ o.side = "SELL")
WaitsForHigh(o) == (o.type = "LIMIT" /\ o.side = "SELL") \/ (o.type = "STOP" /\ o.side = "BUY")

\* Is the order triggered at once where the segment starts?
AtStart(o, from) ==
  \/ o.type = "MARKET"
  \/ WaitsForLow(o) /\ from <= o.price
  \/ WaitsForHigh(o) /\ from >= o.price

\* Mutant: an order whose price the segment starts beyond is overlooked.
TriggersInside(o, from, to) ==
  /\ from # to
  /\ ~AtStart(o, from) /\ AtStart(o, to)

Triggers(o, from, to) ==
  /\ from # to
  /\ AtStart(o, from) \/ AtStart(o, to)

\* Mutant: every order is filled where the segment starts.
TriggerPriceAtStart(o, from) == from

TriggerPrice(o, from) == IF AtStart(o, from) THEN from ELSE o.price

Received == 1 .. Len(orders)
Active == {i \in Received : status[i] = "ACTIVE"}

\* _collect_triggered_orders.
Collect(c, i) == {k \in Active : Triggers(orders[k], From(c, i), To(c, i))}

\* Mutant: a falling segment is sorted like a rising one.
BeforeNotReversed(j, k) ==
  LET from == From(candle, segment)
      pj == TriggerPrice(orders[j], from)
      pk == TriggerPrice(orders[k], from)
  IN  pj < pk \/ (pj = pk /\ j < k)

\* The sort of a segment: along the path, and within one price as received.
Before(j, k) ==
  LET from == From(candle, segment)
      to == To(candle, segment)
      pj == TriggerPrice(orders[j], from)
      pk == TriggerPrice(orders[k], from)
  IN  IF to > from THEN pj < pk \/ (pj = pk /\ j < k)
                   ELSE pj > pk \/ (pj = pk /\ j < k)

Siblings(i) ==
  {j \in Received \ {i} : /\ orders[i].group # NoGroup
                          /\ orders[j].group = orders[i].group
                          /\ orders[j].sender = orders[i].sender}

-----------------------------------------------------------------------------
Statuses == {"ACTIVE", "FILLED", "CANCELED", "GONE"}
NoFill == [segment |-> 0, price |-> 0]

Init ==
  /\ pc = "idle" /\ tick = 0 /\ answered = 0
  /\ candle = NoCandle /\ segment = 1 /\ triggered = {} /\ sending = 0
  /\ lastFill = NoFill
  /\ orders = <<>> /\ status = <<>> /\ fillPrice = <<>>
  /\ subscribed = FirstSubscribers /\ toNotify = {} /\ notifySize = 0
  /\ rested = {} /\ dropped = {} /\ disturbed = FALSE

\* Where tasks interleave.  A loop over no subscriber awaits nothing.
Awaiting == pc \in {"idle", "sending"} \/ (pc = "notify" /\ notifySize > 0)

\* _handle_trade_request.
HandleTradeRequest(o) ==
  /\ Awaiting /\ Len(orders) < MaxOrders
  /\ orders' = Append(orders, o)
  /\ status' = Append(status, "ACTIVE")
  /\ fillPrice' = Append(fillPrice, 0)
  /\ UNCHANGED <<pc, tick, answered, sending, dropped, pathVars, notifyVars>>

\* _handle_subscribe and _handle_unsubscribe.
Resubscribe(s) ==
  /\ Awaiting
  /\ subscribed' \in {subscribed \cup {s}, subscribed \ {s}} \ {subscribed}
  /\ disturbed' = (disturbed \/ pc = "notify")
  /\ UNCHANGED <<pc, tick, answered, sending, dropped, bookVars, pathVars, toNotify, notifySize>>

-----------------------------------------------------------------------------
(* handle_time_tick. *)

\* There is no candle yet: the orders stay.
TickBeforeFirstCandle ==
  /\ pc = "idle" /\ tick < MaxTicks /\ candle = NoCandle
  /\ tick' = tick + 1 /\ answered' = answered + 1
  /\ UNCHANGED <<pc, sending, dropped, bookVars, pathVars, notifyVars>>

\* Mutant: a tick without a new candle is not answered.
TickWithoutNewCandleInSilence ==
  /\ pc = "idle" /\ tick < MaxTicks /\ candle # NoCandle
  /\ tick' = tick + 1
  /\ status' = [i \in Received |-> IF i \in Active THEN "GONE" ELSE status[i]]
  /\ UNCHANGED <<pc, answered, sending, dropped, orders, fillPrice, pathVars, notifyVars>>

\* No candle since the last tick: the orders go.
TickWithoutNewCandle ==
  /\ pc = "idle" /\ tick < MaxTicks /\ candle # NoCandle
  /\ tick' = tick + 1 /\ answered' = answered + 1
  /\ status' = [i \in Received |-> IF i \in Active THEN "GONE" ELSE status[i]]
  /\ UNCHANGED <<pc, sending, dropped, orders, fillPrice, pathVars, notifyVars>>

TickWithCandle(c) ==
  /\ pc = "idle" /\ tick < MaxTicks
  /\ tick' = tick + 1 /\ pc' = "fill"
  /\ candle' = c /\ segment' = 1 /\ triggered' = Collect(c, 1)
  /\ lastFill' = NoFill /\ rested' = Active /\ dropped' = {}
  /\ UNCHANGED <<answered, sending, bookVars, notifyVars>>

\* Mutant: the status is not looked at again before a fill.
FillOrderOfAnyStatus(i) ==
  LET price == TriggerPrice(orders[i], From(candle, segment))
  IN  /\ pc = "fill" /\ i \in triggered
      /\ status' = [status EXCEPT ![i] = "FILLED"]
      /\ fillPrice' = [fillPrice EXCEPT ![i] = price]
      /\ lastFill' = [segment |-> segment, price |-> price]
      /\ triggered' = triggered \ {i}
      /\ pc' = "sending" /\ sending' = i
      /\ UNCHANGED <<tick, answered, dropped, orders, candle, segment, rested, notifyVars>>

\* _fill_order, up to the await that sends TRADE_EXECUTION.
FillOrder(i) ==
  LET price == TriggerPrice(orders[i], From(candle, segment))
  IN  /\ pc = "fill" /\ i \in triggered \cap Active
      /\ \A j \in (triggered \cap Active) \ {i} : Before(i, j)
      /\ status' = [status EXCEPT ![i] = "FILLED"]
      /\ fillPrice' = [fillPrice EXCEPT ![i] = price]
      /\ lastFill' = [segment |-> segment, price |-> price]
      /\ triggered' = triggered \ {i}
      /\ pc' = "sending" /\ sending' = i
      /\ UNCHANGED <<tick, answered, dropped, orders, candle, segment, rested, notifyVars>>

\* _cancel_oco_siblings, when the fill is sent.
CancelSiblings ==
  /\ pc = "sending"
  /\ status' = [j \in Received |-> IF j \in Siblings(sending) \cap Active
                                   THEN "CANCELED" ELSE status[j]]
  /\ pc' = "fill" /\ sending' = 0
  /\ UNCHANGED <<tick, answered, dropped, orders, fillPrice, pathVars, notifyVars>>

NextSegment ==
  /\ pc = "fill" /\ triggered \cap Active = {} /\ segment < 3
  /\ segment' = segment + 1 /\ triggered' = Collect(candle, segment + 1)
  /\ UNCHANGED <<pc, tick, answered, sending, dropped, bookVars, candle, lastFill, rested,
                 notifyVars>>

\* open_orders = {} at the end of _fill_orders_for_candle, and the start of
\* the loop over the subscribers.
ClearOrders ==
  /\ pc = "fill" /\ triggered \cap Active = {} /\ segment = 3
  /\ dropped' = Active
  /\ status' = [i \in Received |-> IF i \in Active THEN "GONE" ELSE status[i]]
  /\ toNotify' = subscribed /\ notifySize' = Cardinality(subscribed)
  /\ pc' = "notify"
  /\ UNCHANGED <<tick, answered, sending, orders, fillPrice, pathVars, subscribed, disturbed>>

\* One PORTFOLIO_UPDATE.  A set that has changed its size stops the loop.
Notify(s) ==
  /\ pc = "notify" /\ Cardinality(subscribed) = notifySize /\ s \in toNotify
  /\ toNotify' = toNotify \ {s}
  /\ UNCHANGED <<pc, tick, answered, sending, dropped, bookVars, pathVars, subscribed,
                 notifySize, disturbed>>

NotifyRaises ==
  /\ pc = "notify" /\ Cardinality(subscribed) # notifySize
  /\ pc' = "idle"
  /\ UNCHANGED <<tick, answered, sending, dropped, bookVars, pathVars, notifyVars>>

AnswerTick ==
  /\ pc = "notify" /\ Cardinality(subscribed) = notifySize /\ toNotify = {}
  /\ pc' = "idle" /\ answered' = answered + 1
  /\ UNCHANGED <<tick, sending, dropped, bookVars, pathVars, notifyVars>>

Next ==
  \/ \E o \in Requests : HandleTradeRequest(o)
  \/ \E s \in Comers : Resubscribe(s)
  \/ \E s \in Senders : Notify(s)
  \/ TickBeforeFirstCandle \/ TickWithoutNewCandle
  \/ \E c \in Candles : TickWithCandle(c)
  \/ \E i \in Received : FillOrder(i)
  \/ CancelSiblings \/ NextSegment \/ ClearOrders \/ NotifyRaises \/ AnswerTick

Spec == Init /\ [][Next]_vars

-----------------------------------------------------------------------------
\* Every variable keeps its type, and the loops know only orders received.
TypeOK ==
  /\ pc \in {"idle", "fill", "sending", "notify"}
  /\ tick \in 0 .. MaxTicks /\ answered \in 0 .. tick
  /\ candle \in Candles \/ (candle = NoCandle /\ pc = "idle")
  /\ segment \in Segments
  /\ lastFill \in [segment : 0 .. 3, price : Prices]
  /\ orders \in Seq(Requests) /\ Len(orders) <= MaxOrders
  /\ status \in [Received -> Statuses]
  /\ fillPrice \in [Received -> Prices]
  /\ triggered \cup rested \cup dropped \subseteq Received
  /\ sending \in Received \cup {0} /\ (pc = "sending" <=> sending # 0)
  /\ subscribed \subseteq Senders /\ toNotify \subseteq Senders /\ notifySize \in Nat
  /\ disturbed \in BOOLEAN

\* No order is filled outside its price, whatever the path, the segment it
\* triggers in and the orders that come in on the way: a LIMIT at the limit
\* or better, a STOP at the stop or beyond.
FilledWithinPrice ==
  \A i \in Received : status[i] = "FILLED" =>
    /\ WaitsForLow(orders[i]) => fillPrice[i] <= orders[i].price
    /\ WaitsForHigh(orders[i]) => fillPrice[i] >= orders[i].price

\* Of the orders of an OCO group that were open together when a candle began
\* at most one is filled in it, though siblings trigger in one segment and
\* the cancellation comes after an await.
OneOfEachGroup ==
  \A i, j \in rested :
    j \in Siblings(i) => ~(status[i] = "FILLED" /\ status[j] = "FILLED")

\* A MARKET order, or one whose price lies in the range of the candle.
WithinReach(o, c) ==
  \/ o.type = "MARKET"
  \/ WaitsForLow(o) /\ c.low <= o.price
  \/ WaitsForHigh(o) /\ c.high >= o.price

\* The path misses nothing: an order that was open when the candle began and
\* is within its range has been filled, or lost to a sibling, when it ends.
NoTriggerMissed ==
  pc = "notify" /\ Moves(candle) =>
    \A i \in rested : WithinReach(orders[i], candle) => status[i] \in {"FILLED", "CANCELED"}

\* limit_hit_fill_model = "no_fill_on_one_word_limit": nobody checks a limit
\* on the candle an order executes in, but in a candle whose price stands
\* still, such as one locked at a limit, nothing is filled.
NoFillWithoutMovement ==
  pc = "sending" => Moves(candle)

\* Fills follow the path: an order is filled at a price the market passes in
\* the segment at hand, and not before an earlier fill of that segment.
FillsFollowThePath ==
  [][pc' = "sending" /\ pc = "fill" =>
       LET from == From(candle, segment)
           to == To(candle, segment)
           price == lastFill'.price
           last == IF lastFill.segment = segment THEN lastFill.price ELSE from
       IN  IF to > from THEN last <= price /\ price <= to
                        ELSE last >= price /\ price >= to]_vars

\* Each tick is answered, unless the set of subscribers changed while it was
\* being notified.
TicksAnswered ==
  pc = "idle" /\ ~disturbed => answered = tick

\* "Create order for execution in next candle": an order cleared at the end
\* of a candle has been open from its beginning.
EveryOrderGetsACandle == pc = "notify" => dropped \subseteq rested
=============================================================================
