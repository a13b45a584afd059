----------------------- MODULE CandleExchange_proofs -----------------------
(***************************************************************************)
(* Proofs about the candle exchange: type correctness, that fills respect  *)
(* their prices and follow the path, that one order of an OCO group is     *)
(* filled, that no order within a candle's range is missed, and that ticks *)
(* are answered, for any candles, orders and traders.                      *)
(***************************************************************************)
EXTENDS CandleExchange, FiniteSetTheorems, SequenceTheorems, TLAPS

Filling == pc \in {"fill", "sending"}

\* What is known of the orders collected in a segment: they trigger in it,
\* and those still to be filled lie ahead of its last fill.
CollectedInv ==
  Filling => /\ lastFill.segment <= segment
             /\ \A k \in triggered :
                  Triggers(orders[k], From(candle, segment), To(candle, segment))

AheadInv ==
  Filling /\ lastFill.segment = segment =>
    LET from == From(candle, segment)
    IN  \A k \in triggered \cap Active :
          IF To(candle, segment) > from
          THEN lastFill.price <= TriggerPrice(orders[k], from)
          ELSE lastFill.price >= TriggerPrice(orders[k], from)

\* Once a fill has been sent its siblings are no longer active.
GroupInv ==
  \A i, j \in rested : j \in Siblings(i) /\ status[i] = "FILLED" =>
    /\ status[j] # "FILLED"
    /\ status[j] = "ACTIVE" => i = sending

\* An order within the range of the candle is active until segment 2, which
\* runs from one end of the range to the other, at the latest.
ReachInv ==
  Filling => \A i \in rested :
    /\ status[i] # "GONE"
    /\ Moves(candle) /\ WithinReach(orders[i], candle) /\ status[i] = "ACTIVE" =>
         segment = 1 \/ (segment = 2 /\ i \in triggered)

AnsweredInv ==
  /\ pc # "idle" => answered < tick
  /\ ~disturbed => answered = IF pc = "idle" THEN tick ELSE tick - 1
  /\ pc = "notify" /\ ~disturbed => Cardinality(subscribed) = notifySize

IInv ==
  /\ TypeOK /\ FilledWithinPrice /\ CollectedInv /\ AheadInv /\ GroupInv
  /\ ReachInv /\ NoTriggerMissed /\ NoFillWithoutMovement /\ AnsweredInv

-----------------------------------------------------------------------------
(* The price path and the trigger prices. *)

LEMMA PathPoints ==
  ASSUME NEW c \in Candle
  PROVE  /\ \A i \in Segments : From(c, i) \in Nat /\ To(c, i) \in Nat
         /\ {From(c, 2), To(c, 2)} = {c.low, c.high}
         /\ \A i \in Segments : /\ c.low <= From(c, i) /\ From(c, i) <= c.high
                                /\ c.low <= To(c, i) /\ To(c, i) <= c.high
<1>1. /\ c.open \in Nat /\ c.high \in Nat /\ c.low \in Nat /\ c.close \in Nat
      /\ c.low <= c.open /\ c.open <= c.high /\ c.low <= c.close /\ c.close <= c.high
  BY DEF Candle, Prices
<1>2. From(c, 1) = c.open
  BY DEF From, Path
<1>3. To(c, 3) = c.close
  BY DEF To, Path
<1>4. To(c, 1) = From(c, 2) /\ To(c, 2) = From(c, 3)
  BY DEF To, From
<1>5. CASE c.close >= c.open
  <2>1. From(c, 2) = c.low /\ From(c, 3) = c.high
    BY <1>5 DEF From, Path
  <2> QED  BY <1>1, <1>2, <1>3, <1>4, <2>1 DEF Segments
<1>6. CASE ~(c.close >= c.open)
  <2>1. From(c, 2) = c.high /\ From(c, 3) = c.low
    BY <1>6 DEF From, Path
  <2> QED  BY <1>1, <1>2, <1>3, <1>4, <2>1 DEF Segments
<1> QED  BY <1>5, <1>6

LEMMA OrderType ==
  ASSUME NEW o \in Order
  PROVE  o.price \in Nat /\ ~(WaitsForLow(o) /\ WaitsForHigh(o))
BY DEF Order, Prices, WaitsForLow, WaitsForHigh

\* A trigger price is where the segment starts or the order's own price, and
\* never on the wrong side of the latter.
LEMMA TriggerPriceIsGood ==
  ASSUME NEW o \in Order, NEW from \in Nat
  PROVE  /\ TriggerPrice(o, from) \in Nat
         /\ WaitsForLow(o) => TriggerPrice(o, from) <= o.price
         /\ WaitsForHigh(o) => TriggerPrice(o, from) >= o.price
<1>1. o.price \in Nat /\ ~(WaitsForLow(o) /\ WaitsForHigh(o))
  BY OrderType
<1>2. o.type = "MARKET" => ~WaitsForLow(o) /\ ~WaitsForHigh(o)
  BY DEF WaitsForLow, WaitsForHigh
<1> QED  BY <1>1, <1>2 DEF TriggerPrice, AtStart

\* An order that triggers in a segment does so at a price of the segment.
LEMMA TriggerPriceIsPassed ==
  ASSUME NEW o \in Order, NEW from \in Nat, NEW to \in Nat, Triggers(o, from, to)
  PROVE  /\ from < to => from <= TriggerPrice(o, from) /\ TriggerPrice(o, from) <= to
         /\ ~(from < to) => to <= TriggerPrice(o, from) /\ TriggerPrice(o, from) <= from
<1>1. o.price \in Nat /\ ~(WaitsForLow(o) /\ WaitsForHigh(o))
  BY OrderType
<1> QED  BY <1>1 DEF Triggers, TriggerPrice, AtStart

LEMMA TriggersMove ==
  ASSUME NEW c \in Candle, NEW i \in Segments, NEW o, Triggers(o, From(c, i), To(c, i))
  PROVE  Moves(c)
<1>1. From(c, i) # To(c, i)
  BY DEF Triggers
<1>2. c.low \in Nat /\ c.high \in Nat
  BY DEF Candle, Prices
<1> QED  BY <1>1, <1>2, PathPoints DEF Moves

\* Segment 2 crosses the whole range of the candle.
LEMMA ReachTriggers ==
  ASSUME NEW c \in Candle, NEW o \in Order, Moves(c), WithinReach(o, c)
  PROVE  Triggers(o, From(c, 2), To(c, 2))
<1>1. c.low \in Nat /\ c.high \in Nat /\ o.price \in Nat /\ c.low < c.high
  BY OrderType DEF Candle, Prices, Moves
<1>2. {From(c, 2), To(c, 2)} = {c.low, c.high}
  BY PathPoints
<1>3. \/ From(c, 2) = c.low /\ To(c, 2) = c.high
      \/ From(c, 2) = c.high /\ To(c, 2) = c.low
  BY <1>1, <1>2
<1> QED  BY <1>1, <1>3 DEF Triggers, WithinReach, AtStart

\* Appending to a book of n entries.
LEMMA AppendToBook ==
  ASSUME NEW S, NEW n \in Nat, NEW f \in [1 .. n -> S], NEW x \in S
  PROVE  /\ Append(f, x) \in [1 .. n + 1 -> S]
         /\ \A i \in 1 .. n : Append(f, x)[i] = f[i]
         /\ Append(f, x)[n + 1] = x
<1>1. f \in Seq(S) /\ Len(f) = n
  BY SeqDef, LenProperties
<1>2. /\ Append(f, x) \in Seq(S) /\ Len(Append(f, x)) = n + 1
      /\ \A i \in 1 .. n : Append(f, x)[i] = f[i]
      /\ Append(f, x)[n + 1] = x
  BY <1>1, AppendProperties
<1> QED  BY <1>2, LenProperties

-----------------------------------------------------------------------------
LEMMA BookType ==
  ASSUME TypeOK
  PROVE  /\ Len(orders) \in Nat
         /\ \A i \in Received : i \in Nat \ {0} /\ orders[i] \in Order
         /\ pc # "idle" => candle \in Candle
         /\ segment \in Segments
         /\ Cardinality(subscribed) \in Nat
<1>1. orders \in Seq(Requests)
  BY DEF TypeOK
<1>2. Len(orders) \in Nat
  BY <1>1, LenProperties
<1>3. \A i \in Received : i \in Nat \ {0} /\ orders[i] \in Order
  BY <1>1, <1>2, ElementOfSeq, RequestsAssumption DEF Received
<1>4. Cardinality(subscribed) \in Nat
  BY SendersAssumption, FS_Subset, FS_CardinalityType DEF TypeOK
<1> QED  BY <1>2, <1>3, <1>4, CandlesAssumption DEF TypeOK

LEMMA InitInv == Init => IInv
<1> SUFFICES ASSUME Init PROVE IInv
  OBVIOUS
<1> USE DEF Init
<1>1. Received = {}
  BY DEF Received
<1>2. TypeOK
  <2>1. Cardinality({}) = 0
    BY FS_EmptySet
  <2>2. orders \in Seq(Requests) /\ Len(orders) <= MaxOrders
    BY BoundsAssumption
  <2>3. status \in [Received -> Statuses]
        /\ fillPrice \in [Received -> Prices]
    BY <1>1
  <2>4. subscribed \subseteq Senders
    BY SendersAssumption
  <2>5. lastFill \in [segment : 0 .. 3, price : Prices]
    BY DEF NoFill, Prices
  <2>6. /\ pc \in {"idle", "fill", "sending", "notify"}
        /\ tick \in 0 .. MaxTicks /\ answered \in 0 .. tick /\ segment \in Segments
        /\ candle \in Candles \/ (candle = NoCandle /\ pc = "idle")
    BY BoundsAssumption DEF Segments
  <2>7. /\ triggered \cup rested \cup dropped \subseteq Received
        /\ sending \in Received \cup {0} /\ (pc = "sending" <=> sending # 0)
    BY <1>1
  <2>8. toNotify \subseteq Senders /\ notifySize \in Nat /\ disturbed \in BOOLEAN
    OBVIOUS
  <2> HIDE DEF Init
  <2> QED  BY <2>2, <2>3, <2>4, <2>5, <2>6, <2>7, <2>8 DEF TypeOK
<1>3. /\ FilledWithinPrice /\ CollectedInv /\ AheadInv /\ GroupInv /\ ReachInv
      /\ NoTriggerMissed /\ NoFillWithoutMovement /\ AnsweredInv
  BY <1>1 DEF FilledWithinPrice, CollectedInv, AheadInv, GroupInv, ReachInv, Filling,
              NoTriggerMissed, NoFillWithoutMovement, AnsweredInv
<1> QED  BY <1>2, <1>3 DEF IInv

-----------------------------------------------------------------------------
\* A new order joins the book and disturbs no other.
LEMMA BookGrows ==
  ASSUME TypeOK, NEW o \in Requests, HandleTradeRequest(o)
  PROVE  /\ orders' \in Seq(Requests) /\ Len(orders') <= MaxOrders
         /\ Received' = Received \cup {Len(orders) + 1} /\ Len(orders) + 1 \notin Received
         /\ status' \in [Received' -> Statuses]
         /\ fillPrice' \in [Received' -> Prices]
         /\ \A i \in Received : /\ orders'[i] = orders[i] /\ status'[i] = status[i]
                                /\ fillPrice'[i] = fillPrice[i]
         /\ status'[Len(orders) + 1] = "ACTIVE"
<1> DEFINE n == Len(orders)
           active == "ACTIVE"
<1>1. /\ orders \in Seq(Requests) /\ n \in Nat /\ n < MaxOrders
      /\ status \in [1 .. n -> Statuses] /\ fillPrice \in [1 .. n -> Prices]
  BY BookType DEF TypeOK, HandleTradeRequest, Received
<1>2. /\ orders' = Append(orders, o)
      /\ status' = Append(status, "ACTIVE") /\ fillPrice' = Append(fillPrice, 0)
  BY DEF HandleTradeRequest
<1>3. /\ orders' \in Seq(Requests) /\ Len(orders') = n + 1
      /\ \A i \in 1 .. n : orders'[i] = orders[i]
  BY <1>1, <1>2, AppendProperties
<1>4. Received' = 1 .. n + 1 /\ Received = 1 .. n
  BY <1>3 DEF Received
<1>5. /\ status' \in [1 .. n + 1 -> Statuses] /\ \A i \in 1 .. n : status'[i] = status[i]
      /\ status'[n + 1] = "ACTIVE"
  <2>1. n \in Nat /\ status \in [1 .. n -> Statuses] /\ active \in Statuses
    BY <1>1 DEF Statuses
  <2>2. status' = Append(status, active)
    BY <1>2
  <2> HIDE DEF n, active
  <2>3. Append(status, active) \in [1 .. n + 1 -> Statuses]
    BY <2>1, AppendToBook
  <2>4. \A i \in 1 .. n : Append(status, active)[i] = status[i]
    BY <2>1, AppendToBook
  <2>5. Append(status, active)[n + 1] = active
    BY <2>1, AppendToBook
  <2> QED  BY <2>2, <2>3, <2>4, <2>5 DEF active
<1>6. fillPrice' \in [1 .. n + 1 -> Prices] /\ \A i \in 1 .. n : fillPrice'[i] = fillPrice[i]
  <2>1. 0 \in Prices
    BY DEF Prices
  <2>2. n \in Nat /\ fillPrice \in [1 .. n -> Prices]
    BY <1>1
  <2> HIDE DEF n
  <2>3. Append(fillPrice, 0) \in [1 .. n + 1 -> Prices]
    BY <2>1, <2>2, AppendToBook
  <2>4. \A i \in 1 .. n : Append(fillPrice, 0)[i] = fillPrice[i]
    BY <2>1, <2>2, AppendToBook
  <2> QED  BY <1>2, <2>3, <2>4
<1>7. 1 .. n + 1 = (1 .. n) \cup {n + 1} /\ n + 1 \notin 1 .. n
  BY <1>1
<1>8. Len(orders') <= MaxOrders
  BY <1>1, <1>3, BoundsAssumption
<1> QED  BY <1>3, <1>4, <1>5, <1>6, <1>7, <1>8

\* The steps that touch neither the book nor the path.
Quiet ==
  /\ UNCHANGED <<bookVars, pathVars, sending>>
  /\ Filling' = Filling /\ (pc' = "notify" => pc = "notify") /\ (pc' = "sending" <=> pc = "sending")

LEMMA QuietSteps ==
  ASSUME TypeOK,
         \/ \E s \in Comers : Resubscribe(s)
         \/ \E s \in Senders : Notify(s)
         \/ TickBeforeFirstCandle \/ NotifyRaises \/ AnswerTick
         \/ UNCHANGED vars
  PROVE  Quiet /\ Received' = Received /\ Active' = Active
<1>1. Quiet
  BY DEF Quiet, Filling, Resubscribe, Notify, TickBeforeFirstCandle, NotifyRaises, AnswerTick,
         vars, bookVars, pathVars, notifyVars
<1> QED  BY <1>1 DEF Quiet, Received, Active, bookVars

\* A step that leaves the book's orders leaves the numbers of the orders.
LEMMA SameBook ==
  ASSUME UNCHANGED orders
  PROVE  Received' = Received /\ \A i : Siblings(i)' = Siblings(i)
BY DEF Received, Siblings

-----------------------------------------------------------------------------
LEMMA TypeStep ==
  ASSUME IInv, [Next]_vars
  PROVE  TypeOK'
<1>1. TypeOK /\ AnsweredInv
  BY DEF IInv
<1>2. /\ Len(orders) \in Nat /\ tick \in Nat /\ answered \in Nat /\ answered <= tick
      /\ (pc # "idle" => answered < tick)
      /\ \A i \in Received : i \in Nat \ {0} /\ orders[i] \in Order
      /\ (pc # "idle" => candle \in Candle)
      /\ Cardinality(subscribed) \in Nat
  BY <1>1, BookType, BoundsAssumption DEF TypeOK, AnsweredInv
<1>3. CASE \E o \in Requests : HandleTradeRequest(o)
  <2> PICK o \in Requests : HandleTradeRequest(o)
    BY <1>3
  <2>1. /\ orders' \in Seq(Requests) /\ Len(orders') <= MaxOrders
        /\ Received \subseteq Received'
        /\ status' \in [Received' -> Statuses]
        /\ fillPrice' \in [Received' -> Prices]
    BY <1>1, BookGrows
  <2>2. UNCHANGED <<pc, tick, answered, sending, dropped, pathVars, notifyVars>>
    BY DEF HandleTradeRequest
  <2> QED  BY <1>1, <2>1, <2>2 DEF TypeOK, pathVars, notifyVars
<1>4. CASE \E s \in Comers : Resubscribe(s)
  <2>1. subscribed' \subseteq Senders
    BY <1>1, <1>4, SendersAssumption DEF TypeOK, Resubscribe
  <2>2. disturbed' \in BOOLEAN
    BY <1>1, <1>4 DEF TypeOK, Resubscribe
  <2>3. UNCHANGED <<pc, tick, answered, sending, dropped, bookVars, pathVars, toNotify, notifySize>>
    BY <1>4 DEF Resubscribe
  <2>4. Received' = Received
    BY <2>3 DEF bookVars, Received
  <2> QED  BY <1>1, <2>1, <2>2, <2>3, <2>4 DEF TypeOK, bookVars, pathVars
<1>5. CASE \E s \in Senders : Notify(s)
  <2>1. toNotify' \subseteq Senders
    BY <1>1, <1>5 DEF TypeOK, Notify
  <2>2. UNCHANGED <<pc, tick, answered, sending, dropped, bookVars, pathVars, subscribed,
                    notifySize, disturbed>> /\ Received' = Received
    BY <1>5 DEF Notify, bookVars, Received
  <2> QED  BY <1>1, <2>1, <2>2 DEF TypeOK, bookVars, pathVars
<1>6. CASE TickBeforeFirstCandle \/ TickWithoutNewCandle
  <2>1. tick' \in 0 .. MaxTicks /\ answered' \in 0 .. tick'
    BY <1>1, <1>2, <1>6, BoundsAssumption DEF TickBeforeFirstCandle, TickWithoutNewCandle, TypeOK
  <2>2. UNCHANGED <<pc, sending, dropped, orders, fillPrice, pathVars, notifyVars>>
        /\ Received' = Received
    BY <1>6 DEF TickBeforeFirstCandle, TickWithoutNewCandle, bookVars, Received
  <2>3. status' \in [Received -> Statuses]
    BY <1>1, <1>6 DEF TickBeforeFirstCandle, TickWithoutNewCandle, bookVars, TypeOK, Statuses
  <2> QED  BY <1>1, <2>1, <2>2, <2>3 DEF TypeOK, pathVars, notifyVars
<1>7. CASE \E c \in Candles : TickWithCandle(c)
  <2> PICK c \in Candles : TickWithCandle(c)
    BY <1>7
  <2>1. pc = "idle" /\ pc' = "fill" /\ sending = 0
    BY <1>1, <1>2 DEF TickWithCandle, TypeOK
  <2>2. tick' \in 0 .. MaxTicks /\ answered' \in 0 .. tick'
    BY <1>1, <1>2, BoundsAssumption DEF TickWithCandle, TypeOK
  <2>3. UNCHANGED <<sending, bookVars, notifyVars>> /\ Received' = Received
    BY DEF TickWithCandle, bookVars, Received
  <2>4. /\ candle' \in Candles /\ segment' \in Segments
        /\ lastFill' \in [segment : 0 .. 3, price : Prices]
    BY DEF TickWithCandle, Segments, NoFill, Prices
  <2>5. triggered' \cup rested' \cup dropped' \subseteq Received
    BY DEF TickWithCandle, Collect, Active
  <2> QED  BY <1>1, <2>1, <2>2, <2>3, <2>4, <2>5 DEF TypeOK, bookVars, notifyVars
<1>8. CASE \E i \in Received : FillOrder(i)
  <2> PICK i \in Received : FillOrder(i)
    BY <1>8
  <2> DEFINE price == TriggerPrice(orders[i], From(candle, segment))
  <2>1. price \in Prices
    <3>1. candle \in Candle /\ segment \in Segments /\ orders[i] \in Order
      BY <1>1, <1>2 DEF FillOrder, TypeOK
    <3>2. From(candle, segment) \in Nat
      BY <3>1, PathPoints
    <3> QED  BY <3>1, <3>2, TriggerPriceIsGood DEF Prices
  <2>2. status' \in [Received -> Statuses]
    BY <1>1 DEF FillOrder, TypeOK, Statuses
  <2>3. fillPrice' \in [Received -> Prices]
    <3>1. fillPrice' = [fillPrice EXCEPT ![i] = price]
      BY DEF FillOrder
    <3> HIDE DEF price
    <3> QED  BY <1>1, <2>1, <3>1 DEF TypeOK
  <2>4. lastFill' \in [segment : 0 .. 3, price : Prices]
    <3>1. lastFill' = [segment |-> segment, price |-> price] /\ segment \in 0 .. 3
      BY <1>1 DEF FillOrder, TypeOK, Segments
    <3> HIDE DEF price
    <3> QED  BY <2>1, <3>1
  <2>5. /\ pc = "fill" /\ pc' = "sending" /\ sending' = i /\ i # 0
        /\ triggered' \subseteq Received
    BY <1>1, <1>2 DEF FillOrder, TypeOK
  <2>6. UNCHANGED <<tick, answered, dropped, orders, candle, segment, rested, notifyVars>>
        /\ Received' = Received
    BY DEF FillOrder, Received
  <2>7. candle \in Candles
    BY <1>1, <2>5 DEF TypeOK
  <2> QED  BY <1>1, <2>2, <2>3, <2>4, <2>5, <2>6, <2>7 DEF TypeOK, notifyVars
<1>9. CASE CancelSiblings
  <2>1. status' \in [Received -> Statuses]
    BY <1>1, <1>9 DEF CancelSiblings, TypeOK, Statuses
  <2>2. pc = "sending" /\ pc' = "fill" /\ sending' = 0 /\ candle \in Candles
    BY <1>1, <1>9 DEF CancelSiblings, TypeOK
  <2>3. UNCHANGED <<tick, answered, dropped, orders, fillPrice, pathVars, notifyVars>>
        /\ Received' = Received
    BY <1>9 DEF CancelSiblings, Received
  <2> QED  BY <1>1, <2>1, <2>2, <2>3 DEF TypeOK, pathVars, notifyVars
<1>10. CASE NextSegment
  <2>1. segment' \in Segments /\ triggered' \subseteq Received
    BY <1>1, <1>10 DEF NextSegment, TypeOK, Segments, Collect, Active
  <2>2. UNCHANGED <<pc, tick, answered, sending, dropped, bookVars, candle, lastFill, rested,
                    notifyVars>> /\ Received' = Received
    BY <1>10 DEF NextSegment, bookVars, Received
  <2> QED  BY <1>1, <2>1, <2>2 DEF TypeOK, bookVars, notifyVars
<1>11. CASE ClearOrders
  <2>1. status' \in [Received -> Statuses]
    BY <1>1, <1>11 DEF ClearOrders, TypeOK, Statuses
  <2>2. /\ pc = "fill" /\ pc' = "notify" /\ candle \in Candles /\ dropped' \subseteq Received
        /\ toNotify' \subseteq Senders /\ notifySize' \in Nat
    BY <1>1, <1>2, <1>11 DEF ClearOrders, TypeOK, Active
  <2>3. UNCHANGED <<tick, answered, sending, orders, fillPrice, pathVars, subscribed, disturbed>>
        /\ Received' = Received
    BY <1>11 DEF ClearOrders, Received
  <2> QED  BY <1>1, <2>1, <2>2, <2>3 DEF TypeOK, pathVars
<1>12. CASE NotifyRaises \/ AnswerTick
  <2>1. pc = "notify" /\ pc' = "idle" /\ answered' \in 0 .. tick
    BY <1>1, <1>2, <1>12 DEF NotifyRaises, AnswerTick, TypeOK
  <2>2. UNCHANGED <<tick, sending, dropped, bookVars, pathVars, notifyVars>>
        /\ Received' = Received
    BY <1>12 DEF NotifyRaises, AnswerTick, bookVars, Received
  <2> QED  BY <1>1, <2>1, <2>2 DEF TypeOK, bookVars, pathVars, notifyVars
<1>13. CASE UNCHANGED vars
  BY <1>1, <1>13 DEF TypeOK, vars, bookVars, pathVars, notifyVars, Received
<1> QED  BY <1>3, <1>4, <1>5, <1>6, <1>7, <1>8, <1>9, <1>10, <1>11, <1>12, <1>13 DEF Next

\* The steps, those that touch neither the book nor the path taken together.
LEMMA NextCases ==
  ASSUME TypeOK, [Next]_vars
  PROVE  \/ \E o \in Requests : HandleTradeRequest(o)
         \/ Quiet /\ Received' = Received /\ Active' = Active
         \/ TickWithoutNewCandle
         \/ \E c \in Candles : TickWithCandle(c)
         \/ \E i \in Received : FillOrder(i)
         \/ CancelSiblings \/ NextSegment \/ ClearOrders
BY QuietSteps DEF Next

-----------------------------------------------------------------------------
LEMMA FilledStep ==
  ASSUME IInv, [Next]_vars
  PROVE  FilledWithinPrice'
<1> USE DEF FilledWithinPrice
<1>1. TypeOK /\ FilledWithinPrice
  BY DEF IInv
<1>2. CASE \E o \in Requests : HandleTradeRequest(o)
  <2> PICK o \in Requests : HandleTradeRequest(o)
    BY <1>2
  <2>1. /\ Received' = Received \cup {Len(orders) + 1}
        /\ \A i \in Received : orders'[i] = orders[i] /\ status'[i] = status[i]
        /\ \A i \in Received : fillPrice'[i] = fillPrice[i]
        /\ status'[Len(orders) + 1] # "FILLED"
    BY <1>1, BookGrows
  <2>2. \A i \in Received' : status'[i] = "FILLED" => i \in Received
    BY <2>1
  <2> QED  BY <1>1, <2>1, <2>2
<1>3. CASE Quiet /\ Received' = Received
  BY <1>1, <1>3 DEF Quiet, bookVars
<1>4. CASE \/ TickWithoutNewCandle \/ \E c \in Candles : TickWithCandle(c)
           \/ CancelSiblings \/ NextSegment \/ ClearOrders
  <2>1. UNCHANGED <<orders, fillPrice>>
    BY <1>4 DEF TickWithoutNewCandle, TickWithCandle, CancelSiblings, NextSegment, ClearOrders,
                bookVars
  <2>2. Received' = Received
    BY <2>1, SameBook
  <2>3. \A i \in Received : status'[i] = "FILLED" => status[i] = "FILLED"
    BY <1>4 DEF TickWithoutNewCandle, TickWithCandle, CancelSiblings, NextSegment, ClearOrders,
                bookVars
  <2> QED  BY <1>1, <2>1, <2>2, <2>3
<1>5. CASE \E i \in Received : FillOrder(i)
  <2> PICK i \in Received : FillOrder(i)
    BY <1>5
  <2> DEFINE from == From(candle, segment)
             price == TriggerPrice(orders[i], from)
  <2>1. candle \in Candle /\ segment \in Segments /\ orders[i] \in Order
    BY <1>1, BookType DEF FillOrder
  <2>2. from \in Nat
    BY <2>1, PathPoints
  <2>3. /\ WaitsForLow(orders[i]) => price <= orders[i].price
        /\ WaitsForHigh(orders[i]) => price >= orders[i].price
    <3> HIDE DEF from
    <3> QED  BY <2>1, <2>2, TriggerPriceIsGood
  <2>4. /\ status' = [status EXCEPT ![i] = "FILLED"]
        /\ fillPrice' = [fillPrice EXCEPT ![i] = price]
        /\ UNCHANGED orders /\ Received' = Received
    BY DEF FillOrder, Received
  <2>5. /\ status \in [Received -> Statuses] /\ fillPrice \in [Received -> Prices]
    BY <1>1 DEF TypeOK
  <2>6. \A j \in Received : j # i => status'[j] = status[j] /\ fillPrice'[j] = fillPrice[j]
    BY <2>4, <2>5
  <2>7. fillPrice'[i] = price
    BY <2>4, <2>5
  <2> HIDE DEF price, from
  <2> QED  BY <1>1, <2>3, <2>4, <2>6, <2>7
<1> QED  BY <1>1, <1>2, <1>3, <1>4, <1>5, NextCases

-----------------------------------------------------------------------------
\* The orders collected for a segment trigger in it.
LEMMA CollectedTriggers ==
  ASSUME NEW c, NEW i, NEW k \in Collect(c, i)
  PROVE  k \in Active /\ Triggers(orders[k], From(c, i), To(c, i))
BY DEF Collect

LEMMA CollectedStep ==
  ASSUME IInv, [Next]_vars
  PROVE  CollectedInv'
<1> USE DEF CollectedInv
<1>1. /\ TypeOK /\ CollectedInv
      /\ segment \in Nat /\ lastFill.segment \in Nat
      /\ triggered \subseteq Received
  BY DEF IInv, TypeOK, Segments
<1>2. CASE \E o \in Requests : HandleTradeRequest(o)
  <2> PICK o \in Requests : HandleTradeRequest(o)
    BY <1>2
  <2>1. \A k \in triggered : orders'[k] = orders[k]
    BY <1>1, BookGrows
  <2>2. UNCHANGED <<pc, candle, segment, triggered, lastFill>>
    BY DEF HandleTradeRequest, pathVars
  <2> QED  BY <1>1, <2>1, <2>2 DEF Filling
<1>3. CASE Quiet
  BY <1>1, <1>3 DEF Quiet, bookVars, pathVars
<1>4. CASE TickWithoutNewCandle \/ ClearOrders
  BY <1>4 DEF TickWithoutNewCandle, ClearOrders, Filling
<1>5. CASE \E c \in Candles : TickWithCandle(c)
  <2> PICK c \in Candles : TickWithCandle(c)
    BY <1>5
  <2>1. /\ candle' = c /\ segment' = 1 /\ triggered' = Collect(c, 1) /\ lastFill' = NoFill
        /\ UNCHANGED orders
    BY DEF TickWithCandle, bookVars
  <2>2. lastFill'.segment = 0
    BY <2>1 DEF NoFill
  <2> QED  BY <2>1, <2>2, CollectedTriggers
<1>6. CASE \E i \in Received : FillOrder(i)
  <2> PICK i \in Received : FillOrder(i)
    BY <1>6
  <2>1. /\ Filling /\ triggered' \subseteq triggered
        /\ UNCHANGED <<orders, candle, segment>>
    BY DEF FillOrder, Filling
  <2>2. lastFill'.segment = segment
    BY DEF FillOrder
  <2> QED  BY <1>1, <2>1, <2>2
<1>7. CASE CancelSiblings
  <2>1. Filling /\ UNCHANGED <<orders, candle, segment, triggered, lastFill>>
    BY <1>7 DEF CancelSiblings, Filling, pathVars
  <2> QED  BY <1>1, <2>1
<1>8. CASE NextSegment
  <2>1. /\ Filling /\ segment' = segment + 1 /\ triggered' = Collect(candle, segment')
        /\ UNCHANGED <<orders, candle, lastFill>>
    BY <1>8 DEF NextSegment, Filling, bookVars
  <2>2. lastFill'.segment <= segment'
    BY <1>1, <2>1
  <2> QED  BY <2>1, <2>2, CollectedTriggers
<1> QED  BY <1>1, <1>2, <1>3, <1>4, <1>5, <1>6, <1>7, <1>8, NextCases

LEMMA AheadStep ==
  ASSUME IInv, [Next]_vars
  PROVE  AheadInv'
<1> USE DEF AheadInv
<1>1. /\ TypeOK /\ CollectedInv /\ AheadInv
      /\ segment \in Nat /\ lastFill.segment \in Nat
      /\ triggered \subseteq Received
  BY DEF IInv, TypeOK, Segments
<1>2. CASE \E o \in Requests : HandleTradeRequest(o)
  <2> PICK o \in Requests : HandleTradeRequest(o)
    BY <1>2
  <2>1. /\ \A k \in triggered : orders'[k] = orders[k] /\ status'[k] = status[k]
        /\ Received \subseteq Received'
    BY <1>1, BookGrows
  <2>2. UNCHANGED <<pc, candle, segment, triggered, lastFill>>
    BY DEF HandleTradeRequest, pathVars
  <2>3. (triggered \cap Active)' = triggered \cap Active
    BY <1>1, <2>1, <2>2 DEF Active
  <2> QED  BY <1>1, <2>1, <2>2, <2>3 DEF Filling
<1>3. CASE Quiet /\ Active' = Active
  BY <1>1, <1>3 DEF Quiet, bookVars, pathVars
<1>4. CASE TickWithoutNewCandle \/ ClearOrders
  BY <1>4 DEF TickWithoutNewCandle, ClearOrders, Filling
<1>5. CASE \E c \in Candles : TickWithCandle(c)
  <2>1. lastFill'.segment = 0 /\ segment' = 1
    BY <1>5 DEF TickWithCandle, NoFill
  <2> QED  BY <2>1
<1>6. CASE \E i \in Received : FillOrder(i)
  <2> PICK i \in Received : FillOrder(i)
    BY <1>6
  <2> DEFINE from == From(candle, segment)
             to == To(candle, segment)
  <2>1. /\ i \in triggered \cap Active /\ triggered' = triggered \ {i}
        /\ \A j \in (triggered \cap Active) \ {i} : Before(i, j)
        /\ status' = [status EXCEPT ![i] = "FILLED"]
        /\ lastFill' = [segment |-> segment, price |-> TriggerPrice(orders[i], from)]
        /\ UNCHANGED <<orders, candle, segment>> /\ Received' = Received
    BY DEF FillOrder, Received
  <2>2. lastFill'.price = TriggerPrice(orders[i], from)
    BY <2>1
  <2>3. (triggered \cap Active)' = (triggered \cap Active) \ {i}
    <3>1. status \in [Received -> Statuses]
      BY <1>1 DEF TypeOK
    <3> QED  BY <2>1, <3>1 DEF Active
  <2>4. pc = "fill" /\ candle \in Candle /\ segment \in Segments
    BY <1>1, BookType DEF FillOrder
  <2>5. from \in Nat /\ to \in Nat
    BY <2>4, PathPoints
  <2>6. \A k \in triggered \cap Active : TriggerPrice(orders[k], from) \in Nat
    BY <1>1, <2>5, BookType, TriggerPriceIsGood
  <2>7. ASSUME NEW k \in (triggered \cap Active) \ {i}
        PROVE  IF to > from THEN lastFill'.price <= TriggerPrice(orders[k], from)
                            ELSE lastFill'.price >= TriggerPrice(orders[k], from)
    <3>1. Before(i, k)
      BY <2>1
    <3>2. TriggerPrice(orders[i], from) \in Nat /\ TriggerPrice(orders[k], from) \in Nat
      BY <2>1, <2>6
    <3> QED  BY <2>2, <3>1, <3>2 DEF Before
  <2> QED  BY <2>1, <2>3, <2>7
<1>7. CASE CancelSiblings
  <2>1. Filling /\ UNCHANGED <<orders, candle, segment, triggered, lastFill>>
    BY <1>7 DEF CancelSiblings, Filling, pathVars
  <2>2. Active' \subseteq Active
    BY <1>7, SameBook DEF CancelSiblings, Active
  <2> QED  BY <1>1, <2>1, <2>2
<1>8. CASE NextSegment
  <2>1. Filling /\ segment' = segment + 1 /\ UNCHANGED lastFill
    BY <1>8 DEF NextSegment, Filling
  <2>2. lastFill'.segment # segment'
    BY <1>1, <2>1 DEF CollectedInv
  <2> QED  BY <2>2
<1> QED  BY <1>1, <1>2, <1>3, <1>4, <1>5, <1>6, <1>7, <1>8, NextCases

-----------------------------------------------------------------------------
LEMMA GroupStep ==
  ASSUME IInv, [Next]_vars
  PROVE  GroupInv'
<1> USE DEF GroupInv
<1>1. /\ TypeOK /\ GroupInv /\ rested \subseteq Received /\ status \in [Received -> Statuses]
      /\ (pc = "sending" <=> sending # 0) /\ \A i \in Received : i # 0
  BY BookType DEF IInv, TypeOK
<1>2. CASE \E o \in Requests : HandleTradeRequest(o)
  <2> PICK o \in Requests : HandleTradeRequest(o)
    BY <1>2
  <2>1. \A i \in Received : orders'[i] = orders[i] /\ status'[i] = status[i]
    BY <1>1, BookGrows
  <2>2. UNCHANGED <<rested, sending>>
    BY DEF HandleTradeRequest, pathVars
  <2>3. \A i, j \in rested : j \in Siblings(i)' => j \in Siblings(i)
    BY <1>1, <2>1 DEF Siblings
  <2> QED  BY <1>1, <2>1, <2>2, <2>3
<1>3. CASE Quiet
  <2>1. UNCHANGED <<orders, status, rested, sending>>
    BY <1>3 DEF Quiet, bookVars, pathVars
  <2> QED  BY <1>1, <2>1, SameBook
<1>4. CASE TickWithoutNewCandle \/ ClearOrders
  <2>1. /\ UNCHANGED <<orders, rested, sending>>
        /\ \A j \in Received : status'[j] = status[j] \/ status'[j] = "GONE"
    BY <1>4 DEF TickWithoutNewCandle, ClearOrders, pathVars
  <2> QED  BY <1>1, <2>1, SameBook
<1>5. CASE \E c \in Candles : TickWithCandle(c)
  <2>1. rested' = Active /\ UNCHANGED <<orders, status>>
    BY <1>5 DEF TickWithCandle, bookVars
  <2> QED  BY <1>1, <2>1 DEF Active
<1>6. CASE \E i \in Received : FillOrder(i)
  <2> PICK i \in Received : FillOrder(i)
    BY <1>6
  <2>1. /\ status' = [status EXCEPT ![i] = "FILLED"] /\ status[i] = "ACTIVE"
        /\ sending' = i /\ pc = "fill" /\ sending = 0
        /\ UNCHANGED <<orders, rested>>
    BY <1>1 DEF FillOrder, Active
  <2>2. \A h : Siblings(h)' = Siblings(h)
    BY <2>1, SameBook
  <2>3. status'[i] = "FILLED" /\ \A h \in Received \ {i} : status'[h] = status[h]
    BY <1>1, <2>1
  <2>4. ASSUME NEW h \in rested, NEW j \in rested, j \in Siblings(h), status'[h] = "FILLED"
        PROVE  status'[j] # "FILLED" /\ (status'[j] = "ACTIVE" => h = i)
    <3>1. j # h /\ h \in Siblings(j)
      BY <2>4, <1>1 DEF Siblings
    <3>2. CASE h = i
      <4>1. status[j] # "FILLED"
        BY <1>1, <2>1, <3>1, <3>2
      <4> QED  BY <1>1, <2>3, <3>1, <3>2, <4>1
    <3>3. CASE h # i
      <4>1. status[h] = "FILLED" /\ h # 0
        BY <1>1, <2>3, <2>4, <3>3
      <4>2. status[j] # "FILLED" /\ status[j] # "ACTIVE"
        BY <1>1, <2>1, <2>4, <4>1
      <4> QED  BY <1>1, <2>1, <2>3, <4>2
    <3> QED  BY <3>2, <3>3
  <2> QED  BY <2>1, <2>2, <2>4
<1>7. CASE CancelSiblings
  <2>1. /\ UNCHANGED <<orders, rested>>
        /\ \A j \in Received : status'[j] = IF j \in Siblings(sending) /\ j \in Active
                                            THEN "CANCELED" ELSE status[j]
    BY <1>7 DEF CancelSiblings, pathVars
  <2>2. ASSUME NEW h \in rested, NEW j \in rested, j \in Siblings(h), status'[h] = "FILLED"
        PROVE  status'[j] # "FILLED" /\ status'[j] # "ACTIVE"
    <3>1. status[h] = "FILLED"
      BY <1>1, <2>1, <2>2
    <3>2. status[j] # "FILLED" /\ (status[j] = "ACTIVE" => h = sending)
      BY <1>1, <2>2, <3>1
    <3> QED  BY <1>1, <2>1, <2>2, <3>2 DEF Active
  <2> QED  BY <2>1, <2>2, SameBook
<1>8. CASE NextSegment
  <2>1. UNCHANGED <<orders, status, rested, sending>>
    BY <1>8 DEF NextSegment, bookVars
  <2> QED  BY <1>1, <2>1, SameBook
<1> QED  BY <1>1, <1>2, <1>3, <1>4, <1>5, <1>6, <1>7, <1>8, NextCases

-----------------------------------------------------------------------------
LEMMA ReachStep ==
  ASSUME IInv, [Next]_vars
  PROVE  ReachInv' /\ NoTriggerMissed'
<1> USE DEF ReachInv, NoTriggerMissed
<1>1. /\ TypeOK /\ ReachInv /\ NoTriggerMissed
      /\ rested \subseteq Received /\ status \in [Received -> Statuses]
      /\ segment \in Segments
      /\ \A i \in Received : orders[i] \in Order
      /\ (pc # "idle" => candle \in Candle)
  BY BookType DEF IInv, TypeOK
<1>2. CASE \E o \in Requests : HandleTradeRequest(o)
  <2> PICK o \in Requests : HandleTradeRequest(o)
    BY <1>2
  <2>1. \A i \in Received : orders'[i] = orders[i] /\ status'[i] = status[i]
    BY <1>1, BookGrows
  <2>2. UNCHANGED <<pc, rested, candle, segment, triggered>>
    BY DEF HandleTradeRequest, pathVars
  <2> QED  BY <1>1, <2>1, <2>2 DEF Filling
<1>3. CASE Quiet
  <2>1. UNCHANGED <<orders, status, rested, candle, segment, triggered>> /\ Filling' = Filling
        /\ (pc' = "notify" => pc = "notify")
    BY <1>3 DEF Quiet, bookVars, pathVars
  <2> QED  BY <1>1, <2>1
<1>4. CASE TickWithoutNewCandle
  BY <1>4 DEF TickWithoutNewCandle, Filling
<1>5. CASE \E c \in Candles : TickWithCandle(c)
  <2>1. rested' = Active /\ segment' = 1 /\ pc' = "fill" /\ UNCHANGED status
    BY <1>5 DEF TickWithCandle, bookVars
  <2> QED  BY <2>1 DEF Active
<1>6. CASE \E i \in Received : FillOrder(i)
  <2> PICK i \in Received : FillOrder(i)
    BY <1>6
  <2>1. /\ status' = [status EXCEPT ![i] = "FILLED"] /\ triggered' = triggered \ {i}
        /\ Filling /\ pc' = "sending"
        /\ UNCHANGED <<orders, rested, candle, segment>>
    BY DEF FillOrder, Filling
  <2>2. status'[i] = "FILLED" /\ \A h \in Received \ {i} : status'[h] = status[h]
    BY <1>1, <2>1
  <2> QED  BY <1>1, <2>1, <2>2
<1>7. CASE CancelSiblings
  <2>1. /\ UNCHANGED <<orders, rested, candle, segment, triggered>> /\ Filling /\ pc' = "fill"
        /\ \A j \in Received : status'[j] = status[j] \/ status'[j] = "CANCELED"
    BY <1>7 DEF CancelSiblings, pathVars, Filling
  <2> QED  BY <1>1, <2>1
<1>8. CASE NextSegment
  <2>1. /\ UNCHANGED <<orders, status, rested, candle>> /\ Filling /\ pc' = "fill"
        /\ segment' = segment + 1 /\ triggered' = Collect(candle, segment')
        /\ triggered \cap Active = {} /\ pc = "fill"
    BY <1>8 DEF NextSegment, Filling, bookVars
  <2>2. ASSUME NEW i \in rested, Moves(candle), WithinReach(orders[i], candle),
               status[i] = "ACTIVE"
        PROVE  segment' = 2 /\ i \in triggered'
    <3>1. i \in Active
      BY <1>1, <2>2 DEF Active
    <3>2. segment = 1
      BY <1>1, <2>1, <2>2, <3>1
    <3>3. Triggers(orders[i], From(candle, 2), To(candle, 2))
      BY <1>1, <2>1, <2>2, ReachTriggers
    <3> QED  BY <2>1, <3>1, <3>2, <3>3 DEF Collect
  <2> QED  BY <1>1, <2>1, <2>2
<1>9. CASE ClearOrders
  <2>1. /\ UNCHANGED <<orders, rested, candle>> /\ Filling /\ pc' = "notify" /\ segment = 3
        /\ \A i \in Received : status'[i] = IF i \in Active THEN "GONE" ELSE status[i]
    BY <1>9 DEF ClearOrders, Filling, pathVars
  <2>2. ASSUME NEW i \in rested, Moves(candle), WithinReach(orders[i], candle)
        PROVE  status'[i] \in {"FILLED", "CANCELED"}
    <3>1. status[i] # "ACTIVE" /\ status[i] # "GONE"
      BY <1>1, <2>1, <2>2
    <3> QED  BY <1>1, <2>1, <3>1 DEF Active, Statuses
  <2> QED  BY <2>1, <2>2 DEF Filling
<1> QED  BY <1>1, <1>2, <1>3, <1>4, <1>5, <1>6, <1>7, <1>8, <1>9, NextCases

-----------------------------------------------------------------------------
LEMMA MovementStep ==
  ASSUME IInv, [Next]_vars
  PROVE  NoFillWithoutMovement'
<1> USE DEF NoFillWithoutMovement
<1>1. TypeOK /\ CollectedInv /\ NoFillWithoutMovement
  BY DEF IInv
<1>2. CASE \/ \E o \in Requests : HandleTradeRequest(o)
           \/ Quiet
  BY <1>1, <1>2 DEF HandleTradeRequest, Quiet, pathVars
<1>3. CASE \/ TickWithoutNewCandle \/ \E c \in Candles : TickWithCandle(c)
           \/ CancelSiblings \/ NextSegment \/ ClearOrders
  BY <1>3 DEF TickWithoutNewCandle, TickWithCandle, CancelSiblings, NextSegment, ClearOrders
<1>4. CASE \E i \in Received : FillOrder(i)
  <2> PICK i \in Received : FillOrder(i)
    BY <1>4
  <2>1. /\ candle \in Candle /\ segment \in Segments /\ Filling /\ i \in triggered
        /\ UNCHANGED candle
    BY <1>1, BookType DEF FillOrder, Filling
  <2>2. Triggers(orders[i], From(candle, segment), To(candle, segment))
    BY <1>1, <2>1 DEF CollectedInv
  <2> QED  BY <2>1, <2>2, TriggersMove
<1> QED  BY <1>1, <1>2, <1>3, <1>4, NextCases

LEMMA AnsweredStep ==
  ASSUME IInv, [Next]_vars
  PROVE  AnsweredInv'
<1>1. /\ TypeOK /\ AnsweredInv /\ tick \in Nat /\ answered \in Nat /\ answered <= tick
      /\ disturbed \in BOOLEAN
  BY BoundsAssumption DEF IInv, TypeOK
<1>2. CASE \/ \E o \in Requests : HandleTradeRequest(o)
           \/ \E i \in Received : FillOrder(i)
           \/ \E s \in Senders : Notify(s)
           \/ CancelSiblings \/ NextSegment \/ UNCHANGED vars
  <2>1. /\ UNCHANGED <<tick, answered, disturbed, subscribed, notifySize>>
        /\ (pc' = "idle" <=> pc = "idle") /\ (pc' = "notify" => pc = "notify")
    BY <1>2 DEF HandleTradeRequest, FillOrder, CancelSiblings, NextSegment, Notify, vars,
                notifyVars
  <2> QED  BY <1>1, <2>1 DEF AnsweredInv
<1>3. CASE \E s \in Comers : Resubscribe(s)
  <2>1. UNCHANGED <<pc, tick, answered, notifySize>>
    BY <1>3 DEF Resubscribe
  <2>2. ~disturbed' => ~disturbed /\ pc # "notify"
    BY <1>3 DEF Resubscribe
  <2> QED  BY <1>1, <2>1, <2>2 DEF AnsweredInv
<1>4. CASE TickBeforeFirstCandle \/ TickWithoutNewCandle
  <2>1. /\ pc = "idle" /\ pc' = "idle" /\ tick' = tick + 1 /\ answered' = answered + 1
        /\ UNCHANGED disturbed
    BY <1>4 DEF TickBeforeFirstCandle, TickWithoutNewCandle, notifyVars
  <2> QED  BY <1>1, <2>1 DEF AnsweredInv
<1>5. CASE \E c \in Candles : TickWithCandle(c)
  <2>1. /\ pc = "idle" /\ pc' = "fill" /\ tick' = tick + 1 /\ UNCHANGED <<answered, disturbed>>
    BY <1>5 DEF TickWithCandle, notifyVars
  <2> QED  BY <1>1, <2>1 DEF AnsweredInv
<1>6. CASE ClearOrders
  <2>1. /\ pc = "fill" /\ pc' = "notify" /\ UNCHANGED <<tick, answered, disturbed, subscribed>>
        /\ notifySize' = Cardinality(subscribed)
    BY <1>6 DEF ClearOrders
  <2> QED  BY <1>1, <2>1 DEF AnsweredInv
<1>7. CASE NotifyRaises
  <2>1. /\ pc = "notify" /\ pc' = "idle" /\ Cardinality(subscribed) # notifySize
        /\ UNCHANGED <<tick, answered, disturbed>>
    BY <1>7 DEF NotifyRaises, notifyVars
  <2>2. disturbed'
    BY <1>1, <2>1 DEF AnsweredInv
  <2> QED  BY <2>1, <2>2 DEF AnsweredInv
<1>8. CASE AnswerTick
  <2>1. /\ pc = "notify" /\ pc' = "idle" /\ answered' = answered + 1
        /\ UNCHANGED <<tick, disturbed>>
    BY <1>8 DEF AnswerTick, notifyVars
  <2> QED  BY <1>1, <2>1 DEF AnsweredInv
<1> QED  BY <1>2, <1>3, <1>4, <1>5, <1>6, <1>7, <1>8 DEF Next

-----------------------------------------------------------------------------
(* The theorems. *)

\* IInv is inductive; the theorems below are parts of it.
THEOREM Inductive == Spec => []IInv
<1>1. Init => IInv
  BY InitInv
<1>2. IInv /\ [Next]_vars => IInv'
  BY TypeStep, FilledStep, CollectedStep, AheadStep, GroupStep, ReachStep, MovementStep,
     AnsweredStep DEF IInv
<1> QED  BY <1>1, <1>2, PTL DEF Spec

\* Every variable of the candle exchange keeps its type.
THEOREM TypeCorrect == Spec => []TypeOK
<1>1. IInv => TypeOK
  BY DEF IInv
<1> QED  BY <1>1, Inductive, PTL

\* No order is filled on the wrong side of its own price.
THEOREM PricesRespected == Spec => []FilledWithinPrice
<1>1. IInv => FilledWithinPrice
  BY DEF IInv
<1> QED  BY <1>1, Inductive, PTL

\* Of the orders of an OCO group that rested together at most one is filled.
THEOREM OneFillPerGroup == Spec => []OneOfEachGroup
<1>1. IInv => OneOfEachGroup
  <2> SUFFICES ASSUME IInv PROVE OneOfEachGroup
    OBVIOUS
  <2>1. GroupInv
    BY DEF IInv
  <2> QED  BY <2>1 DEF GroupInv, OneOfEachGroup
<1> QED  BY <1>1, Inductive, PTL

\* An order within the range of a candle that moves is not missed.
THEOREM NothingMissed == Spec => []NoTriggerMissed
<1>1. IInv => NoTriggerMissed
  BY DEF IInv
<1> QED  BY <1>1, Inductive, PTL

\* A candle whose price stands still fills nothing.
THEOREM StandingFillsNothing == Spec => []NoFillWithoutMovement
<1>1. IInv => NoFillWithoutMovement
  BY DEF IInv
<1> QED  BY <1>1, Inductive, PTL

\* Each tick is answered while nobody subscribes during the notifications.
THEOREM EveryTickAnswered == Spec => []TicksAnswered
<1>1. IInv => TicksAnswered
  BY DEF IInv, AnsweredInv, TicksAnswered
<1> QED  BY <1>1, Inductive, PTL

\* Fills are made along the price path of the candle.
THEOREM FillsAlongThePath == Spec => FillsFollowThePath
<1> DEFINE from == From(candle, segment)
           to == To(candle, segment)
           last == IF lastFill.segment = segment THEN lastFill.price ELSE from
           Follows == pc' = "sending" /\ pc = "fill" =>
             IF to > from THEN last <= lastFill'.price /\ lastFill'.price <= to
                          ELSE last >= lastFill'.price /\ lastFill'.price >= to
<1>1. IInv /\ [Next]_vars => [Follows]_vars
  <2> SUFFICES ASSUME IInv, [Next]_vars, pc' = "sending", pc = "fill"
               PROVE  IF to > from THEN last <= lastFill'.price /\ lastFill'.price <= to
                                   ELSE last >= lastFill'.price /\ lastFill'.price >= to
    OBVIOUS
  <2>1. TypeOK /\ CollectedInv /\ AheadInv
    BY DEF IInv
  <2>2. PICK i \in Received : FillOrder(i)
    BY <2>1, NextCases DEF HandleTradeRequest, Quiet, TickWithoutNewCandle, TickWithCandle,
                           CancelSiblings, NextSegment, ClearOrders
  <2>3. /\ Filling /\ i \in triggered \cap Active /\ lastFill'.price = TriggerPrice(orders[i], from)
        /\ candle \in Candle /\ segment \in Segments /\ orders[i] \in Order
    BY <2>1, <2>2, BookType DEF FillOrder, Filling
  <2>4. from \in Nat /\ to \in Nat
    BY <2>3, PathPoints
  <2>5. Triggers(orders[i], from, to)
    BY <2>1, <2>3 DEF CollectedInv
  <2>6. /\ from < to => from <= lastFill'.price /\ lastFill'.price <= to
        /\ ~(from < to) => to <= lastFill'.price /\ lastFill'.price <= from
    <3> HIDE DEF from, to
    <3> QED  BY <2>3, <2>4, <2>5, TriggerPriceIsPassed
  <2>7. CASE lastFill.segment = segment
    <3>1. IF to > from THEN lastFill.price <= lastFill'.price
                       ELSE lastFill.price >= lastFill'.price
      BY <2>1, <2>3, <2>7 DEF AheadInv
    <3> HIDE DEF from, to
    <3> QED  BY <2>4, <2>6, <2>7, <3>1
  <2>8. CASE lastFill.segment # segment
    <3> HIDE DEF from, to
    <3> QED  BY <2>4, <2>6, <2>8
  <2> QED  BY <2>7, <2>8
<1>2. Spec => [][Follows]_vars
  <2> HIDE DEF Follows
  <2> QED  BY <1>1, Inductive, PTL DEF Spec
<1> QED  BY <1>2 DEF FillsFollowThePath
=============================================================================
