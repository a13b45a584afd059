------------------------------ MODULE TPlusOne ------------------------------
(***************************************************************************)
(* The A-share rules of the bridge trader (bridge_simulation.py) and its   *)
(* ledger of sellable shares (ashare_market_realism.py), for one           *)
(* instrument traded on the candle exchange.                               *)
(*                                                                         *)
(* A decision of tick n is sized to board lots, cut to what the ledger     *)
(* calls sellable, checked against the candle the trader has seen, and     *)
(* sent.  The exchange executes it against the candle of tick n, in its    *)
(* exchange phase of tick n + 1.  The fill and the TIME_TICK n + 1 reach   *)
(* the trader on two queues, in either order, and the ledger books the     *)
(* fill under the trader's clock of that moment.                           *)
(*                                                                         *)
(* Quantities are shares at a price of one, so a target weight is a target *)
(* quantity.                                                               *)
(***************************************************************************)
EXTENDS Integers

CONSTANTS
  MaxQty,         \* the largest position a target weight asks for
  Lot,            \* board_lot
  MinTrade,       \* min_trade_notional
  MaxTick,        \* ticks of the simulation
  DateOf,         \* tick -> calendar date; several ticks may share a date
  NoOrder         \* no order, no fill

ASSUME MaxQtyAssumption == MaxQty \in Nat
ASSUME LotAssumption == Lot \in Nat \ {0}
ASSUME MinTradeAssumption == MinTrade \in Nat
ASSUME TickAssumption == MaxTick \in Nat
ASSUME DateAssumption ==
  /\ DateOf \in [0 .. MaxTick -> Nat]
  /\ \A m, n \in 0 .. MaxTick : m <= n => DateOf[m] <= DateOf[n]

Actions == {"BUY", "SELL", "HOLD", "REDUCE", "EXIT"}
Sides == {"BUY", "SELL"}
\* The price of a candle moves, or it stands still from open to close: at
\* some price, or at one of the two price limits.
Candles == {"moves", "stands", "ONE_WORD_LIMIT_UP", "ONE_WORD_LIMIT_DOWN"}
Orders == [side : Sides, qty : 1 .. MaxQty]
ASSUME NoOrderAssumption == NoOrder \notin Orders

VARIABLES
  phase,          \* whose turn it is in the clock's tick
  tick,           \* the tick of the clock
  traderTick,     \* the tick of the trader's current_time
  candle,         \* the last closed candle
  order,          \* the order in the exchange's open_orders
  fill,           \* the TRADE_EXECUTION in the trader's queue
  longQty,        \* long_qty of the trader
  ledger,         \* InventoryState of the instrument
  marketQty,      \* history: the shares really held, as the exchange filled
  openQty,        \* history: marketQty at the start of the market date
  soldToday       \* history: shares sold since

vars == <<phase, tick, traderTick, candle, order, fill, longQty, ledger,
          marketQty, openQty, soldToday>>
history == <<marketQty, openQty, soldToday>>

-----------------------------------------------------------------------------
AtMost(a, b) == IF a <= b THEN a ELSE b
NoDate == -1

\* BoardLotSizer.size.
Size(side, raw, held, fullExit) ==
  LET rounded == (raw \div Lot) * Lot
      residual == held - rounded
  IN  IF raw <= 0 THEN 0
      ELSE IF side = "SELL" /\ fullExit /\ 0 < residual /\ residual < Lot /\ raw >= held
           THEN held
           ELSE rounded

\* Mutant: every look releases what was frozen.
SyncOnEveryLook(l, position, date) ==
  LET thawed == [l EXCEPT !.sellable = AtMost(position, @ + l.frozen),
                          !.frozen = 0, !.todayBuy = 0, !.date = date]
  IN  [thawed EXCEPT !.position = position, !.sellable = AtMost(@, position)]

\* Mutant: the frozen shares are reset and not released.
SyncThatForgets(l, position, date) ==
  LET thawed == IF l.date # date
                THEN [l EXCEPT !.frozen = 0, !.todayBuy = 0, !.date = date]
                ELSE l
  IN  [thawed EXCEPT !.position = position, !.sellable = AtMost(@, position)]

\* SellableInventoryLedger.sync_position: the first look on a new date
\* releases what was frozen.
Sync(l, position, date) ==
  LET thawed == IF l.date # date
                THEN [l EXCEPT !.sellable = AtMost(position, @ + l.frozen),
                               !.frozen = 0, !.todayBuy = 0, !.date = date]
                ELSE l
  IN  [thawed EXCEPT !.position = position, !.sellable = AtMost(@, position)]

RecordBuy(l, qty, date) ==
  LET s == Sync(l, l.position, date)
  IN  [s EXCEPT !.position = @ + qty, !.todayBuy = @ + qty, !.frozen = @ + qty]

RecordSell(l, qty, date) ==
  LET s == Sync(l, l.position, date)
      sold == AtMost(qty, s.sellable)
  IN  [s EXCEPT !.position = @ - sold, !.sellable = @ - sold]

\* ChinaPriceLimitGuard.evaluate, on the candle the trader has been shown.
CanFill(side, c) ==
  /\ side = "BUY" => c # "ONE_WORD_LIMIT_UP"
  /\ side = "SELL" => c # "ONE_WORD_LIMIT_DOWN"

\* What ChinaMicrostructureGuard.prepare_order lets through of raw shares;
\* zero when it blocks the order.  l is the ledger after max_sellable.
PreparedSell(raw, fullExit, l) ==
  LET rounded == Size("SELL", raw, longQty, fullExit)
  IN  IF rounded <= l.sellable THEN rounded
      ELSE Size("SELL", l.sellable, l.sellable, fullExit)
Prepared(side, raw, fullExit, l) ==
  IF ~CanFill(side, candle) THEN 0
  ELSE IF side = "BUY" THEN Size("BUY", raw, longQty, FALSE)
  ELSE PreparedSell(raw, fullExit, l)

-----------------------------------------------------------------------------
Init ==
  /\ phase = "exchange" /\ tick = 0 /\ traderTick = 0 /\ candle = "moves"
  /\ order = NoOrder /\ fill = NoOrder /\ longQty = 0
  /\ ledger = [position |-> 0, sellable |-> 0, todayBuy |-> 0, frozen |-> 0, date |-> NoDate]
  /\ marketQty = 0 /\ openQty = 0 /\ soldToday = 0

\* Does the candle of the tick before open a new date?
NewDate == tick > 1 /\ DateOf[tick - 1] # DateOf[tick - 2]

\* The exchange's handle_time_tick with a new candle c, that of the tick
\* before: the MARKET order placed in that tick is filled, on that tick's
\* date, unless no segment of the price path moves.
FillAgainst(c) ==
  LET filled == IF c = "moves" THEN order ELSE NoOrder
      sold == IF filled # NoOrder /\ filled.side = "SELL" THEN filled.qty ELSE 0
      bought == IF filled # NoOrder /\ filled.side = "BUY" THEN filled.qty ELSE 0
  IN  /\ fill' = filled
      /\ marketQty' = marketQty + bought - sold
      /\ openQty' = IF NewDate THEN marketQty ELSE openQty
      /\ soldToday' = IF NewDate THEN sold ELSE soldToday + sold

ExchangeTick(c) ==
  /\ phase = "exchange" /\ tick < MaxTick
  /\ FillAgainst(c)
  /\ candle' = c /\ order' = NoOrder /\ phase' = "trader"
  /\ UNCHANGED <<tick, traderTick, longQty, ledger>>

\* The same without a new candle (a suspension): the order is dropped.
ExchangeTickNoCandle ==
  /\ phase = "exchange" /\ tick < MaxTick
  /\ order' = NoOrder /\ phase' = "trader"
  /\ openQty' = IF NewDate THEN marketQty ELSE openQty
  /\ soldToday' = IF NewDate THEN 0 ELSE soldToday
  /\ UNCHANGED <<tick, traderTick, candle, fill, longQty, ledger, marketQty>>

\* The trader's TIME_TICK, on its time queue.
TraderTick ==
  /\ phase = "trader"
  /\ traderTick' = tick /\ phase' = "decide"
  /\ UNCHANGED <<tick, candle, order, fill, longQty, ledger, history>>

\* Mutant: the TRADE_EXECUTION may be delivered again after it was handled.
HandleFillAgain ==
  /\ fill # NoOrder
  /\ IF fill.side = "BUY"
     THEN /\ longQty' = longQty + fill.qty
          /\ ledger' = RecordBuy(ledger, fill.qty, DateOf[traderTick])
     ELSE /\ longQty' = longQty - AtMost(fill.qty, longQty)
          /\ ledger' = RecordSell(ledger, fill.qty, DateOf[traderTick])
  /\ fill' \in {NoOrder, fill}
  /\ UNCHANGED <<phase, tick, traderTick, candle, order, history>>

\* on_trade_execution: the trader's account, then record_filled under the
\* trader's date, which is the old or the new one.
HandleFill ==
  /\ fill # NoOrder
  /\ IF fill.side = "BUY"
     THEN /\ longQty' = longQty + fill.qty
          /\ ledger' = RecordBuy(ledger, fill.qty, DateOf[traderTick])
     ELSE /\ longQty' = longQty - AtMost(fill.qty, longQty)
          /\ ledger' = RecordSell(ledger, fill.qty, DateOf[traderTick])
  /\ fill' = NoOrder
  /\ UNCHANGED <<phase, tick, traderTick, candle, order, history>>

\* The clock advances when the decision is in.
EndTick == phase' = "exchange" /\ tick' = tick + 1

\* _execute_target_weight: buy only for a BUY above the position, sell for
\* anything below it and for every SELL, REDUCE or EXIT.  The fill lies in
\* the agent queue before the snapshot that led here, so it has been handled.
Trade(side, raw, fullExit) ==
  LET l == IF side = "SELL" /\ Size("SELL", raw, longQty, fullExit) > 0
           THEN Sync(ledger, longQty, DateOf[traderTick]) ELSE ledger
      qty == Prepared(side, raw, fullExit, l)
      trimmed == IF side = "SELL" THEN AtMost(qty, longQty) ELSE qty
  IN  /\ ledger' = l
      /\ order' \in IF trimmed > 0
                    THEN {NoOrder, [side |-> side, qty |-> trimmed]}  \* the send may fail
                    ELSE {NoOrder}

Decide(action, target) ==
  LET delta == target - longQty
      raw == IF delta < 0 THEN -delta ELSE delta
      side == IF delta > 0 /\ action = "BUY" THEN "BUY" ELSE "SELL"
  IN  /\ phase = "decide" /\ fill = NoOrder
      /\ action # "HOLD" /\ raw >= MinTrade /\ raw > 0
      /\ Trade(side, raw, action = "EXIT" \/ target = 0)
      /\ EndTick
      /\ UNCHANGED <<traderTick, candle, fill, longQty, history>>

\* No data, a HOLD, a difference below the minimum, or an exception.
NoTrade ==
  /\ phase = "decide" /\ fill = NoOrder
  /\ EndTick
  /\ UNCHANGED <<traderTick, candle, order, fill, longQty, ledger, history>>

Next ==
  \/ \E c \in Candles : ExchangeTick(c)
  \/ ExchangeTickNoCandle
  \/ TraderTick \/ HandleFill \/ NoTrade
  \/ \E a \in Actions, target \in 0 .. MaxQty : Decide(a, target)

Spec == Init /\ [][Next]_vars

-----------------------------------------------------------------------------
States == [position : 0 .. MaxQty, sellable : 0 .. MaxQty, todayBuy : 0 .. MaxQty,
           frozen : 0 .. MaxQty, date : Nat \cup {NoDate}]

\* Every variable keeps its type; no position, however long the run, exceeds
\* the largest target.
TypeOK ==
  /\ phase \in {"exchange", "trader", "decide"}
  /\ tick \in 0 .. MaxTick /\ traderTick \in 0 .. MaxTick
  /\ candle \in Candles
  /\ order \in Orders \cup {NoOrder} /\ fill \in Orders \cup {NoOrder}
  /\ longQty \in 0 .. MaxQty /\ ledger \in States
  /\ marketQty \in 0 .. MaxQty /\ openQty \in 0 .. MaxQty
  /\ soldToday \in Nat

\* T+1, in terms of what the exchange did and on the dates it did it: on no
\* date are more shares sold than were held when the date began, although
\* the ledger books under the trader's clock and fills race with TIME_TICK.
SoldOnlyFromEarlierDates == soldToday <= openQty

\* The ledger is a second account of the trader's position (record_filled
\* beside long_qty): the two never drift apart, and every share in it is
\* either sellable or frozen, so that no share is lost to later sales.
LedgerMatchesAccount ==
  /\ ledger.position = longQty
  /\ ledger.sellable + ledger.frozen = ledger.position

\* An order to sell is covered by the position until its fill is booked:
\* the account never ignores part of a sale the exchange has executed.
SalesCovered ==
  /\ order # NoOrder /\ order.side = "SELL" => order.qty <= longQty
  /\ fill # NoOrder /\ fill.side = "SELL" => fill.qty <= longQty

\* "Blocks same day sell and allows next day": when a decision is taken on a
\* later date than the last candle's, all shares held are sellable.
SellableOnTheNextDate ==
  phase = "decide" /\ fill = NoOrder /\ tick > 0 /\ DateOf[tick] # DateOf[tick - 1]
    => Sync(ledger, longQty, DateOf[traderTick]).sellable = longQty
=============================================================================
