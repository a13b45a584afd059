------------------------ MODULE BridgeDecision_proofs ------------------------
(***************************************************************************)
(* The execution of the bridge trader: T+1 holds for every lot size,       *)
(* calendar, length of run and sequence of decisions, although the ledger  *)
(* never sees the dates of the exchange.  And its decisions: the trader    *)
(* with them implements that execution, so that T+1 holds for it, whatever *)
(* regimes, debates, vetoes and failures there are; and what it buys stays *)
(* within the cap of the regime of the decision.                           *)
(*                                                                         *)
(* The argument: what was bought on the date of the last candle and booked *)
(* is still frozen while the ledger is at that date; an order to sell is   *)
(* within the shares sellable on the very date on which it executes.       *)
(* Whichever text a debate ends with, the parser, the cap and the risk     *)
(* rewrite yield a known action and a weight within the portfolio, so that *)
(* every step of the bridge is one of TPlusOne or leaves its variables     *)
(* alone.  Of its memory: the number of items above an item numbers the    *)
(* items, and what is left of the budget before the k-th is the budget     *)
(* without the cost of those told so far.                                  *)
(***************************************************************************)
EXTENDS BridgeDecision, Filters_proofs, FunctionTheorems

-----------------------------------------------------------------------------
(* The execution.                                                          *)

\* The candle the exchange processed last, if there was one.
LastCandle == IF phase = "exchange" THEN tick - 2 ELSE tick - 1

\* Shares bought on the date of the last candle, and those of them whose
\* fill the trader has not handled.
BoughtToday == marketQty - openQty + soldToday
InFlight(side) == IF fill # NoOrder /\ fill.side = side THEN fill.qty ELSE 0

TurnInv ==
  /\ phase # "exchange" => tick < MaxTick /\ order = NoOrder
  /\ phase = "exchange" => fill = NoOrder
  /\ tick = 0 => order = NoOrder
  /\ traderTick = IF phase = "decide" \/ tick = 0 THEN tick ELSE tick - 1
  /\ LastCandle < 0 => longQty = 0 /\ openQty = 0 /\ soldToday = 0 /\ fill = NoOrder

AccountInv ==
  /\ marketQty = longQty + InFlight("BUY") - InFlight("SELL")
  /\ LedgerMatchesAccount
  /\ ledger.todayBuy = ledger.frozen
  /\ \A o \in {order, fill} \ {NoOrder} :
       /\ o.side = "BUY" => longQty + o.qty <= MaxQty
       /\ o.side = "SELL" => o.qty <= ledger.sellable

DateInv ==
  /\ soldToday <= openQty
  /\ ledger.date <= DateOf[traderTick]
  /\ order # NoOrder /\ order.side = "SELL" => ledger.date = DateOf[tick - 1]
  /\ InFlight("BUY") <= BoughtToday
  /\ LastCandle >= 0 =>
       /\ ledger.date = DateOf[LastCandle] => BoughtToday - InFlight("BUY") <= ledger.frozen
       /\ ledger.date < DateOf[LastCandle] => BoughtToday = InFlight("BUY")

IInv == TypeOK /\ TurnInv /\ AccountInv /\ DateInv

-----------------------------------------------------------------------------
\* Rounding to lots never adds shares.
LEMMA SizeBound ==
  ASSUME NEW side \in Sides, NEW raw \in Nat, NEW held \in Nat, NEW fe \in BOOLEAN
  PROVE  Size(side, raw, held, fe) \in 0 .. raw
<1>1. (raw \div Lot) * Lot \in 0 .. raw BY LotAssumption
<1> QED BY <1>1 DEF Size

\* Looking at the ledger on a date keeps every share in it; on a new date all
\* of them are sellable.
LEMMA SyncFacts ==
  ASSUME NEW l \in States, NEW d \in Nat, l.sellable + l.frozen = l.position,
         l.todayBuy = l.frozen
  PROVE  /\ Sync(l, l.position, d) \in States
         /\ Sync(l, l.position, d).position = l.position
         /\ Sync(l, l.position, d).date = d
         /\ Sync(l, l.position, d).todayBuy = Sync(l, l.position, d).frozen
         /\ l.date = d => /\ Sync(l, l.position, d).sellable = l.sellable
                          /\ Sync(l, l.position, d).frozen = l.frozen
         /\ l.date # d => /\ Sync(l, l.position, d).sellable = l.position
                          /\ Sync(l, l.position, d).frozen = 0
<1>0. /\ l.position \in 0 .. MaxQty /\ l.sellable \in 0 .. MaxQty
      /\ l.frozen \in 0 .. MaxQty /\ l.todayBuy \in 0 .. MaxQty
  BY DEF States
<1>1. CASE l.date = d
  <2>1. Sync(l, l.position, d) =
          [l EXCEPT !.position = l.position, !.sellable = AtMost(l.sellable, l.position)]
    BY <1>1 DEF Sync
  <2>2. AtMost(l.sellable, l.position) = l.sellable BY <1>0, MaxQtyAssumption DEF AtMost
  <2>3. Sync(l, l.position, d) = l BY <2>1, <2>2 DEF States
  <2> QED BY <1>1, <2>3
<1>2. CASE l.date # d
  <2> DEFINE t == [l EXCEPT !.sellable = l.position, !.frozen = 0, !.todayBuy = 0, !.date = d]
  <2>1. AtMost(l.position, l.sellable + l.frozen) = l.position
    BY <1>0, MaxQtyAssumption DEF AtMost
  <2>2. Sync(l, l.position, d) = [t EXCEPT !.position = l.position, !.sellable = AtMost(t.sellable, l.position)]
    BY <1>2, <2>1 DEF Sync
  <2>3. t \in States
    <3>1. t = [[[[l EXCEPT !.sellable = l.position] EXCEPT !.frozen = 0]
                   EXCEPT !.todayBuy = 0] EXCEPT !.date = d]
      OBVIOUS
    <3>2. \A r \in States, q \in 0 .. MaxQty, e \in Nat :
            /\ [r EXCEPT !.sellable = q] \in States /\ [r EXCEPT !.frozen = q] \in States
            /\ [r EXCEPT !.todayBuy = q] \in States /\ [r EXCEPT !.date = e] \in States
      BY DEF States
    <3>3. 0 \in 0 .. MaxQty BY MaxQtyAssumption
    <3> HIDE DEF t
    <3> QED BY <1>0, <3>1, <3>2, <3>3
  <2>4. t.sellable = l.position /\ t.frozen = 0 /\ t.todayBuy = 0 /\ t.date = d BY DEF States
  <2>5. AtMost(t.sellable, l.position) = l.position BY <2>4 DEF AtMost
  <2> HIDE DEF t
  <2> QED BY <1>0, <1>2, <2>2, <2>3, <2>4, <2>5 DEF States
<1> QED BY <1>1, <1>2

LEMMA Dates ==
  /\ \A n \in 0 .. MaxTick : DateOf[n] \in Nat
  /\ \A m, n \in 0 .. MaxTick : m <= n => DateOf[m] <= DateOf[n]
BY DateAssumption

LEMMA InitIInv == Init => IInv
<1> SUFFICES ASSUME Init PROVE IInv OBVIOUS
<1> USE MaxQtyAssumption, TickAssumption, Dates DEF Init
<1>1. TypeOK
  <2>1. ledger \in States BY DEF States, NoDate
  <2>3. candle \in Candles BY DEF Candles
  <2>4. phase \in {"exchange", "trader", "decide"} OBVIOUS
  <2>5. tick \in 0 .. MaxTick /\ traderTick \in 0 .. MaxTick /\ longQty \in 0 .. MaxQty
        /\ marketQty \in 0 .. MaxQty /\ openQty \in 0 .. MaxQty /\ soldToday \in Nat
    OBVIOUS
  <2> QED BY <2>1, <2>3, <2>4, <2>5 DEF TypeOK
<1>2. TurnInv BY DEF TurnInv, LastCandle
<1>3. AccountInv BY DEF AccountInv, LedgerMatchesAccount, InFlight
<1>4. DateInv BY DEF DateInv, LastCandle, BoughtToday, InFlight, NoDate
<1> QED BY <1>1, <1>2, <1>3, <1>4 DEF IInv

LEMMA TraderTickStep == IInv /\ TraderTick => IInv'
<1> SUFFICES ASSUME IInv, TraderTick PROVE IInv' OBVIOUS
<1> USE TickAssumption, Dates DEF IInv, TraderTick, history
<1>1. TypeOK' BY DEF TypeOK
<1>2. TurnInv' BY DEF TurnInv, LastCandle, TypeOK
<1>3. AccountInv' BY DEF AccountInv, LedgerMatchesAccount, InFlight
<1>4. DateInv'
  <2>1. ledger.date \in Int /\ traderTick \in 0 .. MaxTick /\ traderTick <= tick
    BY DEF TypeOK, TurnInv, States, NoDate
  <2>2. ledger.date <= DateOf[tick] BY <2>1 DEF DateInv, TypeOK
  <2> QED BY <2>2 DEF DateInv, LastCandle, BoughtToday, InFlight, TurnInv
<1> QED BY <1>1, <1>2, <1>3, <1>4

LEMMA NoTradeStep == IInv /\ NoTrade => IInv'
<1> SUFFICES ASSUME IInv, NoTrade PROVE IInv' OBVIOUS
<1> USE TickAssumption, Dates DEF IInv, NoTrade, EndTick, history
<1>1. TypeOK' BY DEF TypeOK, TurnInv
<1>2. TurnInv' BY DEF TurnInv, LastCandle, TypeOK
<1>3. AccountInv' BY DEF AccountInv, LedgerMatchesAccount, InFlight
<1>4. DateInv'
  BY DEF DateInv, LastCandle, BoughtToday, InFlight, TurnInv, TypeOK
<1> QED BY <1>1, <1>2, <1>3, <1>4

\* The market side of a tick: the order becomes a fill, and the date of the
\* candle may have begun with it.
LEMMA ExchangeTickStep == ASSUME NEW c \in Candles PROVE IInv /\ ExchangeTick(c) => IInv'
<1> SUFFICES ASSUME IInv, ExchangeTick(c) PROVE IInv' OBVIOUS
<1> DEFINE x == IF c = "moves" THEN order ELSE NoOrder
           s == IF x # NoOrder /\ x.side = "SELL" THEN x.qty ELSE 0
           b == IF x # NoOrder /\ x.side = "BUY" THEN x.qty ELSE 0
<1>1. /\ fill' = x /\ order' = NoOrder /\ marketQty' = marketQty + b - s
      /\ openQty' = IF NewDate THEN marketQty ELSE openQty
      /\ soldToday' = IF NewDate THEN s ELSE soldToday + s
      /\ candle' = c /\ phase = "exchange" /\ phase' = "trader" /\ tick < MaxTick
      /\ UNCHANGED <<tick, traderTick, longQty, ledger>>
  BY DEF ExchangeTick, FillAgainst
<1>2. x = NoOrder \/ x = order OBVIOUS
<1> HIDE DEF x
<1>3. /\ TypeOK /\ TurnInv /\ AccountInv /\ DateInv
      /\ fill = NoOrder /\ InFlight("BUY") = 0 /\ InFlight("SELL") = 0
      /\ marketQty = longQty /\ ledger.position = longQty
      /\ ledger.sellable + ledger.frozen = longQty
  BY <1>1 DEF IInv, TypeOK, TurnInv, AccountInv, LedgerMatchesAccount, InFlight
<1>4. /\ s \in 0 .. MaxQty /\ b \in 0 .. MaxQty /\ (s = 0 \/ b = 0)
      /\ s <= ledger.sellable /\ longQty + b <= MaxQty
      /\ s > 0 => ledger.date = DateOf[tick - 1]
      /\ InFlight("BUY")' = b /\ InFlight("SELL")' = s
  <2>1. CASE x = NoOrder
    BY <1>1, <1>3, <2>1, MaxQtyAssumption DEF TypeOK, InFlight, States
  <2>2. CASE x # NoOrder
    BY <1>1, <1>2, <1>3, <2>2, MaxQtyAssumption
    DEF TypeOK, Orders, AccountInv, DateInv, InFlight, States
  <2> QED BY <2>1, <2>2
<1>5. /\ longQty \in 0 .. MaxQty /\ openQty \in 0 .. MaxQty /\ soldToday \in Nat
      /\ tick \in 0 .. MaxTick /\ traderTick \in 0 .. MaxTick
      /\ ledger.sellable \in 0 .. MaxQty /\ ledger.frozen \in 0 .. MaxQty
      /\ ledger.date \in Int
  BY <1>3 DEF TypeOK, States, NoDate
<1> HIDE DEF s, b
\* No sale exceeds what is left of the shares held when the date began.
<1>6. ~NewDate => soldToday + s <= openQty
  <2> SUFFICES ASSUME ~NewDate, s > 0 PROVE soldToday + s <= openQty
    BY <1>3, <1>4, <1>5 DEF DateInv
  <2>1. longQty > 0 BY <1>3, <1>4, <1>5
  <2>2. tick > 1 /\ LastCandle = tick - 2 BY <1>1, <1>3, <1>5, <2>1 DEF TurnInv, LastCandle
  <2>3. ledger.date = DateOf[LastCandle] BY <1>4, <2>2 DEF NewDate
  <2>4. BoughtToday <= ledger.frozen BY <1>3, <2>2, <2>3, <1>5 DEF DateInv, BoughtToday
  <2> QED BY <1>3, <1>4, <1>5, <2>4 DEF BoughtToday
<1>7. TypeOK'
  <2>1. marketQty' \in 0 .. MaxQty
    <3>1. s <= longQty /\ marketQty' = longQty + b - s BY <1>1, <1>3, <1>4, <1>5
    <3> QED BY <1>4, <1>5, <3>1, MaxQtyAssumption
  <2>2. openQty' \in 0 .. MaxQty /\ soldToday' \in Nat BY <1>1, <1>3, <1>4, <1>5
  <2> QED BY <1>1, <1>2, <1>3, <2>1, <2>2 DEF TypeOK
<1>8. TurnInv'
  <2>1. LastCandle' = tick - 1 /\ LastCandle = tick - 2 BY <1>1 DEF LastCandle
  <2>2. ASSUME tick = 0
        PROVE  longQty' = 0 /\ openQty' = 0 /\ soldToday' = 0 /\ fill' = NoOrder
    <3>1. x = NoOrder BY <1>2, <1>3, <2>2 DEF TurnInv
    <3>2. s = 0 BY <3>1 DEF s
    <3>3. ~NewDate BY <2>2 DEF NewDate
    <3>4. longQty = 0 /\ openQty = 0 /\ soldToday = 0 BY <1>3, <2>1, <2>2 DEF TurnInv
    <3> QED BY <1>1, <3>1, <3>2, <3>3, <3>4
  <2> QED BY <1>1, <1>3, <1>5, <2>1, <2>2 DEF TurnInv
<1>9. AccountInv'
  BY <1>1, <1>2, <1>3, <1>4, <1>5 DEF AccountInv, LedgerMatchesAccount
<1>10. DateInv'
  <2>1. LastCandle' = tick - 1 /\ LastCandle = tick - 2 BY <1>1 DEF LastCandle
  <2>2. soldToday' <= openQty'
    BY <1>1, <1>3, <1>4, <1>5, <1>6
  <2>3. BoughtToday' = IF NewDate THEN b ELSE BoughtToday + b
    BY <1>1, <1>3, <1>4, <1>5 DEF BoughtToday
  <2>4. BoughtToday \in Nat BY <1>3, <1>5 DEF DateInv, BoughtToday
  <2>5. CASE NewDate
    BY <1>1, <1>3, <1>4, <1>5, <2>1, <2>2, <2>3, <2>5 DEF DateInv
  <2>6. CASE ~NewDate /\ tick > 1
    <3>1. DateOf[LastCandle'] = DateOf[LastCandle] /\ LastCandle >= 0
      BY <1>5, <2>1, <2>6 DEF NewDate
    <3> QED BY <1>1, <1>3, <1>4, <1>5, <2>2, <2>3, <2>4, <2>6, <3>1 DEF DateInv
  <2>7. CASE tick <= 1
    <3>1. ~NewDate /\ LastCandle < 0 BY <1>5, <2>1, <2>7 DEF NewDate
    <3>2. BoughtToday = 0 BY <1>3, <1>5, <3>1 DEF TurnInv, BoughtToday
    <3>3. BoughtToday' = b BY <1>4, <2>3, <3>1, <3>2
    <3> QED BY <1>1, <1>3, <1>4, <1>5, <2>1, <2>2, <2>7, <3>3 DEF DateInv
  <2> QED BY <1>5, <2>5, <2>6, <2>7
<1> QED BY <1>7, <1>8, <1>9, <1>10 DEF IInv

LEMMA ExchangeTickNoCandleStep == IInv /\ ExchangeTickNoCandle => IInv'
<1> SUFFICES ASSUME IInv, ExchangeTickNoCandle PROVE IInv' OBVIOUS
<1>1. /\ fill' = fill /\ order' = NoOrder /\ marketQty' = marketQty
      /\ openQty' = IF NewDate THEN marketQty ELSE openQty
      /\ soldToday' = IF NewDate THEN 0 ELSE soldToday
      /\ phase = "exchange" /\ phase' = "trader" /\ tick < MaxTick
      /\ UNCHANGED <<tick, traderTick, candle, longQty, ledger>>
  BY DEF ExchangeTickNoCandle
<1>2. /\ TypeOK /\ TurnInv /\ AccountInv /\ DateInv
      /\ fill = NoOrder /\ InFlight("BUY") = 0 /\ InFlight("SELL") = 0
      /\ InFlight("BUY")' = 0 /\ InFlight("SELL")' = 0 /\ marketQty = longQty
  BY <1>1 DEF IInv, TypeOK, TurnInv, AccountInv, InFlight
<1>3. /\ longQty \in 0 .. MaxQty /\ openQty \in 0 .. MaxQty /\ soldToday \in Nat
      /\ tick \in 0 .. MaxTick /\ ledger.frozen \in 0 .. MaxQty /\ ledger.date \in Int
  BY <1>2 DEF TypeOK, States, NoDate
<1>4. TypeOK' BY <1>1, <1>2 DEF TypeOK
<1>5. TurnInv' BY <1>1, <1>2, <1>3 DEF TurnInv, LastCandle, NewDate
<1>6. AccountInv' BY <1>1, <1>2 DEF AccountInv, LedgerMatchesAccount
<1>7. DateInv'
  <2>1. LastCandle' = tick - 1 /\ LastCandle = tick - 2 BY <1>1 DEF LastCandle
  <2>2. BoughtToday' = IF NewDate THEN 0 ELSE BoughtToday
    BY <1>1, <1>2, <1>3 DEF BoughtToday
  <2>3. CASE NewDate BY <1>1, <1>2, <1>3, <2>1, <2>2, <2>3 DEF DateInv
  <2>4. CASE ~NewDate /\ tick > 1
    <3>1. DateOf[LastCandle'] = DateOf[LastCandle] /\ LastCandle >= 0
      BY <1>3, <2>1, <2>4 DEF NewDate
    <3> QED BY <1>1, <1>2, <1>3, <2>2, <2>4, <3>1 DEF DateInv
  <2>5. CASE tick <= 1
    <3>1. ~NewDate /\ LastCandle < 0 BY <1>3, <2>1, <2>5 DEF NewDate
    <3>2. BoughtToday' = 0 BY <1>2, <1>3, <2>2, <3>1 DEF TurnInv, BoughtToday
    <3> QED BY <1>1, <1>2, <1>3, <3>1, <3>2 DEF DateInv
  <2> QED BY <1>3, <2>3, <2>4, <2>5
<1> QED BY <1>4, <1>5, <1>6, <1>7 DEF IInv

\* The trader books a fill under its own date, which is that of the candle or
\* a later one.
LEMMA HandleFillStep == IInv /\ HandleFill => IInv'
<1> SUFFICES ASSUME IInv, HandleFill PROVE IInv' OBVIOUS
<1> DEFINE d == DateOf[traderTick]
           l == Sync(ledger, ledger.position, d)
<1>1. TypeOK /\ TurnInv /\ AccountInv /\ DateInv BY DEF IInv
<1>2. /\ fill # NoOrder /\ fill \in Orders /\ fill' = NoOrder
      /\ UNCHANGED <<phase, tick, traderTick, candle, order, marketQty, openQty, soldToday>>
  BY <1>1 DEF HandleFill, history, TypeOK
<1>3. /\ longQty \in 0 .. MaxQty /\ openQty \in 0 .. MaxQty /\ soldToday \in Nat
      /\ tick \in 0 .. MaxTick /\ traderTick \in 0 .. MaxTick /\ marketQty \in 0 .. MaxQty
      /\ ledger \in States /\ ledger.position = longQty
      /\ ledger.sellable + ledger.frozen = ledger.position
      /\ ledger.todayBuy = ledger.frozen
      /\ d \in Nat /\ fill.qty \in 1 .. MaxQty /\ fill.side \in Sides
      /\ ledger.date \in Int
  BY <1>1, <1>2, Dates DEF TypeOK, AccountInv, LedgerMatchesAccount, Orders, States, NoDate
<1>4. /\ phase \in {"trader", "decide"} /\ order = NoOrder
      /\ LastCandle = tick - 1 /\ LastCandle' = LastCandle /\ LastCandle \in 0 .. MaxTick
      /\ LastCandle <= traderTick /\ traderTick \in {tick, tick - 1}
  BY <1>1, <1>2, <1>3, TickAssumption DEF TypeOK, TurnInv, LastCandle
<1>5. DateOf[LastCandle] \in Nat /\ DateOf[LastCandle] <= d
  BY <1>3, <1>4, Dates
<1>6. /\ l \in States /\ l.position = longQty /\ l.date = d
      /\ l.sellable + l.frozen = longQty /\ l.todayBuy = l.frozen
      /\ ledger.date = d => l.sellable = ledger.sellable /\ l.frozen = ledger.frozen
      /\ ledger.date # d => l.sellable = longQty /\ l.frozen = 0
  BY <1>3, SyncFacts
<1>7. InFlight("BUY")' = 0 /\ InFlight("SELL")' = 0 BY <1>2 DEF InFlight
<1>8. /\ l.sellable \in 0 .. MaxQty /\ l.frozen \in 0 .. MaxQty
      /\ ledger.sellable \in 0 .. MaxQty /\ ledger.frozen \in 0 .. MaxQty
      /\ BoughtToday \in Int /\ BoughtToday' = BoughtToday
  BY <1>2, <1>3, <1>6 DEF States, BoughtToday
<1> HIDE DEF l, d
<1>9. CASE fill.side = "BUY"
  <2>1. /\ longQty' = longQty + fill.qty
        /\ ledger' = [l EXCEPT !.position = @ + fill.qty, !.todayBuy = @ + fill.qty,
                               !.frozen = @ + fill.qty]
    BY <1>2, <1>9 DEF HandleFill, RecordBuy, l, d
  <2>2. longQty + fill.qty \in 0 .. MaxQty
    BY <1>1, <1>2, <1>3, <1>9 DEF AccountInv
  <2>3. /\ ledger'.position = longQty + fill.qty /\ ledger'.sellable = l.sellable
        /\ ledger'.todayBuy = l.frozen + fill.qty /\ ledger'.frozen = l.frozen + fill.qty
        /\ ledger'.date = d
    BY <1>6, <2>1 DEF States
  <2>4. ledger' \in States
    <3>0. l.frozen <= longQty BY <1>3, <1>6, <1>8
    <3>1. l.frozen + fill.qty \in 0 .. MaxQty
      BY <1>3, <1>8, <2>2, <3>0, MaxQtyAssumption
    <3>2. \A r \in States, q \in 0 .. MaxQty : [r EXCEPT !.position = q, !.todayBuy = q] \in States
      BY DEF States
    <3>3. ledger' = [[l EXCEPT !.position = longQty + fill.qty, !.todayBuy = l.frozen + fill.qty]
                        EXCEPT !.frozen = l.frozen + fill.qty]
      BY <1>6, <2>1
    <3>4. \A r \in States, q, u \in 0 .. MaxQty :
            [[r EXCEPT !.position = q, !.todayBuy = u] EXCEPT !.frozen = u] \in States
      BY DEF States
    <3> QED BY <1>6, <2>2, <3>1, <3>3, <3>4
  <2>5. InFlight("BUY") = fill.qty /\ InFlight("SELL") = 0 BY <1>2, <1>9 DEF InFlight
  <2>6. TypeOK' BY <1>1, <1>2, <2>1, <2>2, <2>4 DEF TypeOK
  <2>7. TurnInv' BY <1>1, <1>2, <1>4 DEF TurnInv
  <2>8. AccountInv'
    BY <1>1, <1>2, <1>3, <1>4, <1>6, <1>7, <1>8, <2>1, <2>2, <2>3, <2>5
    DEF AccountInv, LedgerMatchesAccount
  <2>9. DateInv'
    <3>1. fill.qty <= BoughtToday BY <1>1, <2>5 DEF DateInv
    <3>2. ledger'.date = DateOf[LastCandle] => BoughtToday <= ledger'.frozen
      BY <1>1, <1>3, <1>4, <1>5, <1>6, <1>8, <2>3, <2>5 DEF DateInv, d
    <3> QED BY <1>1, <1>2, <1>3, <1>4, <1>5, <1>7, <1>8, <2>3, <3>1, <3>2 DEF DateInv, d
  <2> QED BY <2>6, <2>7, <2>8, <2>9 DEF IInv
<1>10. CASE fill.side = "SELL"
  <2>1. InFlight("BUY") = 0 /\ InFlight("SELL") = fill.qty BY <1>2, <1>10 DEF InFlight
  <2>2. fill.qty <= l.sellable /\ fill.qty <= longQty
    BY <1>1, <1>2, <1>3, <1>6, <1>8, <1>10 DEF AccountInv
  <2>3. /\ longQty' = longQty - fill.qty
        /\ ledger' = [l EXCEPT !.position = @ - fill.qty, !.sellable = @ - fill.qty]
    <3>1. AtMost(fill.qty, l.sellable) = fill.qty /\ AtMost(fill.qty, longQty) = fill.qty
      BY <2>2 DEF AtMost
    <3> QED BY <1>2, <1>10, <3>1 DEF HandleFill, RecordSell, l, d
  <2>4. /\ longQty' \in 0 .. MaxQty /\ l.sellable - fill.qty \in 0 .. MaxQty
    BY <1>3, <1>8, <2>2, <2>3, MaxQtyAssumption
  <2>5. /\ ledger'.position = longQty - fill.qty /\ ledger'.sellable = l.sellable - fill.qty
        /\ ledger'.todayBuy = l.frozen /\ ledger'.frozen = l.frozen /\ ledger'.date = d
    BY <1>6, <2>3 DEF States
  <2>6. ledger' \in States
    <3>1. \A r \in States, q, u \in 0 .. MaxQty :
            [r EXCEPT !.position = q, !.sellable = u] \in States
      BY DEF States
    <3> QED BY <1>6, <2>3, <2>4, <3>1
  <2>7. TypeOK' BY <1>1, <1>2, <2>4, <2>6 DEF TypeOK
  <2>8. TurnInv' BY <1>1, <1>2, <1>4 DEF TurnInv
  <2>9. AccountInv'
    BY <1>1, <1>2, <1>3, <1>4, <1>6, <1>7, <1>8, <2>1, <2>2, <2>3, <2>5
    DEF AccountInv, LedgerMatchesAccount
  <2>10. DateInv'
    <3>1. ledger'.date = DateOf[LastCandle] => BoughtToday <= ledger'.frozen
      BY <1>1, <1>3, <1>4, <1>5, <1>6, <1>8, <2>1, <2>5 DEF DateInv, d
    <3> QED BY <1>1, <1>2, <1>3, <1>4, <1>5, <1>7, <1>8, <2>1, <2>5, <3>1 DEF DateInv, d
  <2> QED BY <2>7, <2>8, <2>9, <2>10 DEF IInv
<1> QED BY <1>3, <1>9, <1>10 DEF Sides

\* A decision commits to no more than the position, or the ledger, allows.
LEMMA DecideStep ==
  ASSUME NEW a \in Actions, NEW target \in 0 .. MaxQty
  PROVE  IInv /\ Decide(a, target) => IInv'
<1> SUFFICES ASSUME IInv, Decide(a, target) PROVE IInv' OBVIOUS
<1> DEFINE delta == target - longQty
           raw == IF delta < 0 THEN -delta ELSE delta
           side == IF delta > 0 /\ a = "BUY" THEN "BUY" ELSE "SELL"
           fe == a = "EXIT" \/ target = 0
           d == DateOf[traderTick]
           l == IF side = "SELL" /\ Size("SELL", raw, longQty, fe) > 0
                THEN Sync(ledger, longQty, d) ELSE ledger
           qty == Prepared(side, raw, fe, l)
           trimmed == IF side = "SELL" THEN AtMost(qty, longQty) ELSE qty
<1>1. TypeOK /\ TurnInv /\ AccountInv /\ DateInv BY DEF IInv
<1>2. /\ phase = "decide" /\ fill = NoOrder /\ phase' = "exchange" /\ tick' = tick + 1
      /\ order = NoOrder /\ traderTick = tick /\ tick < MaxTick
      /\ UNCHANGED <<traderTick, candle, fill, longQty, marketQty, openQty, soldToday>>
      /\ ledger' = l
      /\ order' \in IF trimmed > 0 THEN {NoOrder, [side |-> side, qty |-> trimmed]} ELSE {NoOrder}
  BY <1>1 DEF Decide, Trade, EndTick, history, TurnInv
<1>3. /\ longQty \in 0 .. MaxQty /\ tick \in 0 .. MaxTick /\ d \in Nat
      /\ openQty \in 0 .. MaxQty /\ soldToday \in Nat /\ marketQty = longQty
      /\ ledger \in States /\ ledger.position = longQty
      /\ ledger.sellable + ledger.frozen = longQty /\ ledger.todayBuy = ledger.frozen
      /\ ledger.date \in Int /\ ledger.date <= d
      /\ InFlight("BUY") = 0 /\ InFlight("SELL") = 0
      /\ InFlight("BUY")' = 0 /\ InFlight("SELL")' = 0
      /\ BoughtToday' = BoughtToday
  BY <1>1, <1>2, Dates
  DEF TypeOK, AccountInv, LedgerMatchesAccount, DateInv, InFlight, States, NoDate, BoughtToday
<1>4. /\ raw \in 0 .. MaxQty /\ side \in Sides /\ fe \in BOOLEAN
      /\ side = "BUY" => longQty + raw <= MaxQty
  BY <1>3, MaxQtyAssumption DEF Sides
<1>5. /\ l \in States /\ l.position = longQty /\ l.sellable + l.frozen = longQty
      /\ l.todayBuy = l.frozen
      /\ l = ledger \/ l.date = d
      /\ l.date = ledger.date => l.frozen = ledger.frozen
  BY <1>3, SyncFacts
<1>6. l.sellable \in 0 .. MaxQty /\ l.frozen \in 0 .. MaxQty /\ l.date \in Int
      /\ l.sellable <= longQty
  BY <1>3, <1>5 DEF States, NoDate
<1>a. longQty \in Nat /\ raw \in Nat /\ l.sellable \in Nat /\ raw <= MaxQty
  <2> HIDE DEF raw, l
  <2> QED BY <1>3, <1>4, <1>6, MaxQtyAssumption
\* Whatever is let through is at most what was asked, and a sale at most sellable.
<1>7. /\ qty \in 0 .. MaxQty
      /\ side = "BUY" => qty <= raw
      /\ side = "SELL" => qty <= l.sellable
      /\ side = "SELL" /\ qty > 0 => l.date = d
  <2> HIDE DEF delta, raw, side, fe, d
  <2>1. Size("BUY", raw, longQty, FALSE) \in 0 .. raw
    BY <1>a, SizeBound DEF Sides
  <2>2. Size("SELL", raw, longQty, fe) \in 0 .. raw
        /\ Size("SELL", l.sellable, l.sellable, fe) \in 0 .. l.sellable
    <3> HIDE DEF l
    <3>1. "SELL" \in Sides BY DEF Sides
    <3> QED BY <1>4, <1>a, <3>1, SizeBound
  <2>3. CASE side = "BUY"
    <3> DEFINE z == Size("BUY", raw, longQty, FALSE)
    <3>1. qty = 0 \/ qty = z BY <2>3 DEF Prepared
    <3>a. z \in 0 .. raw BY <2>1
    <3> HIDE DEF qty, l, z
    <3>2. qty \in 0 .. MaxQty /\ qty <= raw BY <1>a, <3>1, <3>a, MaxQtyAssumption
    <3>3. side # "SELL" BY <2>3
    <3> QED BY <3>2, <3>3
  <2>5. side = "SELL" =>
          \/ qty = 0
          \/ qty = Size("SELL", raw, longQty, fe) /\ qty <= l.sellable
          \/ /\ qty = Size("SELL", l.sellable, l.sellable, fe)
             /\ ~(Size("SELL", raw, longQty, fe) <= l.sellable)
    BY DEF Prepared, PreparedSell
  <2>4. CASE side = "SELL"
    <3>1. CASE Size("SELL", raw, longQty, fe) > 0
      <4>1. l.date = d BY <1>3, <2>4, <3>1, SyncFacts
      <4> HIDE DEF qty, l
      <4> QED BY <1>3, <1>6, <1>a, <2>2, <2>4, <2>5, <4>1, MaxQtyAssumption
    <3>2. CASE Size("SELL", raw, longQty, fe) = 0
      <4> HIDE DEF qty, l
      <4> QED BY <1>3, <1>6, <1>a, <2>2, <2>4, <2>5, <3>2, MaxQtyAssumption
    <3>3. Size("SELL", raw, longQty, fe) > 0 \/ Size("SELL", raw, longQty, fe) = 0
      BY <1>a, <2>2
    <3> QED BY <3>1, <3>2, <3>3
  <2>6. side = "BUY" \/ side = "SELL" BY <1>4 DEF Sides
  <2> HIDE DEF qty, l
  <2> QED BY <2>3, <2>4, <2>6
<1> HIDE DEF delta, raw, side, fe, d, l, qty
<1>8. order' = NoOrder \/
        /\ order' = [side |-> side, qty |-> qty] /\ order' \in Orders /\ qty > 0
  <2>1. side = "SELL" => AtMost(qty, longQty) = qty
    BY <1>3, <1>5, <1>6, <1>7 DEF AtMost
  <2>2. trimmed = qty BY <2>1
  <2>3. trimmed > 0 => [side |-> side, qty |-> qty] \in Orders
    <3> HIDE DEF trimmed
    <3>1. trimmed > 0 => qty \in 1 .. MaxQty BY <1>7, <2>2, MaxQtyAssumption
    <3> QED BY <1>4, <3>1 DEF Orders
  <2> HIDE DEF trimmed
  <2> QED BY <1>2, <2>2, <2>3
<1>9. TypeOK' BY <1>1, <1>2, <1>3, <1>5, <1>8, TickAssumption DEF TypeOK
<1>10. TurnInv'
  BY <1>1, <1>2, <1>3 DEF TurnInv, LastCandle
<1>11. AccountInv'
  <2>1. \A o \in {order', fill'} \ {NoOrder} : o = [side |-> side, qty |-> qty]
    BY <1>2, <1>8
  <2>2. \A o \in {order', fill'} \ {NoOrder} :
          /\ o.side = "BUY" => longQty' + o.qty <= MaxQty
          /\ o.side = "SELL" => o.qty <= ledger'.sellable
    <3>1. side = "BUY" => longQty + qty <= MaxQty
      BY <1>3, <1>4, <1>7, <1>a, MaxQtyAssumption
    <3>2. \A o \in {order', fill'} \ {NoOrder} : o.side = side /\ o.qty = qty
      BY <2>1
    <3> QED BY <1>2, <1>7, <3>1, <3>2
  <2> QED BY <1>2, <1>3, <1>5, <2>2 DEF AccountInv, LedgerMatchesAccount
<1>12. DateInv'
  <2>1. LastCandle' = LastCandle /\ LastCandle = tick - 1 BY <1>2, <1>3 DEF LastCandle
  <2>2. ledger'.date <= d /\ d = DateOf[traderTick'] /\ d = DateOf[tick' - 1]
    BY <1>2, <1>3, <1>5, <1>6 DEF d
  <2>3. order' # NoOrder /\ order'.side = "SELL" => ledger'.date = d
    BY <1>2, <1>7, <1>8
  <2>4. BoughtToday \in Int BY <1>3 DEF BoughtToday
  <2>5. ASSUME LastCandle >= 0
        PROVE  /\ l.date = DateOf[LastCandle] => BoughtToday <= l.frozen
               /\ l.date < DateOf[LastCandle] => BoughtToday = 0
    <3>1. DateOf[LastCandle] \in Nat /\ DateOf[LastCandle] <= d
      <4>1. LastCandle \in 0 .. MaxTick /\ tick \in 0 .. MaxTick /\ LastCandle <= tick
        BY <1>3, <2>1, <2>5, TickAssumption
      <4> QED BY <1>2, <4>1, Dates DEF d
    <3>2. /\ ledger.date = DateOf[LastCandle] => BoughtToday <= ledger.frozen
          /\ ledger.date < DateOf[LastCandle] => BoughtToday = 0
      BY <1>1, <1>3, <2>4, <2>5 DEF DateInv
    <3> QED BY <1>3, <1>5, <1>6, <2>4, <3>1, <3>2
  <2> QED BY <1>1, <1>2, <1>3, <2>1, <2>2, <2>3, <2>4, <2>5 DEF DateInv
<1> QED BY <1>9, <1>10, <1>11, <1>12 DEF IInv

-----------------------------------------------------------------------------
\* The inductive invariant holds in every reachable state.
THEOREM Inductive == Spec => []IInv
<1>1. Init => IInv BY InitIInv
<1>2. IInv /\ [Next]_vars => IInv'
  <2> SUFFICES ASSUME IInv, [Next]_vars PROVE IInv' OBVIOUS
  <2>1. CASE UNCHANGED vars
    BY <2>1 DEF vars, IInv, TypeOK, TurnInv, AccountInv, DateInv, LedgerMatchesAccount,
       LastCandle, BoughtToday, InFlight
  <2>2. CASE Next
    BY <2>2, ExchangeTickStep, ExchangeTickNoCandleStep, TraderTickStep, HandleFillStep,
       NoTradeStep, DecideStep DEF Next
  <2> QED BY <2>1, <2>2
<1> QED BY <1>1, <1>2, PTL DEF Spec

\* Type correctness; in particular no position exceeds the largest target.
THEOREM TypeCorrect == Spec => []TypeOK
<1>1. IInv => TypeOK BY DEF IInv
<1> QED BY <1>1, Inductive, PTL

\* T+1 on the dates on which the exchange executes, for every lot size,
\* every calendar of ticks and every order of fills and ticks.
THEOREM TPlusOneHolds == Spec => []SoldOnlyFromEarlierDates
<1>1. IInv => SoldOnlyFromEarlierDates BY DEF IInv, DateInv, SoldOnlyFromEarlierDates
<1> QED BY <1>1, Inductive, PTL

\* The ledger and the trader's account agree, and no share is lost in it.
THEOREM LedgerAgrees == Spec => []LedgerMatchesAccount
<1>1. IInv => LedgerMatchesAccount BY DEF IInv, AccountInv
<1> QED BY <1>1, Inductive, PTL

\* No sale is executed that the trader's account has no shares for.
THEOREM SalesAreCovered == Spec => []SalesCovered
<1>1. IInv => SalesCovered
  <2> SUFFICES ASSUME IInv PROVE SalesCovered OBVIOUS
  <2>1. ledger.sellable <= longQty
    BY DEF IInv, TypeOK, AccountInv, LedgerMatchesAccount, States
  <2>2. ledger.sellable \in Int /\ longQty \in Int BY DEF IInv, TypeOK, States
  <2> QED BY <2>1, <2>2 DEF IInv, TypeOK, AccountInv, SalesCovered, Orders
<1> QED BY <1>1, Inductive, PTL

-----------------------------------------------------------------------------
(* The decisions.                                                          *)

Intents == [action : Actions, target : 0 .. MaxQty]
Regimes == [kind : {"risk_off", "neutral"}, as_of : Nat]
Decisions == [regime : Regimes \cup {NoRegime}, debated : BOOLEAN, day : Nat \cup {NoDate},
              intentDay : Nat \cup {NoDate}, failed : BOOLEAN]

MemoryInv ==
  /\ config \in Configs
  /\ regime \in Regimes \cup {NoRegime}
  /\ intent \in Intents \cup {NoIntent}
  /\ nameCap \in 0 .. MaxQty

\* An intent is debated not before the last debate the controller has noted,
\* unless a debate has failed since.
FreshInv ==
  /\ lastDebate \in Nat \cup {NoDate} /\ lastDebate <= DateOf[traderTick]
  /\ decided \in Decisions
  /\ intent # NoIntent => decided.failed \/ (lastDebate # NoDate /\ lastDebate <= decided.intentDay)
  /\ DecisionsAreFresh

BridgeInv == IInv /\ MemoryInv /\ FreshInv /\ BuysStayWithinTheRegime

-----------------------------------------------------------------------------
(* The intents. *)

\* A part of the portfolio, in percent, is a weight.
LEMMA PercentBound == Percent(25) \in 0 .. MaxQty /\ Percent(35) \in 0 .. MaxQty
                      /\ Percent(75) \in 0 .. MaxQty
BY MaxQtyAssumption DEF Percent

\* The cap of a regime is a weight.
LEMMA CapBound == ASSUME NEW r PROVE MaxPositionWeight(r) \in 0 .. MaxQty
BY PercentBound DEF MaxPositionWeight

\* What is read in any text is a known action with a weight or none.
LEMMA ReadingFacts ==
  ASSUME NEW x \in Readings
  PROVE  x = Unparsed \/ (x.action \in Actions /\ x.weight \in {Unset} \cup 0 .. MaxQty)
<1>1. PICK text \in Texts : x = ReadIntent(text) BY DEF Readings
<1>2. CASE text \in RenderedTexts
  <2>0. PICK r \in Ratings, ws \in Summaries, w \in {Unset} \cup Weights :
          text = RenderPmDecision(r, ws, w)
    BY <1>2 DEF RenderedTexts
  <2>1. text.json = NoJson /\ text.weight \in {Unset} \cup Weights
    BY <2>0 DEF RenderPmDecision
  <2>2. x = [action |-> ActionOfText(text), weight |-> text.weight]
    BY <1>1, <2>1 DEF ReadIntent, NoJson, Malformed
  <2> QED BY <2>1, <2>2, BridgeAssumption DEF ActionOfText, Actions
<1>3. CASE text \in {FreeText(NoJson, ws, w) : ws \in Summaries, w \in {Unset} \cup Weights}
  <2>0. PICK ws \in Summaries, w \in {Unset} \cup Weights : text = FreeText(NoJson, ws, w)
    BY <1>3
  <2>1. text.json = NoJson /\ text.weight \in {Unset} \cup Weights
    BY <2>0 DEF FreeText
  <2>2. x = [action |-> ActionOfText(text), weight |-> text.weight]
    BY <1>1, <2>1 DEF ReadIntent, NoJson, Malformed
  <2> QED BY <2>1, <2>2, BridgeAssumption DEF ActionOfText, Actions
<1>4. CASE text \in {FreeText(j, <<>>, Unset) : j \in Payloads \cup {Malformed}}
  <2>0. PICK j \in Payloads \cup {Malformed} : text = FreeText(j, <<>>, Unset) BY <1>4
  <2>1. text.json \in Payloads \cup {Malformed} BY <2>0 DEF FreeText
  <2>2. CASE text.json = Malformed
    BY <1>1, <2>2 DEF ReadIntent
  <2>3. CASE text.json \in Payloads
    <3>1. text.json # Malformed /\ text.json # NoJson
      BY <2>3 DEF Payloads, Malformed, NoJson
    <3>2. x = NormalizeAction(text.json) BY <1>1, <3>1 DEF ReadIntent
    <3> QED BY <2>3, <3>2, BridgeAssumption DEF NormalizeAction, Payloads, Actions
  <2> QED BY <2>1, <2>2, <2>3
<1> QED BY <1>1, <1>2, <1>3, <1>4 DEF Texts

\* The parser yields an intent, for every text and every position.
LEMMA ParseFacts ==
  ASSUME NEW x \in Readings, NEW current \in 0 .. MaxQty
  PROVE  Parse(x, current) \in Intents
<1> USE MaxQtyAssumption
<1>1. CASE x = Unparsed
  BY <1>1 DEF Parse, Intents, Actions, ClampWeight
<1>2. CASE x # Unparsed
  <2> DEFINE target == NormalizeTarget(x.action, x.weight, current)
  <2>1. x.action \in Actions /\ x.weight \in {Unset} \cup 0 .. MaxQty
    BY <1>2, ReadingFacts
  <2>2. current \div 2 \in 0 .. MaxQty OBVIOUS
  <2>3. \A w \in 0 .. MaxQty : ClampWeight(w) \in 0 .. MaxQty BY DEF ClampWeight
  <2>4. target \in 0 .. MaxQty
    BY <2>1, <2>2, <2>3, PercentBound DEF NormalizeTarget, Unset
  <2>5. Parse(x, current) = [action |-> x.action, target |-> target]
    BY <1>2 DEF Parse
  <2> HIDE DEF target
  <2> QED BY <2>1, <2>4, <2>5 DEF Intents
<1> QED BY <1>1, <1>2

\* The cap keeps an intent an intent, within the cap where there is a regime.
LEMMA CapFacts ==
  ASSUME NEW i \in Intents, NEW r
  PROVE  /\ ApplyPositionCap(i, r) \in Intents
         /\ r # NoRegime => ApplyPositionCap(i, r).target <= MaxPositionWeight(r)
BY CapBound DEF ApplyPositionCap, Intents

\* The risk rewrite yields intents; where it is switched on, none of them is
\* beyond the cap it is given, or that of the regime.
LEMMA SafeFacts ==
  ASSUME NEW i \in Intents, NEW r, NEW m \in Markets, NEW cap \in 0 .. MaxQty,
         config \in Configs, NEW safe \in SafeIntents(i, r, m, cap)
  PROVE  /\ safe \in Intents
         /\ ~config.veto => safe = i
         /\ config.veto /\ config.metric = "historical_cvar" => safe.target <= cap
         /\ config.veto /\ config.metric # "historical_cvar" /\ r # NoRegime =>
              safe.target <= MaxPositionWeight(r)
<1> USE MaxQtyAssumption, CapBound
<1>1. CASE ~config.veto BY <1>1 DEF SafeIntents
<1>2. CASE config.veto /\ config.metric = "historical_cvar"
  <2>1. safe \in VetoOrDecay(i, cap) BY <1>2 DEF SafeIntents
  <2> DEFINE candidate == IF i.target > cap THEN cap ELSE i.target
  <2>2. PICK w \in 0 .. candidate : safe = [i EXCEPT !.target = w]
    BY <2>1 DEF VetoOrDecay
  <2>3. candidate \in 0 .. MaxQty /\ candidate <= cap BY DEF Intents
  <2> HIDE DEF candidate
  <2>4. w \in 0 .. MaxQty /\ w <= cap BY <2>3
  <2> QED BY <1>2, <2>2, <2>4 DEF Intents
<1>3. CASE config.veto /\ config.metric # "historical_cvar"
  <2>1. safe = VetoOrAdjust(i, r, m) BY <1>3 DEF SafeIntents
  <2> DEFINE budget == IF r = NoRegime THEN MaxQty ELSE MaxPositionWeight(r)
             adjusted == IF i.target > budget THEN budget ELSE i.target
  <2>2. budget \in 0 .. MaxQty OBVIOUS
  <2>3. adjusted \in 0 .. MaxQty /\ adjusted <= budget
    <3> HIDE DEF budget
    <3> QED BY <2>2 DEF Intents
  <2>4. \/ safe = [action |-> IF adjusted = 0 THEN "HOLD" ELSE i.action, target |-> adjusted]
        \/ safe = i /\ ~(i.target > budget)
    BY <2>1 DEF VetoOrAdjust
  <2>5. r # NoRegime => budget = MaxPositionWeight(r) OBVIOUS
  <2> HIDE DEF budget, adjusted
  <2>6. safe \in Intents BY <2>3, <2>4 DEF Intents, Actions
  <2>7. safe.target <= budget BY <2>2, <2>3, <2>4 DEF Intents
  <2> QED BY <1>3, <2>5, <2>6, <2>7
<1> QED BY <1>1, <1>2, <1>3

-----------------------------------------------------------------------------
(* The steps. *)

\* The trader's date is a date.
LEMMA TodayIsADate == TypeOK => Today \in Nat
BY Dates DEF Today, TypeOK

\* The regime of a decision: where it is used at all there is one, and it is
\* of the period of the decision.
LEMMA RegimeFacts ==
  ASSUME NEW m \in Markets, TypeOK, MemoryInv
  PROVE  /\ RegimeNow(m) \in Regimes \cup {NoRegime}
         /\ config.macro => /\ RegimeNow(m) # NoRegime
                            /\ Period(RegimeNow(m).as_of) = Period(Today)
<1>1. Infer(m) \in Regimes /\ Infer(m).as_of = Today
  BY TodayIsADate DEF Infer, Regimes
<1>2. \A r \in Regimes : r # NoRegime BY DEF Regimes, NoRegime
<1> QED BY <1>1, <1>2 DEF RegimeNow, NeedsRegimeRefresh, MemoryInv

\* An executed intent is an order or none, as TPlusOne has it, and what it
\* buys lies within its target.
LEMMA ExecuteFacts ==
  ASSUME NEW i \in Intents, IInv, ExecuteTargetWeight(i)
  PROVE  /\ Next
         /\ phase = "decide" /\ traderTick' = traderTick /\ longQty' = longQty
         /\ order' # NoOrder /\ order'.side = "BUY" => longQty + order'.qty <= i.target
<1> USE DEF Intents
<1>1. CASE NoTrade
  <2>1. order' = NoOrder BY <1>1 DEF NoTrade, IInv, TurnInv
  <2> QED BY <1>1, <2>1 DEF NoTrade, Next, IInv, TypeOK
<1>2. CASE Decide(i.action, i.target)
  <2>1. Next BY <1>2 DEF Next
  <2> DEFINE delta == i.target - longQty
             raw == IF delta < 0 THEN -delta ELSE delta
             side == IF delta > 0 /\ i.action = "BUY" THEN "BUY" ELSE "SELL"
             fullExit == i.action = "EXIT" \/ i.target = 0
             l == IF side = "SELL" /\ Size("SELL", raw, longQty, fullExit) > 0
                  THEN Sync(ledger, longQty, DateOf[traderTick]) ELSE ledger
             qty == Prepared(side, raw, fullExit, l)
             trimmed == IF side = "SELL" THEN AtMost(qty, longQty) ELSE qty
  <2>2. /\ phase = "decide" /\ traderTick' = traderTick /\ longQty' = longQty
        /\ Trade(side, raw, fullExit)
    BY <1>2 DEF Decide
  <2>3. order' = NoOrder \/ order' = [side |-> side, qty |-> trimmed]
    BY <2>2 DEF Trade
  <2>4. ASSUME order' # NoOrder, order'.side = "BUY" PROVE longQty + order'.qty <= i.target
    <3>1. side = "BUY" /\ order'.qty = qty BY <2>3, <2>4
    <3>2. raw \in Nat /\ longQty \in 0 .. MaxQty /\ longQty + raw = i.target
      BY <3>1 DEF IInv, TypeOK
    <3>3. fullExit \in BOOLEAN OBVIOUS
    <3>4. qty \in 0 .. raw
      <4>1. qty = 0 \/ qty = Size("BUY", raw, longQty, FALSE)
        BY <3>1 DEF Prepared
      <4>2. raw \in Nat /\ longQty \in Nat /\ "BUY" \in Sides /\ FALSE \in BOOLEAN
        BY <3>2, MaxQtyAssumption DEF Sides
      <4> HIDE DEF raw, qty
      <4>3. Size("BUY", raw, longQty, FALSE) \in 0 .. raw BY ONLY <4>2, SizeBound
      <4>4. 0 \in 0 .. raw BY ONLY <4>2
      <4> QED BY ONLY <4>1, <4>3, <4>4
    <3> HIDE DEF raw, qty, side, l, fullExit, trimmed, delta
    <3> QED BY <3>1, <3>2, <3>4, MaxQtyAssumption
  <2> QED BY <2>1, <2>2, <2>4
<1> QED BY <1>1, <1>2 DEF ExecuteTargetWeight

\* A step of the execution keeps its invariant.
LEMMA NextKeepsIInv == IInv /\ [Next]_vars => IInv'
<1> SUFFICES ASSUME IInv, [Next]_vars PROVE IInv' OBVIOUS
<1>1. CASE UNCHANGED vars
  BY <1>1 DEF vars, IInv, TypeOK, TurnInv, AccountInv, DateInv, LedgerMatchesAccount,
     LastCandle, BoughtToday, InFlight
<1>2. CASE Next
  BY <1>2, ExchangeTickStep, ExchangeTickNoCandleStep, TraderTickStep, HandleFillStep,
     NoTradeStep, DecideStep DEF Next
<1> QED BY <1>1, <1>2

\* A decision keeps the invariant, whichever text the debate ends with.
LEMMA DecisionStep ==
  ASSUME BridgeInv, NEW m \in Markets, OnMarketDataUpdate(m)
  PROVE  Next /\ MemoryInv' /\ FreshInv' /\ BuysStayWithinTheRegime'
<1> DEFINE r == RegimeNow(m)
           cap == IF r = NoRegime \/ ~config.veto \/ config.metric # "historical_cvar"
                  THEN nameCap ELSE MaxPositionWeight(r)
           raws == IF Debates(m) THEN {ApplyPositionCap(Parse(x, longQty), r) : x \in Readings}
                   ELSE {intent}
<1>1. PICK i \in raws : \E safe \in SafeIntents(i, r, m, cap) :
        /\ intent' = i
        /\ ExecuteTargetWeight(safe)
        /\ decided' = [regime |-> r, debated |-> Debates(m), day |-> Today,
                       intentDay |-> IF Debates(m) THEN Today ELSE decided.intentDay,
                       failed |-> decided.failed /\ ~Debates(m)]
  BY DEF OnMarketDataUpdate
<1>2. PICK safe \in SafeIntents(i, r, m, cap) :
        /\ intent' = i
        /\ ExecuteTargetWeight(safe)
        /\ decided' = [regime |-> r, debated |-> Debates(m), day |-> Today,
                       intentDay |-> IF Debates(m) THEN Today ELSE decided.intentDay,
                       failed |-> decided.failed /\ ~Debates(m)]
  BY <1>1
<1>3. /\ regime' = r /\ config' = config /\ nameCap' = cap
      /\ lastDebate' = IF FullDebateTriggered(m) THEN Today ELSE lastDebate
  BY DEF OnMarketDataUpdate, Begin
<1>4. IInv /\ TypeOK /\ MemoryInv /\ FreshInv /\ config \in Configs
  BY DEF BridgeInv, IInv, MemoryInv
<1>5. r \in Regimes \cup {NoRegime} /\ (config.macro => r # NoRegime /\ Period(r.as_of) = Period(Today))
  BY <1>4, RegimeFacts
<1>6. cap \in 0 .. MaxQty BY <1>4, CapBound DEF MemoryInv
<1>7. /\ i \in Intents
      /\ Debates(m) /\ r # NoRegime => i.target <= MaxPositionWeight(r)
  <2>1. longQty \in 0 .. MaxQty BY <1>4 DEF TypeOK
  <2>2. CASE Debates(m)
    <3>1. PICK x \in Readings : i = ApplyPositionCap(Parse(x, longQty), r) BY <1>1, <2>2
    <3> QED BY <2>1, <3>1, ParseFacts, CapFacts
  <2>3. CASE ~Debates(m)
    <3>1. i = intent /\ intent # NoIntent BY <1>1, <2>3 DEF Debates
    <3> QED BY <1>4, <2>3, <3>1 DEF MemoryInv
  <2> QED BY <2>2, <2>3
<1> HIDE DEF r, cap, raws
<1>8. /\ safe \in Intents
      /\ ~config.veto => safe = i
      /\ config.veto /\ config.metric = "historical_cvar" => safe.target <= cap
      /\ config.veto /\ config.metric # "historical_cvar" /\ r # NoRegime =>
           safe.target <= MaxPositionWeight(r)
  BY <1>2, <1>4, <1>6, <1>7, SafeFacts
<1>9. /\ Next
      /\ phase = "decide" /\ traderTick' = traderTick /\ longQty' = longQty
      /\ order' # NoOrder /\ order'.side = "BUY" => longQty + order'.qty <= safe.target
  BY <1>2, <1>4, <1>8, ExecuteFacts
<1>10. MemoryInv' BY <1>2, <1>3, <1>4, <1>5, <1>6, <1>7 DEF MemoryInv
<1>11. BuysStayWithinTheRegime'
  <2> SUFFICES ASSUME order' # NoOrder, order'.side = "BUY", config'.macro,
                      config'.veto \/ decided'.debated
               PROVE  longQty' + order'.qty <= MaxPositionWeight(decided'.regime)
    BY <1>3, <1>2 DEF BuysStayWithinTheRegime, MaxPositionWeight
  <2>1. r # NoRegime BY <1>3, <1>5
  <2>2. decided'.regime = r /\ (decided'.debated <=> Debates(m)) BY <1>2
  <2>3. safe.target <= MaxPositionWeight(r)
    <3>1. CASE config.veto
      <4>1. config.metric = "historical_cvar" => cap = MaxPositionWeight(r)
        BY <2>1, <3>1 DEF cap
      <4> QED BY <1>8, <2>1, <3>1, <4>1
    <3>2. CASE ~config.veto
      BY <1>3, <1>7, <1>8, <2>1, <2>2, <3>2
    <3> QED BY <3>1, <3>2
  <2>4. order' \in Orders BY <1>9, <1>4, NextKeepsIInv DEF IInv, TypeOK
  <2>5. /\ order'.qty \in Int /\ longQty \in Int /\ safe.target \in Int
        /\ MaxPositionWeight(r) \in Int
    BY <1>4, <1>8, <2>4, CapBound DEF Orders, TypeOK, Intents
  <2> QED BY <1>9, <2>2, <2>3, <2>5
<1>12. FreshInv'
  <2>1. Today \in Nat /\ Today' = Today /\ Today = DateOf[traderTick]
    BY <1>4, <1>9, TodayIsADate DEF Today
  <2>2. lastDebate \in Nat \cup {NoDate} /\ lastDebate <= Today BY <1>4, <2>1 DEF FreshInv
  <2>3. /\ decided'.regime = r /\ decided'.debated = Debates(m) /\ decided'.day = Today
        /\ decided'.intentDay = IF Debates(m) THEN Today ELSE decided.intentDay
        /\ decided'.failed = (decided.failed /\ ~Debates(m))
    BY <1>2
  <2>4. lastDebate' \in Nat \cup {NoDate} /\ lastDebate' <= DateOf[traderTick']
    BY <1>3, <1>9, <2>1, <2>2
  <2>5. decided' \in Decisions
    <3>1. Debates(m) \in BOOLEAN BY DEF Debates
    <3>2. /\ (IF Debates(m) THEN Today ELSE decided.intentDay) \in Nat \cup {NoDate}
          /\ (decided.failed /\ ~Debates(m)) \in BOOLEAN
      BY <1>4, <2>1, <3>1 DEF FreshInv, Decisions
    <3> QED BY <1>2, <1>5, <2>1, <3>1, <3>2 DEF Decisions
  <2>6. CASE Debates(m)
    <3>1. FullDebateTriggered(m) \/ intent = NoIntent BY <2>6 DEF Debates
    <3>2. decided'.debated /\ ~decided'.failed /\ decided'.intentDay = Today BY <2>3, <2>6
    <3>3. lastDebate' # NoDate /\ lastDebate' <= decided'.intentDay
      BY <1>3, <2>1, <2>2, <3>2 DEF FullDebateTriggered, NoDate
    <3> QED BY <1>3, <1>5, <2>1, <2>3, <2>4, <2>5, <3>2, <3>3 DEF FreshInv, DecisionsAreFresh
  <2>7. CASE ~Debates(m)
    <3>1. /\ ~FullDebateTriggered(m) /\ intent # NoIntent /\ lastDebate' = lastDebate
          /\ lastDebate # NoDate /\ ~(Today - lastDebate >= ForceEvery)
      BY <1>3, <2>7 DEF Debates, FullDebateTriggered
    <3>2. decided.failed \/ lastDebate <= decided.intentDay BY <1>4, <3>1 DEF FreshInv
    <3>3. decided'.intentDay = decided.intentDay /\ decided'.failed = decided.failed
      BY <1>4, <2>3, <2>7 DEF FreshInv, Decisions
    <3>4. decided.intentDay \in Nat \cup {NoDate} BY <1>4 DEF FreshInv, Decisions
    <3>5. decided'.failed \/ decided'.day - decided'.intentDay < ForceEvery
      BY <2>1, <2>2, <2>3, <3>1, <3>2, <3>3, <3>4, BridgeAssumption DEF NoDate
    <3> QED BY <1>3, <1>5, <2>1, <2>3, <2>4, <2>5, <3>1, <3>2, <3>3, <3>5
            DEF FreshInv, DecisionsAreFresh
  <2> QED BY <2>6, <2>7
<1> QED BY <1>9, <1>10, <1>11, <1>12

\* A debate that fails is noted as one, and its decision buys nothing.
LEMMA FailedDebateStep ==
  ASSUME BridgeInv, NEW m \in Markets, DebateFails(m)
  PROVE  Next /\ MemoryInv' /\ FreshInv' /\ BuysStayWithinTheRegime'
<1>1. /\ regime' = RegimeNow(m) /\ config' = config /\ intent' = intent /\ nameCap' = nameCap
      /\ lastDebate' = IF FullDebateTriggered(m) THEN Today ELSE lastDebate
      /\ decided' = [decided EXCEPT !.failed = TRUE] /\ NoTrade
  BY DEF DebateFails, Begin
<1>2. IInv /\ TypeOK /\ MemoryInv /\ FreshInv BY DEF BridgeInv, IInv
<1>3. Next BY <1>1 DEF Next
<1>4. order' = NoOrder /\ traderTick' = traderTick
  BY <1>1, <1>2 DEF NoTrade, IInv, TurnInv
<1>5. MemoryInv' BY <1>1, <1>2, RegimeFacts DEF MemoryInv
<1>6. BuysStayWithinTheRegime' BY <1>4 DEF BuysStayWithinTheRegime
<1>7. FreshInv'
  <2>1. Today \in Nat /\ Today = DateOf[traderTick] BY <1>2, TodayIsADate DEF Today
  <2>2. /\ lastDebate' \in Nat \cup {NoDate} /\ lastDebate' <= DateOf[traderTick']
    BY <1>1, <1>2, <1>4, <2>1 DEF FreshInv
  <2>3. /\ decided' \in Decisions
        /\ decided'.day = decided.day /\ decided'.intentDay = decided.intentDay
        /\ decided'.debated = decided.debated /\ decided'.regime = decided.regime
        /\ decided'.failed
    BY <1>1, <1>2 DEF FreshInv, Decisions
  <2>4. DecisionsAreFresh' BY <1>1, <1>2, <2>3 DEF FreshInv, DecisionsAreFresh
  <2> QED BY <1>1, <2>2, <2>3, <2>4 DEF FreshInv
<1> QED BY <1>3, <1>5, <1>6, <1>7

\* Where no decision is taken, the memory of the bridge stays and no order is
\* added; the trader's date does not go back.
LEMMA QuietStep ==
  ASSUME BridgeInv, [Next]_vars, UNCHANGED bridgeVars, order' \in {order, NoOrder},
         order' # NoOrder => longQty' = longQty,
         traderTick' \in {traderTick, tick}
  PROVE  MemoryInv' /\ FreshInv' /\ BuysStayWithinTheRegime'
<1>1. MemoryInv' BY DEF BridgeInv, MemoryInv, bridgeVars
<1>2. BuysStayWithinTheRegime'
  BY DEF BridgeInv, BuysStayWithinTheRegime, bridgeVars, MaxPositionWeight
<1>3. DateOf[traderTick] <= DateOf[traderTick']
  <2>1. traderTick \in 0 .. MaxTick /\ tick \in 0 .. MaxTick /\ traderTick <= tick
    BY DEF BridgeInv, IInv, TypeOK, TurnInv
  <2> QED BY <2>1, Dates
<1>4. FreshInv'
  <2>1. traderTick \in 0 .. MaxTick /\ traderTick' \in 0 .. MaxTick
    BY DEF BridgeInv, IInv, TypeOK
  <2>2. DateOf[traderTick] \in Nat /\ DateOf[traderTick'] \in Nat BY <2>1, Dates
  <2>3. lastDebate' \in Nat \cup {NoDate} /\ lastDebate' <= DateOf[traderTick']
    BY <1>3, <2>2 DEF BridgeInv, FreshInv, bridgeVars, NoDate
  <2> QED BY <2>3 DEF BridgeInv, FreshInv, DecisionsAreFresh, bridgeVars
<1> QED BY <1>1, <1>2, <1>4

\* Every step of the bridge is one of its execution, or leaves its variables
\* alone, and keeps the invariant.
LEMMA BridgeStep == BridgeInv /\ [BridgeNext]_<<vars, bridgeVars>> => [Next]_vars /\ BridgeInv'
<1> SUFFICES ASSUME BridgeInv, [BridgeNext]_<<vars, bridgeVars>>
             PROVE  [Next]_vars /\ BridgeInv'
  OBVIOUS
<1> DEFINE Rest == MemoryInv' /\ FreshInv' /\ BuysStayWithinTheRegime'
<1>0. IInv /\ TypeOK /\ TurnInv BY DEF BridgeInv, IInv
<1>1. ASSUME NEW c \in Candles, ExchangeTick(c), UNCHANGED bridgeVars PROVE [Next]_vars /\ Rest
  <2>1. Next BY <1>1 DEF Next
  <2> QED BY <1>1, <2>1, QuietStep DEF ExchangeTick
<1>2. ASSUME ExchangeTickNoCandle, UNCHANGED bridgeVars PROVE [Next]_vars /\ Rest
  <2>1. Next BY <1>2 DEF Next
  <2> QED BY <1>2, <2>1, QuietStep DEF ExchangeTickNoCandle
<1>3. ASSUME TraderTick, UNCHANGED bridgeVars PROVE [Next]_vars /\ Rest
  <2>1. Next BY <1>3 DEF Next
  <2> QED BY <1>3, <2>1, QuietStep DEF TraderTick
<1>4. ASSUME HandleFill, UNCHANGED bridgeVars PROVE [Next]_vars /\ Rest
  <2>1. Next BY <1>4 DEF Next
  <2>2. order = NoOrder /\ order' = order /\ traderTick' = traderTick
    BY <1>0, <1>4 DEF HandleFill, TurnInv
  <2> QED BY <1>4, <2>1, <2>2, QuietStep
<1>5. ASSUME NEW m \in Markets, OnMarketDataUpdate(m) PROVE [Next]_vars /\ Rest
  BY <1>5, DecisionStep
<1>6. ASSUME NEW m \in Markets, DebateFails(m) PROVE [Next]_vars /\ Rest
  BY <1>6, FailedDebateStep
<1>7. ASSUME EmptySnapshot PROVE [Next]_vars /\ Rest
  <2>1. Next /\ UNCHANGED bridgeVars BY <1>7 DEF EmptySnapshot, Next
  <2> QED BY <1>7, <2>1, QuietStep DEF EmptySnapshot, NoTrade
<1>8. ASSUME vars' = vars, config' = config, regime' = regime, intent' = intent,
             lastDebate' = lastDebate, nameCap' = nameCap, decided' = decided
      PROVE  [Next]_vars /\ Rest
  BY <1>8 DEF BridgeInv, MemoryInv, FreshInv, BuysStayWithinTheRegime, DecisionsAreFresh,
     MaxPositionWeight, vars
<1> HIDE DEF Rest
<1>9. ASSUME FailsBeforeTry PROVE [Next]_vars /\ Rest
  BY <1>9, <1>8 DEF FailsBeforeTry
<1>10. ASSUME UNCHANGED <<vars, bridgeVars>> PROVE [Next]_vars /\ Rest
  BY <1>10, <1>8 DEF bridgeVars
<1>11. [Next]_vars /\ Rest
  <2>1. CASE BridgeNext
    BY <2>1, <1>1, <1>2, <1>3, <1>4, <1>5, <1>6, <1>7, <1>9 DEF BridgeNext
  <2> QED BY <2>1, <1>10
<1>12. IInv' BY <1>0, <1>11, NextKeepsIInv
<1> QED BY <1>11, <1>12 DEF BridgeInv, Rest

\* A simulation starts without a regime, an intent or a debate.
LEMMA BridgeStart == BridgeInit => BridgeInv
<1> SUFFICES ASSUME BridgeInit PROVE BridgeInv OBVIOUS
<1>1. IInv BY InitIInv DEF BridgeInit
<1>2. MemoryInv BY PercentBound DEF BridgeInit, MemoryInv
<1>3. FreshInv
  <2>1. traderTick \in 0 .. MaxTick BY <1>1 DEF IInv, TypeOK
  <2>2. DateOf[traderTick] \in Nat BY <2>1, Dates
  <2>3. decided \in Decisions BY DEF BridgeInit, Decisions
  <2> QED BY <2>2, <2>3 DEF BridgeInit, FreshInv, DecisionsAreFresh, NoDate
<1>4. BuysStayWithinTheRegime BY DEF BridgeInit, Init, BuysStayWithinTheRegime
<1> QED BY <1>1, <1>2, <1>3, <1>4 DEF BridgeInv

-----------------------------------------------------------------------------
\* The invariant holds in every reachable state of the bridge.
THEOREM BridgeInductive == BridgeSpec => []BridgeInv
<1>1. BridgeInv /\ [BridgeNext]_<<vars, bridgeVars>> => BridgeInv' BY BridgeStep
<1> QED BY <1>1, BridgeStart, PTL DEF BridgeSpec

\* The bridge trader with its decisions implements the trader of TPlusOne, who
\* decides on any target within the portfolio.
THEOREM BridgeImplementsTPlusOne == BridgeSpec => Spec
<1>1. BridgeInit => Init BY DEF BridgeInit
<1>2. BridgeInv /\ [BridgeNext]_<<vars, bridgeVars>> => [Next]_vars BY BridgeStep
<1> QED BY <1>1, <1>2, BridgeInductive, PTL DEF BridgeSpec, Spec

\* T+1 for every decision pipeline: no date sells what it has bought.
THEOREM BridgeTPlusOne == BridgeSpec => []SoldOnlyFromEarlierDates
BY BridgeImplementsTPlusOne, TPlusOneHolds, PTL

\* The ledger and the account of the bridge agree, and its sales are covered.
THEOREM BridgeAccounts == BridgeSpec => [](LedgerMatchesAccount /\ SalesCovered)
BY BridgeImplementsTPlusOne, LedgerAgrees, SalesAreCovered, PTL

\* No order to buy goes beyond the cap of the regime of its decision.
THEOREM BuysWithinTheRegime == BridgeSpec => []BuysStayWithinTheRegime
<1>1. BridgeInv => BuysStayWithinTheRegime BY DEF BridgeInv
<1> QED BY <1>1, BridgeInductive, PTL

\* No decision rests on a regime of another period, or on an intent older than
\* the forced debate allows.
THEOREM FreshDecisions == BridgeSpec => []DecisionsAreFresh
<1>1. BridgeInv => DecisionsAreFresh BY DEF BridgeInv, FreshInv
<1> QED BY <1>1, BridgeInductive, PTL

-----------------------------------------------------------------------------
(* The memory told. *)

\* Of a finite set whose elements are ranked by a strict order, those above an
\* element.
Above(O, B, i) == {j \in O : <<j, i>> \in B}
IsRanking(O, B) ==
  /\ \A i \in O : <<i, i>> \notin B
  /\ \A i, j \in O : i # j => <<i, j>> \in B \/ <<j, i>> \in B
  /\ \A i, j, k \in O : <<i, j>> \in B /\ <<j, k>> \in B => <<i, k>> \in B

\* The number above an element tells it from the others.
LEMMA RankFacts ==
  ASSUME NEW O, IsFiniteSet(O), NEW B, IsRanking(O, B)
  PROVE  /\ \A i \in O : Cardinality(Above(O, B, i)) \in 0 .. Cardinality(O) - 1
         /\ \A i, j \in O : <<j, i>> \in B =>
              Cardinality(Above(O, B, j)) < Cardinality(Above(O, B, i))
<1>1. \A i \in O : /\ Above(O, B, i) \in SUBSET O /\ IsFiniteSet(Above(O, B, i))
                   /\ Cardinality(Above(O, B, i)) \in Nat
                   /\ i \notin Above(O, B, i)
  <2> TAKE i \in O
  <2>1. Above(O, B, i) \in SUBSET O /\ i \notin Above(O, B, i) BY DEF Above, IsRanking
  <2> QED BY <2>1, FS_Subset, FS_CardinalityType
<1>2. ASSUME NEW i \in O, NEW A \in SUBSET O, IsFiniteSet(A), NEW j \in O, j \notin A,
             A \cup {j} \subseteq Above(O, B, i) \/ A \cup {j} \subseteq O
      PROVE  /\ A \cup {j} \subseteq Above(O, B, i) =>
                  Cardinality(A) < Cardinality(Above(O, B, i))
             /\ Cardinality(A) < Cardinality(O)
  <2>1. /\ IsFiniteSet(A \cup {j}) /\ Cardinality(A \cup {j}) = Cardinality(A) + 1
        /\ Cardinality(A) \in Nat /\ Cardinality(O) \in Nat
    BY <1>2, FS_AddElement, FS_CardinalityType
  <2>2. Cardinality(A \cup {j}) <= Cardinality(O) BY <1>2, FS_Subset
  <2>3. A \cup {j} \subseteq Above(O, B, i) =>
          Cardinality(A \cup {j}) <= Cardinality(Above(O, B, i))
    BY <1>1, FS_Subset
  <2> QED BY <1>1, <2>1, <2>2, <2>3
<1>3. \A i \in O : Cardinality(Above(O, B, i)) < Cardinality(O) BY <1>1, <1>2
<1>4. Cardinality(O) \in Nat BY FS_CardinalityType
<1>5. ASSUME NEW i \in O, NEW j \in O, <<j, i>> \in B
      PROVE  Cardinality(Above(O, B, j)) < Cardinality(Above(O, B, i))
  <2>1. Above(O, B, j) \cup {j} \subseteq Above(O, B, i) BY <1>5 DEF Above, IsRanking
  <2> QED BY <1>1, <1>2, <2>1
<1>6. \A i \in O : Cardinality(Above(O, B, i)) \in 0 .. Cardinality(O) - 1 BY <1>1, <1>3, <1>4
<1> QED BY <1>5, <1>6

\* So that each number below the size of the set is that of one element.
LEMMA Places ==
  ASSUME NEW O, IsFiniteSet(O), NEW B, IsRanking(O, B)
  PROVE  /\ \A k \in 1 .. Cardinality(O) : \E i \in O : Cardinality(Above(O, B, i)) = k - 1
         /\ \A i, j \in O : Cardinality(Above(O, B, i)) = Cardinality(Above(O, B, j)) => i = j
<1> DEFINE c == Cardinality(O)
           f == [i \in O |-> Cardinality(Above(O, B, i))]
<1>1. c \in Nat BY FS_CardinalityType
<1> HIDE DEF c
<1>2. f \in [O -> 0 .. c - 1] BY RankFacts DEF c
<1>3. ASSUME NEW i \in O, NEW j \in O, f[i] = f[j] PROVE i = j
  <2>1. /\ <<i, j>> \in B => f[i] < f[j]
        /\ <<j, i>> \in B => f[j] < f[i]
    BY RankFacts
  <2>2. f[i] \in Int /\ f[j] \in Int BY <1>1, <1>2
  <2> HIDE DEF f
  <2>3. <<i, j>> \notin B /\ <<j, i>> \notin B BY <1>3, <2>1, <2>2
  <2> QED BY <2>3 DEF IsRanking
<1> HIDE DEF f
<1>4. f \in Injection(O, 0 .. c - 1) BY <1>2, <1>3, Fun_IsInj
<1>5. f \in Surjection(O, 0 .. c - 1)
  <2>1. IsFiniteSet(0 .. c - 1) /\ Cardinality(0 .. c - 1) = c BY <1>1, FS_Interval
  <2> QED BY <1>4, <2>1, FS_Injection DEF c
<1>6. \A k \in 0 .. c - 1 : \E i \in O : f[i] = k BY <1>5 DEF Surjection
<1>7. \A k \in 1 .. c : k - 1 \in 0 .. c - 1 BY <1>1
<1> QED BY <1>3, <1>6, <1>7 DEF f, c

\* Scores and costs are numbers as long as no item is of a later day.
IsMemory(items, today) ==
  \A i \in DOMAIN items : items[i].day \in 0 .. today /\ items[i].tail \in Int /\ items[i].length \in Nat

LEMMA ScoreIsANumber ==
  ASSUME NEW items, NEW kind, NEW today \in Nat, IsMemory(items, today)
  PROVE  \A i \in DOMAIN items : Score(items[i], kind, today) \in Int
<1> TAKE i \in DOMAIN items
<1>1. items[i].day \in 0 .. today /\ items[i].tail \in Int BY DEF IsMemory
<1>2. 90 + today - items[i].day \in Nat \ {0} BY <1>1
<1>3. \A d \in Nat \ {0} : (300 * 90) \div d \in Int OBVIOUS
<1>4. (300 * 90) \div (90 + today - items[i].day) \in Int BY <1>2, <1>3
<1>5. 5 * items[i].tail \in Int BY <1>1
<1> QED BY <1>4, <1>5 DEF Score

LEMMA CostIsANumber ==
  ASSUME NEW items, NEW today, IsMemory(items, today), NEW i \in DOMAIN items
  PROVE  Cost(items[i]) \in Nat
<1>1. items[i].length \in Nat BY DEF IsMemory
<1>2. \A n \in Nat : n \div 4 + 24 \in Nat OBVIOUS
<1> QED BY <1>1, <1>2 DEF Cost

\* The recursion of CostOf, when costs are c.
HasCosts(items, c) ==
  /\ Len(items) \in Nat /\ c \in [1 .. Len(items) -> Nat]
  /\ \A k \in 1 .. Len(items) : Cost(items[k]) = c[k]
Added(items, S, k) == IF k \in S THEN Cost(items[k]) ELSE 0
IsSum(items, S, f) ==
  f = [k \in 0 .. Len(items) |-> IF k = 0 THEN 0 ELSE f[k - 1] + Added(items, S, k)]

\* It is a loop that ends.
LEMMA SumExists ==
  ASSUME NEW items, NEW c, HasCosts(items, c), NEW S
  PROVE  \E f : IsSum(items, S, f) /\ f \in [0 .. Len(items) -> Nat]
<1> DEFINE n == Len(items)
           step == [x \in Nat \X (1 .. n) |-> x[1] + Added(items, S, x[2])]
<1>1. n \in Nat /\ \A k \in 1 .. n : Added(items, S, k) \in Nat BY DEF HasCosts, Added
<1> HIDE DEF n
<1>2. step \in [Nat \X (1 .. n) -> Nat]
  <2>1. \A x \in Nat \X (1 .. n) : x[1] + Added(items, S, x[2]) \in Nat BY <1>1
  <2> QED BY <2>1
<1>3. PICK f : Loop(n, Nat, 0, step, f)
  <2> HIDE DEF step
  <2> QED BY <1>1, <1>2, LoopRuns
<1>4. f \in [0 .. n -> Nat] /\ f[0] = 0 BY <1>3 DEF Loop
<1>5. ASSUME NEW k \in 1 .. n PROVE f[k] = f[k - 1] + Added(items, S, k)
  <2>1. k - 1 \in 0 .. n BY <1>1
  <2>2. f[k - 1] \in Nat BY <1>4, <2>1
  <2>3. f[k] = step[<<f[k - 1], k>>] BY <1>3 DEF Loop
  <2> QED BY <2>2, <2>3
<1>6. f = [k \in 0 .. n |-> IF k = 0 THEN 0 ELSE f[k - 1] + Added(items, S, k)]
  <2>1. \A k \in 0 .. n : f[k] = IF k = 0 THEN 0 ELSE f[k - 1] + Added(items, S, k)
    <3> TAKE k \in 0 .. n
    <3>1. k = 0 \/ k \in 1 .. n BY <1>1
    <3> QED BY <1>4, <1>5, <3>1
  <2> QED BY <1>4, <2>1
<1> QED BY <1>4, <1>6 DEF IsSum, n

\* Any function that satisfies it has these values.
LEMMA SumFacts ==
  ASSUME NEW items, NEW c, HasCosts(items, c), NEW S, NEW f, IsSum(items, S, f)
  PROVE  /\ f[0] = 0
         /\ \A k \in 1 .. Len(items) : f[k] = f[k - 1] + Added(items, S, k)
         /\ \A k \in 0 .. Len(items) : f[k] \in Nat
<1> DEFINE n == Len(items)
<1>1. n \in Nat /\ \A k \in 1 .. n : Added(items, S, k) \in Nat BY DEF HasCosts, Added
<1> HIDE DEF n
<1>2. \A k \in 0 .. n : f[k] = IF k = 0 THEN 0 ELSE f[k - 1] + Added(items, S, k)
  <2>1. f = [k \in 0 .. n |-> IF k = 0 THEN 0 ELSE f[k - 1] + Added(items, S, k)] BY DEF IsSum, n
  <2> QED BY ONLY <2>1
<1>3. f[0] = 0
  <2>1. 0 \in 0 .. n BY <1>1
  <2> QED BY <1>2, <2>1
<1>4. \A k \in 1 .. n : f[k] = f[k - 1] + Added(items, S, k)
  <2> TAKE k \in 1 .. n
  <2>1. k \in 0 .. n /\ k # 0 BY <1>1
  <2> QED BY <1>2, <2>1
<1> DEFINE G == {k \in Nat : f[k] \in Nat}
<1>5. \A k \in 0 .. n - 1 : k \in G => k + 1 \in G
  <2> SUFFICES ASSUME NEW k \in 0 .. n - 1, f[k] \in Nat PROVE f[k + 1] \in Nat
    BY <1>1
  <2>1. k + 1 \in 1 .. n /\ (k + 1) - 1 = k BY <1>1
  <2>2. f[k + 1] = f[k] + Added(items, S, k + 1) BY <1>4, <2>1
  <2> QED BY <1>1, <2>1, <2>2
<1>6. 0 \in G BY <1>3
<1> HIDE DEF G
<1>7. \A k \in 0 .. n : k \in G BY <1>1, <1>5, <1>6, UpTo
<1>8. \A k \in 0 .. n : f[k] \in Nat BY <1>7 DEF G
<1> QED BY <1>3, <1>4, <1>8 DEF n

\* CostOf is the last of them.
LEMMA CostOfIs ==
  ASSUME NEW items, NEW c, HasCosts(items, c), NEW S
  PROVE  \E f : IsSum(items, S, f) /\ CostOf(items, S) = f[Len(items)]
<1> DEFINE f == CHOOSE f : IsSum(items, S, f)
<1>1. IsSum(items, S, f)
  <2>1. \E g : IsSum(items, S, g) BY SumExists
  <2> QED BY <2>1
<1>2. CostOf(items, S) = f[Len(items)] BY DEF CostOf, IsSum, Added
<1> QED BY <1>1, <1>2

\* One item more costs what it costs more.
LEMMA CostOfAdd ==
  ASSUME NEW items, NEW c, HasCosts(items, c), NEW S, NEW i \in 1 .. Len(items), i \notin S
  PROVE  /\ CostOf(items, S) \in Nat
         /\ CostOf(items, S \cup {i}) = CostOf(items, S) + Cost(items[i])
<1>1. PICK f : IsSum(items, S, f) /\ CostOf(items, S) = f[Len(items)] BY CostOfIs
<1>2. PICK g : IsSum(items, S \cup {i}, g) /\ CostOf(items, S \cup {i}) = g[Len(items)] BY CostOfIs
<1>3. PICK n : n = Len(items) OBVIOUS
<1>4. n \in Nat /\ i \in 1 .. n /\ Cost(items[i]) \in Nat BY <1>3 DEF HasCosts
<1>5. /\ f[0] = 0 /\ \A k \in 1 .. n : f[k] = f[k - 1] + Added(items, S, k)
      /\ \A k \in 0 .. n : f[k] \in Nat
  BY <1>1, <1>3, SumFacts
<1>6. g[0] = 0 /\ \A k \in 1 .. n : g[k] = g[k - 1] + Added(items, S \cup {i}, k)
  BY <1>2, <1>3, SumFacts
<1> DEFINE G == {k \in Nat : g[k] = f[k] + (IF i <= k THEN Cost(items[i]) ELSE 0)}
<1>7. 0 \in G BY <1>4, <1>5, <1>6
<1>8. \A k \in 0 .. n - 1 : k \in G => k + 1 \in G
  <2> SUFFICES ASSUME NEW k \in 0 .. n - 1, g[k] = f[k] + (IF i <= k THEN Cost(items[i]) ELSE 0)
               PROVE  g[k + 1] = f[k + 1] + (IF i <= k + 1 THEN Cost(items[i]) ELSE 0)
    BY <1>4
  <2>1. k + 1 \in 1 .. n /\ (k + 1) - 1 = k /\ k \in 0 .. n BY <1>4
  <2>2. f[k + 1] = f[k] + Added(items, S, k + 1) /\ g[k + 1] = g[k] + Added(items, S \cup {i}, k + 1)
    BY <1>5, <1>6, <2>1
  <2>3. f[k] \in Nat /\ Added(items, S, k + 1) \in Nat
    <3>1. Cost(items[k + 1]) \in Nat BY <1>3, <2>1 DEF HasCosts
    <3> QED BY <1>5, <2>1, <3>1 DEF Added
  <2>4. Added(items, S \cup {i}, k + 1) = IF k + 1 = i THEN Cost(items[i]) ELSE Added(items, S, k + 1)
    BY DEF Added
  <2>5. k + 1 = i => Added(items, S, k + 1) = 0 BY DEF Added
  <2> QED BY <1>4, <2>2, <2>3, <2>4, <2>5
<1> HIDE DEF G
<1>9. n \in 0 .. n BY <1>4
<1>10. n \in G BY <1>4, <1>7, <1>8, <1>9, UpTo
<1>11. g[n] = f[n] + Cost(items[i]) /\ f[n] \in Nat BY <1>4, <1>5, <1>9, <1>10 DEF G
<1> QED BY <1>1, <1>2, <1>3, <1>11

\* What ByScore sorts: items whose scores are numbers, of n that there are.
Sorts(n, items, O, kind, today, sorted) ==
  /\ n \in Nat /\ DOMAIN items = 1 .. n /\ O \in SUBSET (1 .. n)
  /\ today \in Nat /\ IsMemory(items, today) /\ sorted = ByScore(items, O, kind, today)

\* The others in the order of their scores: each has its place, behind those
\* that are better.
LEMMA SortedIs ==
  ASSUME NEW n, NEW items, NEW O, NEW kind, NEW today, NEW sorted,
         Sorts(n, items, O, kind, today, sorted)
  PROVE  \E c \in Nat :
           /\ DOMAIN sorted = 1 .. c /\ Len(sorted) = c
           /\ \A k \in 1 .. c : sorted[k] \in O
           /\ \A i \in O : \E k \in 1 .. c : sorted[k] = i
           /\ \A k, m \in 1 .. c : m < k <=> Better(items, kind, today, sorted[m], sorted[k])
<1> DEFINE score(i) == Score(items[i], kind, today)
           better(i, j) == score(i) > score(j) \/ (score(i) = score(j) /\ i < j)
           B == {pair \in O \X O : better(pair[1], pair[2])}
           c == Cardinality(O)
           above(i) == Cardinality(Above(O, B, i))
<1>0. /\ n \in Nat /\ DOMAIN items = 1 .. n /\ O \in SUBSET (1 .. n)
      /\ today \in Nat /\ IsMemory(items, today) /\ sorted = ByScore(items, O, kind, today)
  BY DEF Sorts
<1> USE <1>0
<1>1. \A i \in O : i \in Int /\ score(i) \in Int BY ScoreIsANumber
<1>2. \A i, j \in O : better(i, j) <=> Better(items, kind, today, i, j) BY DEF Better
<1> HIDE DEF score
<1>3. \A i, j \in O : <<i, j>> \in B <=> better(i, j) OBVIOUS
<1>4. IsRanking(O, B)
  <2> HIDE DEF B
  <2>1. \A i \in O : ~better(i, i) BY <1>1
  <2>2. \A i, j \in O : i # j => better(i, j) \/ better(j, i) BY <1>1
  <2>3. \A i, j, k \in O : better(i, j) /\ better(j, k) => better(i, k) BY <1>1
  <2> HIDE DEF better
  <2> QED BY <1>3, <2>1, <2>2, <2>3 DEF IsRanking
<1>5. \A i \in O : Above(O, B, i) = {j \in O : Better(items, kind, today, j, i)}
  BY <1>2, <1>3 DEF Above
<1> HIDE DEF B, better
<1>6. IsFiniteSet(O) /\ c \in Nat
  <2>1. IsFiniteSet(1 .. n) BY FS_Interval
  <2> QED BY <2>1, FS_Subset, FS_CardinalityType
<1>7. /\ \A k \in 1 .. c : \E i \in O : above(i) = k - 1
      /\ \A i, j \in O : above(i) = above(j) => i = j
      /\ \A i \in O : above(i) \in 0 .. c - 1
      /\ \A i, j \in O : <<j, i>> \in B => above(j) < above(i)
  <2>1. IsFiniteSet(O) /\ IsRanking(O, B) BY <1>4, <1>6
  <2>2. /\ \A k \in 1 .. Cardinality(O) : \E i \in O : Cardinality(Above(O, B, i)) = k - 1
        /\ \A i, j \in O : Cardinality(Above(O, B, i)) = Cardinality(Above(O, B, j)) => i = j
    BY <2>1, Places
  <2>3. /\ \A i \in O : Cardinality(Above(O, B, i)) \in 0 .. Cardinality(O) - 1
        /\ \A i, j \in O : <<j, i>> \in B =>
             Cardinality(Above(O, B, j)) < Cardinality(Above(O, B, i))
    BY <2>1, RankFacts
  <2> QED BY <2>2, <2>3
<1>8. sorted = [k \in 1 .. c |-> CHOOSE i \in O : above(i) = k - 1]
  <2>1. \A k : (CHOOSE i \in O : above(i) = k - 1)
               = CHOOSE i \in O : Cardinality({j \in O : Better(items, kind, today, j, i)}) = k - 1
    BY <1>5
  <2>2. sorted = [k \in 1 .. c |-> CHOOSE i \in O :
                    Cardinality({j \in O : Better(items, kind, today, j, i)}) = k - 1]
    BY DEF ByScore
  <2> QED BY <2>1, <2>2
<1> HIDE DEF above, c
<1>9. \A k \in 1 .. c : sorted[k] \in O /\ above(sorted[k]) = k - 1
  <2> TAKE k \in 1 .. c
  <2>1. \E i \in O : above(i) = k - 1 BY <1>7
  <2>2. sorted[k] = CHOOSE i \in O : above(i) = k - 1 BY <1>8
  <2> QED BY <2>1, <2>2
<1>10. DOMAIN sorted = 1 .. c /\ Len(sorted) = c
  <2>1. sorted \in [1 .. c -> O] BY <1>8, <1>9
  <2>2. sorted \in Seq(O) BY <1>6, <2>1
  <2> QED BY <1>6, <2>1, <2>2
<1>11. ASSUME NEW i \in O PROVE \E k \in 1 .. c : sorted[k] = i
  <2>1. PICK k \in 1 .. c : k = above(i) + 1 BY <1>6, <1>7
  <2>2. above(sorted[k]) = above(i) BY <1>6, <1>7, <1>9, <2>1
  <2> QED BY <1>7, <1>9, <2>2
<1>12. ASSUME NEW k \in 1 .. c, NEW m \in 1 .. c
       PROVE  m < k <=> Better(items, kind, today, sorted[m], sorted[k])
  <2>1. PICK i \in O : i = sorted[k] BY <1>9
  <2>2. PICK j \in O : j = sorted[m] BY <1>9
  <2>3. above(i) = k - 1 /\ above(j) = m - 1 BY <1>9, <2>1, <2>2
  <2>4. /\ <<j, i>> \in B => above(j) < above(i)
        /\ <<i, j>> \in B => above(i) < above(j)
    BY <1>7
  <2>5. m < k <=> <<j, i>> \in B
    <3>1. i # j => <<i, j>> \in B \/ <<j, i>> \in B BY <1>4 DEF IsRanking
    <3>2. i = j => above(i) = above(j) OBVIOUS
    <3> QED BY <1>6, <2>3, <2>4, <3>1, <3>2
  <2> QED BY <1>2, <1>3, <2>1, <2>2, <2>5
<1> QED BY <1>6, <1>9, <1>10, <1>11, <1>12

\* What is left of the budget before each of them, when their costs are d.
IsLeft(n, base, d, f) ==
  f = [k \in 0 .. n |-> IF k = 0 THEN base ELSE Spend(f[k - 1], d[k])]

\* It is a loop that ends, and what it leaves are numbers.
LEMMA LeftExists ==
  ASSUME NEW n \in Nat, NEW base \in Int, NEW d \in [1 .. n -> Nat]
  PROVE  \E f : IsLeft(n, base, d, f)
<1> DEFINE step == [x \in Int \X (1 .. n) |-> Spend(x[1], d[x[2]])]
<1>1. \A b \in Int, k \in 1 .. n : Spend(b, d[k]) \in Int BY DEF Spend
<1>2. step \in [Int \X (1 .. n) -> Int]
  <2>1. \A x \in Int \X (1 .. n) : Spend(x[1], d[x[2]]) \in Int BY <1>1
  <2> QED BY <2>1
<1>3. PICK f : Loop(n, Int, base, step, f)
  <2> HIDE DEF step
  <2> QED BY <1>2, LoopRuns
<1>4. f \in [0 .. n -> Int] /\ f[0] = base BY <1>3 DEF Loop
<1>5. \A k \in 1 .. n : f[k] = Spend(f[k - 1], d[k])
  <2> TAKE k \in 1 .. n
  <2>1. k - 1 \in 0 .. n OBVIOUS
  <2>2. f[k - 1] \in Int BY <1>4, <2>1
  <2>3. f[k] = step[<<f[k - 1], k>>] BY <1>3 DEF Loop
  <2> QED BY <2>2, <2>3
<1>6. \A k \in 0 .. n : f[k] = IF k = 0 THEN base ELSE Spend(f[k - 1], d[k])
  <2> TAKE k \in 0 .. n
  <2>1. k = 0 \/ k \in 1 .. n OBVIOUS
  <2> QED BY <1>4, <1>5, <2>1
<1>7. f = [k \in 0 .. n |-> f[k]] BY <1>4
<1> QED BY <1>6, <1>7 DEF IsLeft

\* The parts of Retrieve: the pinned items, the others, what these cost in the
\* order of their scores, and what the budget f has left after each.
Parts(items, kind, today, pinned, others, sorted) ==
  /\ pinned = {i \in DOMAIN items : IsPinned(items[i], today) /\ \A j \in 1 .. i - 1 : items[j] # items[i]}
  /\ others = {i \in DOMAIN items : \A j \in pinned : items[j] # items[i]}
  /\ sorted = ByScore(items, others, kind, today)
Costs(items, sorted, n, d) ==
  /\ n \in Nat /\ Len(sorted) = n /\ DOMAIN sorted = 1 .. n /\ d \in [1 .. n -> Nat]
  /\ \A k \in 1 .. n : Cost(items[sorted[k]]) = d[k]
Spending(items, kind, today, pinned, sorted, n, d, f) ==
  /\ f[0] = MemoryBudget - CostOf(items, pinned)
  /\ \A k \in 1 .. n : f[k] = Spend(f[k - 1], d[k])
  /\ Retrieve(items, kind, today) =
       pinned \cup {sorted[k] : k \in {m \in 1 .. n : d[m] <= f[m - 1]}}

\* Retrieve tells what is pinned, and of the others those that fit what is left.
LEMMA RetrieveIs ==
  ASSUME NEW items, NEW kind, NEW today, NEW pinned, NEW others, NEW sorted,
         Parts(items, kind, today, pinned, others, sorted),
         NEW n, NEW d, Costs(items, sorted, n, d),
         MemoryBudget - CostOf(items, pinned) \in Int
  PROVE  \E f : Spending(items, kind, today, pinned, sorted, n, d, f)
<1> DEFINE base == MemoryBudget - CostOf(items, pinned)
           rec(f) == f = [k \in 0 .. Len(sorted) |->
                            IF k = 0 THEN base ELSE Spend(f[k - 1], Cost(items[sorted[k]]))]
           f == CHOOSE f : rec(f)
<1>0. /\ n \in Nat /\ Len(sorted) = n /\ DOMAIN sorted = 1 .. n /\ d \in [1 .. n -> Nat]
      /\ \A k \in 1 .. n : Cost(items[sorted[k]]) = d[k]
  BY DEF Costs
<1> USE <1>0
<1>1. \A g : rec(g) <=> IsLeft(n, base, d, g)
  <2> TAKE g
  <2>1. \A k \in 0 .. n : (IF k = 0 THEN base ELSE Spend(g[k - 1], Cost(items[sorted[k]])))
                          = IF k = 0 THEN base ELSE Spend(g[k - 1], d[k])
    <3> TAKE k \in 0 .. n
    <3>1. k = 0 \/ k \in 1 .. n OBVIOUS
    <3> QED BY <3>1
  <2> QED BY <2>1 DEF IsLeft
<1>2. \E g : IsLeft(n, base, d, g) BY LeftExists
<1>3. rec(f)
  <2>1. \E g : rec(g) BY <1>1, <1>2
  <2> HIDE DEF rec
  <2> QED BY <2>1
<1>4. Retrieve(items, kind, today) =
        pinned \cup {sorted[k] : k \in {m \in DOMAIN sorted : Cost(items[sorted[m]]) <= f[m - 1]}}
  BY DEF Retrieve, Parts
<1>5. {m \in DOMAIN sorted : Cost(items[sorted[m]]) <= f[m - 1]} = {m \in 1 .. n : d[m] <= f[m - 1]} OBVIOUS
<1>6. IsLeft(n, base, d, f) BY <1>1, <1>3
<1> HIDE DEF f, rec, base
<1>7. \A k \in 0 .. n : f[k] = IF k = 0 THEN base ELSE Spend(f[k - 1], d[k])
  <2>1. f = [k \in 0 .. n |-> IF k = 0 THEN base ELSE Spend(f[k - 1], d[k])] BY <1>6 DEF IsLeft
  <2> QED BY ONLY <2>1
<1>8. f[0] = base
  <2>1. 0 \in 0 .. n OBVIOUS
  <2> QED BY <1>7, <2>1
<1>9. \A k \in 1 .. n : f[k] = Spend(f[k - 1], d[k])
  <2> TAKE k \in 1 .. n
  <2>1. k \in 0 .. n /\ k # 0 OBVIOUS
  <2> QED BY <1>7, <2>1
<1>10. Retrieve(items, kind, today) = pinned \cup {sorted[k] : k \in {m \in 1 .. n : d[m] <= f[m - 1]}}
  BY <1>4, <1>5
<1>11. Spending(items, kind, today, pinned, sorted, n, d, f) BY <1>8, <1>9, <1>10 DEF base, Spending
<1> QED BY <1>11

\* Items n and before that fit what was left of the budget before them.
Fitting(sorted, d, f, n) == {sorted[m] : m \in {m \in 1 .. n : d[m] <= f[m - 1]}}

\* What is left is the budget without what was told.
LEMMA LeftIs ==
  ASSUME NEW items, NEW costs, HasCosts(items, costs), NEW pinned, NEW c \in Nat,
         NEW sorted, NEW d, NEW f,
         \A k \in 1 .. c : /\ sorted[k] \in 1 .. Len(items) /\ sorted[k] \notin pinned
                           /\ d[k] \in Nat /\ d[k] = Cost(items[sorted[k]]),
         \A k, m \in 1 .. c : sorted[k] = sorted[m] => k = m,
         CostOf(items, pinned) \in Nat,
         f[0] = MemoryBudget - CostOf(items, pinned),
         \A k \in 1 .. c : f[k] = Spend(f[k - 1], d[k])
  PROVE  \A k \in 0 .. c :
           /\ CostOf(items, pinned \cup Fitting(sorted, d, f, k)) \in Nat
           /\ f[k] = MemoryBudget - CostOf(items, pinned \cup Fitting(sorted, d, f, k))
           /\ Fitting(sorted, d, f, k) # {} => f[k] >= 0
<1>0. MemoryBudget \in Nat BY BridgeAssumption
<1>1. PICK T : T = [k \in 0 .. c |-> Fitting(sorted, d, f, k)] OBVIOUS
<1>2. \A k \in 0 .. c : T[k] = Fitting(sorted, d, f, k) BY <1>1
<1> DEFINE G == {k \in 0 .. c : /\ CostOf(items, pinned \cup T[k]) \in Nat
                                /\ f[k] = MemoryBudget - CostOf(items, pinned \cup T[k])
                                /\ T[k] # {} => f[k] >= 0}
<1>3. 0 \in G
  <2>1. 0 \in 0 .. c OBVIOUS
  <2>2. T[0] = {} BY <1>2, <2>1 DEF Fitting
  <2>3. pinned \cup T[0] = pinned BY <2>2
  <2> QED BY <2>1, <2>2, <2>3
<1>4. ASSUME NEW k \in 0 .. c - 1, k \in G PROVE k + 1 \in G
  <2>1. /\ k \in 0 .. c /\ k + 1 \in 0 .. c /\ k + 1 \in 1 .. c /\ (k + 1) - 1 = k
        /\ 1 .. k + 1 = (1 .. k) \cup {k + 1}
    OBVIOUS
  <2>2. PICK i : i = sorted[k + 1] OBVIOUS
  <2>3. PICK S : S = pinned \cup T[k] OBVIOUS
  <2>4. CostOf(items, S) \in Nat /\ f[k] = MemoryBudget - CostOf(items, S) /\ (T[k] # {} => f[k] >= 0)
    <3>1. /\ CostOf(items, pinned \cup T[k]) \in Nat
          /\ f[k] = MemoryBudget - CostOf(items, pinned \cup T[k])
          /\ T[k] # {} => f[k] >= 0
      BY ONLY <1>4
    <3> QED BY ONLY <2>3, <3>1
  <2>5. f[k + 1] = Spend(f[k], d[k + 1]) /\ d[k + 1] \in Nat /\ d[k + 1] = Cost(items[i])
        /\ i \in 1 .. Len(items) /\ i \notin pinned
    BY <2>1, <2>2
  <2>6. T[k + 1] = T[k] \cup IF d[k + 1] <= f[k] THEN {i} ELSE {}
    <3>1. T[k + 1] = Fitting(sorted, d, f, k + 1) /\ T[k] = Fitting(sorted, d, f, k) BY <1>2, <2>1
    <3>2. Fitting(sorted, d, f, k + 1) = Fitting(sorted, d, f, k) \cup IF d[k + 1] <= f[k] THEN {i} ELSE {}
      <4> DEFINE fits(n) == {m \in 1 .. n : d[m] <= f[m - 1]}
      <4>1. fits(k + 1) = fits(k) \cup IF d[k + 1] <= f[k] THEN {k + 1} ELSE {}
        <5>1. CASE d[k + 1] <= f[k] BY <2>1, <5>1
        <5>2. CASE ~(d[k + 1] <= f[k]) BY <2>1, <5>2
        <5> QED BY <5>1, <5>2
      <4> HIDE DEF fits
      <4>2. \A n : Fitting(sorted, d, f, n) = {sorted[m] : m \in fits(n)} BY DEF Fitting, fits
      <4>3. Fitting(sorted, d, f, k + 1) = {sorted[m] : m \in fits(k + 1)} BY <4>2
      <4>4. Fitting(sorted, d, f, k) = {sorted[m] : m \in fits(k)} BY <4>2
      <4>5. CASE d[k + 1] <= f[k] BY <2>2, <4>1, <4>3, <4>4, <4>5
      <4>6. CASE ~(d[k + 1] <= f[k]) BY <4>1, <4>3, <4>4, <4>6
      <4> QED BY <4>5, <4>6
    <3> QED BY <3>1, <3>2
  <2>7. i \notin T[k]
    <3> SUFFICES ASSUME i \in T[k] PROVE FALSE OBVIOUS
    <3>1. PICK m \in 1 .. k : i = sorted[m] BY <1>2, <2>1 DEF Fitting
    <3>2. m \in 1 .. c /\ m # k + 1 BY <2>1
    <3> QED BY <2>1, <2>2, <3>1, <3>2
  <2>8. i \notin S BY <2>3, <2>5, <2>7
  <2>9. CostOf(items, S \cup {i}) = CostOf(items, S) + Cost(items[i]) BY <2>5, <2>8, CostOfAdd
  <2>10. /\ CostOf(items, pinned \cup T[k + 1]) \in Nat
         /\ f[k + 1] = MemoryBudget - CostOf(items, pinned \cup T[k + 1])
         /\ T[k + 1] # {} => f[k + 1] >= 0
    <3>1. CASE d[k + 1] <= f[k]
      <4>1. f[k + 1] = f[k] - d[k + 1] BY <2>5, <3>1 DEF Spend
      <4>2. pinned \cup T[k + 1] = S \cup {i} BY <2>3, <2>6, <3>1
      <4>3. CostOf(items, S \cup {i}) \in Nat /\ f[k + 1] = MemoryBudget - CostOf(items, S \cup {i})
            /\ f[k + 1] >= 0
        BY <1>0, <2>4, <2>5, <2>9, <3>1, <4>1
      <4> QED BY <4>2, <4>3
    <3>2. CASE ~(d[k + 1] <= f[k])
      <4>1. f[k + 1] = f[k] BY <2>5, <3>2 DEF Spend
      <4>2. T[k + 1] = T[k] BY <2>6, <3>2
      <4> QED BY <2>3, <2>4, <4>1, <4>2
    <3> QED BY <3>1, <3>2
  <2> QED BY <2>1, <2>10
<1> HIDE DEF G
<1>5. \A k \in 0 .. c : k \in G BY <1>3, <1>4, UpTo
<1>6. \A k \in 0 .. c : /\ CostOf(items, pinned \cup T[k]) \in Nat
                        /\ f[k] = MemoryBudget - CostOf(items, pinned \cup T[k])
                        /\ T[k] # {} => f[k] >= 0
  BY ONLY <1>5 DEF G
<1> QED BY ONLY <1>2, <1>6

TellsCrises(items, kind, today) ==
  LET told == Retrieve(items, kind, today)
      crises == {i \in DOMAIN items : IsPinned(items[i], today)}
  IN  /\ \A i \in crises : \E j \in told : items[j] = items[i]
      /\ told \subseteq crises \/ CostOf(items, told) <= MemoryBudget
      /\ \A i \in DOMAIN items \ (told \cup crises) :
           LET better == {j \in told : j \in crises \/ Better(items, kind, today, j, i)}
           IN  CostOf(items, better) + Cost(items[i]) > MemoryBudget

\* The memory tells what it should, of n items.
LEMMA MemoryIsTold ==
  ASSUME NEW n \in Nat, NEW items, DOMAIN items = 1 .. n, Len(items) = n,
         NEW kind, NEW today \in Nat, IsMemory(items, today)
  PROVE  TellsCrises(items, kind, today)
<1> DEFINE crises == {i \in DOMAIN items : IsPinned(items[i], today)}
           pinned == {i \in DOMAIN items : IsPinned(items[i], today) /\ \A j \in 1 .. i - 1 : items[j] # items[i]}
           others == {i \in DOMAIN items : \A j \in pinned : items[j] # items[i]}
           sorted == ByScore(items, others, kind, today)
           told == Retrieve(items, kind, today)
           costs == [k \in 1 .. n |-> Cost(items[k])]
<1>2. HasCosts(items, costs)
  <2>1. \A k \in 1 .. n : Cost(items[k]) \in Nat BY CostIsANumber
  <2> QED BY <2>1 DEF HasCosts
<1>3. pinned \subseteq crises /\ crises \in SUBSET (1 .. n) /\ others \in SUBSET (1 .. n) OBVIOUS
<1>4. \A i \in crises : \E j \in pinned : items[j] = items[i]
  <2> SUFFICES ASSUME NEW i \in crises PROVE \E j \in pinned : items[j] = items[i] OBVIOUS
  <2> DEFINE same == {j \in 1 .. n : items[j] = items[i]}
  <2>1. i \in same /\ same \in SUBSET Nat OBVIOUS
  <2>2. PICK j \in same : \A m \in same : j <= m
    <3> HIDE DEF same
    <3> QED BY <2>1, LeastElement
  <2>3. j \in 1 .. n /\ items[j] = items[i] OBVIOUS
  <2>4. \A m \in 1 .. j - 1 : items[m] # items[j]
    <3> SUFFICES ASSUME NEW m \in 1 .. j - 1, items[m] = items[j] PROVE FALSE OBVIOUS
    <3>1. m \in same BY <2>3
    <3>2. m < j /\ m \in Nat /\ j \in Nat BY <2>3
    <3> HIDE DEF same
    <3> QED BY <2>2, <3>1, <3>2
  <2>5. IsPinned(items[j], today) BY <2>3
  <2> QED BY <2>3, <2>4, <2>5
<1>5. \A i \in 1 .. n : i \in others <=> i \notin crises
  <2> TAKE i \in 1 .. n
  <2>1. i \in crises => i \notin others BY <1>4
  <2>2. ASSUME i \notin crises PROVE i \in others
    <3> SUFFICES ASSUME NEW j \in pinned, items[j] = items[i] PROVE FALSE OBVIOUS
    <3>1. IsPinned(items[j], today) OBVIOUS
    <3> QED BY <2>2, <3>1
  <2> QED BY <2>1, <2>2
<1>6. PICK ps : ps = pinned OBVIOUS
<1>7. PICK os : os = others OBVIOUS
<1>8. PICK so : so = sorted OBVIOUS
<1>9. so = ByScore(items, os, kind, today) BY <1>7, <1>8
<1>10. PICK cs : cs = crises OBVIOUS
<1>11. /\ ps \subseteq cs /\ cs \in SUBSET (1 .. n) /\ os \in SUBSET (1 .. n)
       /\ \A i \in cs : \E j \in ps : items[j] = items[i]
       /\ \A i \in 1 .. n : i \in os <=> i \notin cs
  BY <1>3, <1>4, <1>5, <1>6, <1>7, <1>10
<1> HIDE DEF crises, others, sorted, costs
<1>12. PICK c \in Nat :
         /\ DOMAIN so = 1 .. c /\ Len(so) = c
         /\ \A k \in 1 .. c : so[k] \in os
         /\ \A i \in os : \E k \in 1 .. c : so[k] = i
         /\ \A k, m \in 1 .. c : m < k <=> Better(items, kind, today, so[m], so[k])
  <2>1. os \in SUBSET (1 .. n) BY <1>11
  <2>2. Sorts(n, items, os, kind, today, so) BY <1>9, <2>1 DEF Sorts
  <2> QED BY ONLY <2>2, SortedIs
<1>13. \A k \in 1 .. c : so[k] \in 1 .. n /\ so[k] \notin ps /\ Cost(items[so[k]]) \in Nat
  BY <1>11, <1>12, CostIsANumber
<1>14. PICK d \in [1 .. c -> Nat] : \A k \in 1 .. c : d[k] = Cost(items[so[k]])
  <2>1. [k \in 1 .. c |-> Cost(items[so[k]])] \in [1 .. c -> Nat] BY <1>13
  <2> QED BY <2>1
<1>15. CostOf(items, ps) \in Nat /\ MemoryBudget \in Nat
  <2>1. PICK g : IsSum(items, ps, g) /\ CostOf(items, ps) = g[n] BY <1>2, CostOfIs
  <2>2. g[n] \in Nat BY <1>2, <2>1, SumFacts
  <2> QED BY <2>1, <2>2, BridgeAssumption
<1>16. PICK f : /\ f[0] = MemoryBudget - CostOf(items, ps)
                /\ \A k \in 1 .. c : f[k] = Spend(f[k - 1], d[k])
                /\ told = ps \cup {so[k] : k \in {m \in 1 .. c : d[m] <= f[m - 1]}}
  <2>1. ps = {i \in DOMAIN items : IsPinned(items[i], today) /\ \A j \in 1 .. i - 1 : items[j] # items[i]}
    BY <1>6
  <2>2. os = {i \in DOMAIN items : \A j \in ps : items[j] # items[i]} BY <1>6, <1>7 DEF others
  <2>3. MemoryBudget - CostOf(items, ps) \in Int BY <1>15
  <2>4. \A k \in 1 .. c : Cost(items[so[k]]) = d[k] BY <1>14
  <2> HIDE DEF pinned
  <2>5. \E g : Spending(items, kind, today, ps, so, c, d, g)
    <3>1. Parts(items, kind, today, ps, os, so) BY <1>9, <2>1, <2>2 DEF Parts
    <3>2. Costs(items, so, c, d) BY <1>12, <1>14, <2>4 DEF Costs
    <3> QED BY ONLY <2>3, <3>1, <3>2, RetrieveIs
  <2> QED BY <2>5 DEF Spending
<1> HIDE DEF pinned, told
<1>17. told = ps \cup Fitting(so, d, f, c) BY <1>16 DEF Fitting
<1>18. \A k, m \in 1 .. c : so[k] = so[m] => k = m
  <2> SUFFICES ASSUME NEW k \in 1 .. c, NEW m \in 1 .. c, so[k] = so[m] PROVE k = m OBVIOUS
  <2>1. m < k <=> k < m BY <1>12
  <2> QED BY <2>1
<1>19. \A k \in 0 .. c : /\ CostOf(items, ps \cup Fitting(so, d, f, k)) \in Nat
                         /\ f[k] = MemoryBudget - CostOf(items, ps \cup Fitting(so, d, f, k))
                         /\ Fitting(so, d, f, k) # {} => f[k] >= 0
  <2>1. \A k \in 1 .. c : /\ so[k] \in 1 .. Len(items) /\ so[k] \notin ps
                          /\ d[k] \in Nat /\ d[k] = Cost(items[so[k]])
    BY <1>13, <1>14
  <2> QED BY <1>2, <1>15, <1>16, <1>18, <2>1, LeftIs
<1>20. \A i \in cs : \E j \in told : items[j] = items[i] BY <1>11, <1>17
<1>21. told \subseteq cs \/ CostOf(items, told) <= MemoryBudget
  <2>1. c \in 0 .. c OBVIOUS
  <2>2. CASE Fitting(so, d, f, c) = {} BY <1>11, <1>17, <2>2
  <2>3. CASE Fitting(so, d, f, c) # {}
    <3>1. f[c] = MemoryBudget - CostOf(items, told) /\ CostOf(items, told) \in Nat /\ f[c] >= 0
      BY <1>17, <1>19, <2>1, <2>3
    <3> QED BY <1>15, <3>1
  <2> QED BY <2>2, <2>3
<1>22. ASSUME NEW i \in DOMAIN items \ (told \cup cs)
       PROVE  CostOf(items, {j \in told : j \in cs \/ Better(items, kind, today, j, i)}) + Cost(items[i])
              > MemoryBudget
  <2>1. i \in os BY <1>11
  <2>2. PICK k \in 1 .. c : so[k] = i BY <1>12, <2>1
  <2>3. ~(d[k] <= f[k - 1]) BY <1>17, <2>2 DEF Fitting
  <2>4. {j \in told : j \in cs \/ Better(items, kind, today, j, i)} = ps \cup Fitting(so, d, f, k - 1)
    <3>1. ASSUME NEW j \in told, j \in cs \/ Better(items, kind, today, j, i)
          PROVE  j \in ps \cup Fitting(so, d, f, k - 1)
      <4>1. CASE j \in ps BY <4>1
      <4>2. CASE j \notin ps
        <5>1. PICK m \in 1 .. c : j = so[m] /\ d[m] <= f[m - 1] BY <1>17, <4>2 DEF Fitting
        <5>2. j \in os /\ j \in 1 .. n BY <1>11, <1>12, <5>1
        <5>3. m < k BY <1>11, <1>12, <2>2, <3>1, <5>1, <5>2
        <5>4. m \in 1 .. k - 1 BY <5>3
        <5> QED BY <5>1, <5>4 DEF Fitting
      <4> QED BY <4>1, <4>2
    <3>2. ASSUME NEW j \in ps PROVE j \in told /\ j \in cs BY <1>11, <1>17
    <3>3. ASSUME NEW j \in Fitting(so, d, f, k - 1) PROVE j \in told /\ Better(items, kind, today, j, i)
      <4>1. PICK m \in 1 .. k - 1 : j = so[m] /\ d[m] <= f[m - 1] BY <3>3 DEF Fitting
      <4>2. m \in 1 .. c /\ m < k OBVIOUS
      <4>3. j \in Fitting(so, d, f, c) BY <4>1, <4>2 DEF Fitting
      <4> QED BY <1>12, <1>17, <2>2, <4>1, <4>2, <4>3
    <3> QED BY <3>1, <3>2, <3>3
  <2>5. k - 1 \in 0 .. c OBVIOUS
  <2>6. PICK spent : spent = CostOf(items, ps \cup Fitting(so, d, f, k - 1)) OBVIOUS
  <2>7. spent \in Nat /\ f[k - 1] = MemoryBudget - spent BY <1>19, <2>5, <2>6
  <2>8. d[k] \in Nat /\ d[k] = Cost(items[i]) BY <1>14, <2>2
  <2>9. spent + Cost(items[i]) > MemoryBudget BY <1>15, <2>3, <2>7, <2>8
  <2> QED BY <2>4, <2>6, <2>9
<1> QED BY <1>10, <1>20, <1>21, <1>22 DEF TellsCrises, told, crises

\* For a memory of any size, with items of any cost: every pinned crisis is
\* told, over the budget if need be; beside them no more than the budget has
\* room for; and an item is left out only if it does not fit beside the better
\* ones that are told (UtilityMemoryManager.retrieve).
THEOREM MemoryTold ==
  ASSUME NEW X, NEW items \in Seq(X), NEW kind, NEW today \in Nat, IsMemory(items, today)
  PROVE  TellsCrises(items, kind, today)
<1>1. Len(items) \in Nat /\ DOMAIN items = 1 .. Len(items) OBVIOUS
<1> QED BY ONLY <1>1, IsMemory(items, today), today \in Nat, MemoryIsTold

LEMMA SeqOfLength ==
  ASSUME NEW S, NEW n \in Nat, NEW s \in [1 .. n -> S]
  PROVE  DOMAIN s = 1 .. n /\ s \in Seq(S)
OBVIOUS

\* The property the run checks, of the memories with three items.
THEOREM CrisesTold == BridgeSpec => []CrisesAreRemembered
<1>1. ASSUME NEW items \in [1 .. 3 -> Items], NEW today \in {PinDays, PinDays + 1}
      PROVE  TellsCrises(items, "neutral", today) /\ DOMAIN items = 1 .. 3
  <2>1. PinDays \in Nat /\ today \in Nat /\ today >= PinDays BY BridgeAssumption
  <2>2. DOMAIN items = 1 .. 3 /\ items \in Seq(Items)
    <3> HIDE DEF Items
    <3> QED BY SeqOfLength
  <2>3. \A x \in Items : x.day \in 0 .. today /\ x.tail \in Int /\ x.length \in Nat BY <2>1 DEF Items
  <2>4. IsMemory(items, today) BY <2>2, <2>3 DEF IsMemory
  <2> QED BY <2>1, <2>2, <2>4, MemoryTold
<1>2. CrisesAreRemembered BY <1>1 DEF CrisesAreRemembered, TellsCrises, IsPinned
<1> QED BY <1>2, PTL
=============================================================================
