---------------------------- MODULE BookExchange ----------------------------
(***************************************************************************)
(* The exchange agent over an order book (exchanges/exchange_agent.py).    *)
(* Orders and cancellations reach the book as their messages come in; what *)
(* has traded is told to the traders at the next TIME_TICK, trade by trade *)
(* with an await at each message, while further messages come in.          *)
(*                                                                         *)
(* Then the subscribers are notified, in a loop over the set itself that   *)
(* awaits each message and fails when the set has changed its size.        *)
(*                                                                         *)
(* New trades are found by the key of the last one dispatched in the trade *)
(* history, which is sorted by the timestamp of the taking order.          *)
(***************************************************************************)
EXTENDS OrderBook

CONSTANTS
  NoGroup,            \* the oco_group of a single order
  FirstSubscribers,   \* those subscribed before the first tick
  Comers              \* those that subscribe and unsubscribe later

ASSUME NoGroupAssumption == NoGroup \in Groups
ASSUME SubscribersAssumption == IsFiniteSet(FirstSubscribers \cup Comers)

VARIABLES
  at,               \* where handle_time_tick awaits
  dispatching,      \* new_trades not yet dispatched
  newest,           \* the last of new_trades, 0 before the first tick
  last,             \* last_dispatched_trade_key, as a trade; 0 is None
  found,            \* the orders of the trade at hand that orders_by_id had
  sent,             \* the TRADE_EXECUTIONs sent
  begun,            \* history: the trades there were when the tick began
  answered,         \* the ticks whose BARRIER_RESPONSE is published
  subscribed,       \* subscribed_agents
  toNotify,         \* subscribers the running loop has not reached
  notifySize,       \* the size of the set when that loop began
  disturbed         \* history: the ticks in whose loop subscribers came or went

dispatchVars == <<dispatching, newest, last, found, sent, begun>>
loopOfSubscribers == <<toNotify, notifySize>>
notifyVars == <<subscribed, loopOfSubscribers, disturbed>>
exchangeVars == <<at, dispatchVars, answered, notifyVars>>
allVars == <<vars, exchangeVars>>

ExchangeInit ==
  /\ Init
  /\ at = "waiting" /\ dispatching = {} /\ newest = 0 /\ last = 0
  /\ found = {} /\ sent = <<>> /\ begun = 0 /\ answered = {}
  /\ subscribed = FirstSubscribers /\ toNotify = {} /\ notifySize = 0 /\ disturbed = {}

-----------------------------------------------------------------------------
(* Messages are handled where handle_time_tick awaits.  A loop over no        *)
(* subscriber awaits nothing.                                                *)

Awaiting == pc = "idle" /\ at # "siblings" /\ (at = "notifying" => notifySize > 0)

\* _handle_order_submission, _handle_cancel_order and the quotes of
\* _handle_market_data_snapshot_request.
HandleOrderSubmission(r) == Awaiting /\ AddOrder(r) /\ UNCHANGED exchangeVars
HandleCancelOrder(i) == Awaiting /\ CancelOrder(i) /\ UNCHANGED exchangeVars
HandleSnapshotRequest == Awaiting /\ Quote /\ UNCHANGED exchangeVars
MatchOn == Matching /\ UNCHANGED exchangeVars

\* _handle_subscribe and _handle_unsubscribe.
Resubscribe(s) ==
  /\ Awaiting
  /\ subscribed' \in {subscribed \cup {s}, subscribed \ {s}} \ {subscribed}
  /\ disturbed' = IF at = "notifying" THEN disturbed \cup {now} ELSE disturbed
  /\ UNCHANGED <<vars, at, dispatchVars, answered, loopOfSubscribers>>

-----------------------------------------------------------------------------
(* _dispatch_new_trades. *)

\* Mutant: bisect_left, which finds the last trade dispatched once more.
NewTradesAndTheLast == {k \in DOMAIN history : last = 0 \/ ~Earlier(k, last)}

NewTrades == {k \in DOMAIN history : last = 0 \/ Earlier(last, k)}

First(S) == CHOOSE k \in S : \A j \in S \ {k} : Earlier(k, j)
LastOf(S) == CHOOSE k \in S : \A j \in S \ {k} : Earlier(j, k)

Party(k, side) == IF side = "BUY" THEN history[k].buy ELSE history[k].sell
StatusOf(k, side) == IF side = "BUY" THEN history[k].buyStatus ELSE history[k].sellStatus

\* TRADE_EXECUTION to one party; orders_by_id tells whether it was short.
Tell(k, side) ==
  LET i == Party(k, side)
  IN  /\ sent' = Append(sent, [trade |-> k, side |-> side, order |-> i,
                               short |-> i \in byId /\ orders[i].short])
      /\ found' = (IF side = "BUY" THEN {} ELSE found) \cup
                  (IF i \in byId THEN {side} ELSE {})

\* Take up the first trade of those to dispatch.
DispatchFirst(trades) ==
  /\ at' = "bought"
  /\ dispatching' = trades
  /\ Tell(First(trades), "BUY")

\* The loop over the subscribers begins, if anything has ever been traded.
StartNotifying ==
  /\ at' = "notifying"
  /\ toNotify' = IF history = <<>> THEN {} ELSE subscribed
  /\ notifySize' = Cardinality(toNotify')

StartTick ==
  /\ at = "waiting" /\ pc = "idle" /\ now < MaxTime
  /\ now' = now + 1
  /\ begun' = Len(history)
  /\ IF NewTrades = {} THEN StartNotifying /\ UNCHANGED <<dispatching, newest, found, sent>>
     ELSE DispatchFirst(NewTrades) /\ newest' = LastOf(NewTrades) /\ UNCHANGED loopOfSubscribers
  /\ UNCHANGED <<orderVars, bookVars, stops, history, loopVars, last, answered, subscribed, disturbed>>

TellSeller ==
  /\ at = "bought" /\ pc = "idle"
  /\ Tell(First(dispatching), "SELL")
  /\ at' = "sold"
  /\ UNCHANGED <<vars, dispatching, newest, last, begun, answered, notifyVars>>

\* The seller's message is sent; nothing is awaited until the next one.
EndTelling ==
  /\ at = "sold" /\ pc = "idle"
  /\ at' = "siblings"
  /\ UNCHANGED <<vars, dispatchVars, answered, notifyVars>>

IsSibling(j, i) ==
  /\ orders[i].group # NoGroup
  /\ j # i /\ orders[j].group = orders[i].group /\ orders[j].agent = orders[i].agent

\* Mutant: the siblings of orders that are filled in part go too.
SiblingsToCancelEarly ==
  {j \in byId : /\ status[j] = "ACTIVE"
                /\ j \in Range(stops) \cup Range(Queue(orders[j].side, orders[j].price))
                /\ \E side \in found : IsSibling(j, Party(First(dispatching), side))}

\* Mutant: only siblings that are stop orders go.
SiblingStopsToCancel ==
  {j \in byId : /\ status[j] = "ACTIVE" /\ j \in Range(stops)
                /\ \E side \in found :
                     /\ StatusOf(First(dispatching), side) = "FILLED"
                     /\ IsSibling(j, Party(First(dispatching), side))}

\* Of the orders that are filled and were still in orders_by_id.
SiblingsToCancel ==
  {j \in byId : /\ status[j] = "ACTIVE"
                /\ j \in Range(stops) \cup Range(Queue(orders[j].side, orders[j].price))
                /\ \E side \in found :
                     /\ StatusOf(First(dispatching), side) = "FILLED"
                     /\ IsSibling(j, Party(First(dispatching), side))}

\* _cancel_oco_siblings, one of them.
CancelSibling(j) ==
  /\ at = "siblings" /\ j \in SiblingsToCancel
  /\ CancelOrder(j)
  /\ UNCHANGED exchangeVars

\* Mutant: the key is read from the trade history after the awaits.
NextTradeKeyFromHistory ==
  LET rest == dispatching \ {First(dispatching)}
  IN  /\ at = "siblings" /\ SiblingsToCancel = {}
      /\ IF rest # {} THEN DispatchFirst(rest) /\ UNCHANGED <<last, loopOfSubscribers>>
         ELSE /\ StartNotifying /\ dispatching' = {} /\ last' = LastTrade
              /\ UNCHANGED <<found, sent>>
      /\ UNCHANGED <<vars, newest, begun, answered, subscribed, disturbed>>

\* The next trade, or the key of the last one.
NextTrade ==
  LET rest == dispatching \ {First(dispatching)}
  IN  /\ at = "siblings" /\ SiblingsToCancel = {}
      /\ IF rest # {} THEN DispatchFirst(rest) /\ UNCHANGED <<last, loopOfSubscribers>>
         ELSE /\ StartNotifying /\ dispatching' = {} /\ last' = newest
              /\ UNCHANGED <<found, sent>>
      /\ UNCHANGED <<vars, newest, begun, answered, subscribed, disturbed>>

\* One PORTFOLIO_UPDATE.  A set that has changed its size stops the loop.
Notify(s) ==
  /\ at = "notifying" /\ pc = "idle" /\ Cardinality(subscribed) = notifySize /\ s \in toNotify
  /\ toNotify' = toNotify \ {s}
  /\ UNCHANGED <<vars, at, dispatchVars, answered, subscribed, notifySize, disturbed>>

LoopIsOver == at' = "waiting" /\ toNotify' = {} /\ notifySize' = 0

\* The RuntimeError leaves handle_time_tick, and there is no answer.
NotifyRaises ==
  /\ at = "notifying" /\ pc = "idle" /\ notifySize > 0 /\ Cardinality(subscribed) # notifySize
  /\ LoopIsOver
  /\ UNCHANGED <<vars, dispatchVars, answered, subscribed, disturbed>>

\* Mutant: the answer stands in the branch that has a price to tell.
AnswerTickWithPrice ==
  /\ at = "notifying" /\ pc = "idle" /\ toNotify = {}
  /\ notifySize > 0 => Cardinality(subscribed) = notifySize
  /\ LoopIsOver /\ answered' = IF history = <<>> THEN answered ELSE answered \cup {now}
  /\ UNCHANGED <<vars, dispatchVars, subscribed, disturbed>>

AnswerTick ==
  /\ at = "notifying" /\ pc = "idle" /\ toNotify = {}
  /\ notifySize > 0 => Cardinality(subscribed) = notifySize
  /\ LoopIsOver /\ answered' = answered \cup {now}
  /\ UNCHANGED <<vars, dispatchVars, subscribed, disturbed>>

HandleTimeTick ==
  \/ TellSeller \/ EndTelling
  \/ \E j \in Received : CancelSibling(j)
  \/ NextTrade \/ NotifyRaises \/ AnswerTick
  \/ \E s \in FirstSubscribers \cup Comers : Notify(s)

ExchangeNext ==
  \/ \E r \in Requests : HandleOrderSubmission(r)
  \/ \E i \in Received : HandleCancelOrder(i)
  \/ HandleSnapshotRequest
  \/ \E s \in Comers : Resubscribe(s)
  \/ MatchOn
  \/ StartTick \/ HandleTimeTick

\* Loops and awaited sends come to their end.
ExchangeSpec ==
  /\ ExchangeInit /\ [][ExchangeNext]_allVars
  /\ WF_allVars(MatchOn) /\ WF_allVars(HandleTimeTick)

-----------------------------------------------------------------------------
\* Every variable of the exchange keeps its type, and a tick that dispatches
\* has trades to dispatch.
ExchangeTypeOK ==
  /\ at \in {"waiting", "bought", "sold", "siblings", "notifying"}
  /\ dispatching \subseteq DOMAIN history
  /\ at \in {"bought", "sold", "siblings"} <=> dispatching # {}
  /\ {newest, last, begun} \subseteq 0 .. Len(history)
  /\ found \subseteq Sides
  /\ sent \in Seq([trade : DOMAIN history, side : Sides, order : Received, short : BOOLEAN])
  /\ answered \cup disturbed \subseteq 1 .. now
  /\ subscribed \cup toNotify \subseteq FirstSubscribers \cup Comers /\ notifySize \in Nat

\* "Implements incremental trade dispatch to avoid duplicate notifications":
\* nobody is told a trade twice, though trades come in during the dispatch.
NoDuplicateNotifications ==
  \A m, n \in DOMAIN sent :
    sent[m].trade = sent[n].trade /\ sent[m].side = sent[n].side => m = n

\* Was the trade recorded after one with a later timestamp?
Late(k) == \E j \in 1 .. k - 1 : history[j].time > history[k].time

\* Has everybody been told the trade?
IsTold(k) == \A side \in Sides : \E m \in DOMAIN sent : sent[m].trade = k /\ sent[m].side = side

\* "ensuring all agents receive real-time trade confirmations": a tick is not
\* answered before both parties of each trade made before it are told,
\* whatever trades come in between; except for the late ones of stop orders.
TimelyTradesAreTold ==
  at = "notifying" => \A k \in 1 .. begun : ~Late(k) => IsTold(k)

\* The same of every trade.
EveryTradeIsTold ==
  at = "notifying" => \A k \in 1 .. begun : IsTold(k)

\* A trader is told of a short sale that it was one.
ShortsAreToldAsShorts ==
  \A m \in DOMAIN sent : orders[sent[m].order].short => sent[m].short

\* The orders that had come in when the trade was made, and those in the book.
WereThere(k) == {j \in Received : j <= history[k].buy \/ j <= history[k].sell}
InBook == Range(stops) \cup {j \in Received : j \in Range(Queue(orders[j].side, orders[j].price))}

\* "Handle OCO cancellations for filled orders": once the fill of an order of
\* a group has been told, no sibling it had is left in the book.
SiblingsAreCanceled ==
  at = "notifying" =>
    \A m \in DOMAIN sent :
      LET i == sent[m].order
      IN  StatusOf(sent[m].trade, sent[m].side) = "FILLED" =>
            \A j \in WereThere(sent[m].trade) :
              IsSibling(j, i) /\ status[j] = "ACTIVE" => j \notin InBook

\* For a market order they are: it is never dropped from orders_by_id.
SiblingsOfMarketOrdersAreCanceled ==
  at = "notifying" =>
    \A m \in DOMAIN sent :
      LET i == sent[m].order
      IN  StatusOf(sent[m].trade, sent[m].side) = "FILLED" /\ i \in byId =>
            \A j \in WereThere(sent[m].trade) :
              IsSibling(j, i) /\ status[j] = "ACTIVE" => j \notin InBook

\* An order of a group is canceled only when a sibling has been filled, or by
\* its owner: not when a sibling is filled in part.
SiblingsWaitForTheFill ==
  [][at = "siblings" =>
       \A j \in Received : status[j] # "CANCELED" /\ status'[j] = "CANCELED" =>
         \E i \in Received : IsSibling(j, i) /\ status[i] = "FILLED"]_allVars

\* Each tick is answered, whatever is submitted meanwhile, unless the set of
\* subscribers changed while they were being notified of it.
TicksAreAnswered ==
  \A n \in 2 .. MaxTime : (now = n) ~> (n \in answered \cup disturbed)
=============================================================================
