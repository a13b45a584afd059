# TLA+ verification of the A-share backtester

This directory holds the TLA+ specifications, TLC configurations and TLAPS
proofs kept beside the backtester: the StockSim simulation
(`third_party/StockSim`), the TradingAgents decision graph (`tradingagents`)
and the bridge that lets the second trade in the first
(`bridge_simulation.py`). Paths below are relative to the repository.

    tlc -workers 2 -config MCBridge.cfg MCBridge.tla          # one run
    tlapm BridgeDecision_proofs.tla                           # one proof

## 1. The system

A run of the backtester is a set of processes started by
`third_party/StockSim/main_launcher.py` and tied together by RabbitMQ: one
exchange agent per instrument, any number of trader agents, and one simulation
clock. Every agent has two queues, one bound to a topic exchange for time
messages and one for everything else, and an asyncio loop with a consumer on
each. A consumer handles one message at a time; the two consumers, and the
tasks that handlers create, interleave at every `await`.

| Component | State | Operations | Interacts with |
|---|---|---|---|
| Simulation clock (`simulation/simulation_clock.py`) | current time, tick count, two response queues, stop flag | tick exchanges, wait, tick traders, wait, advance; stop; shut down | all agents, by TIME_TICK, BARRIER_RESPONSE, DECISION_RESPONSE, STOP_SIMULATION |
| Agent base (`agents/agent.py`) | connection, current time and tick id | connect, consume, handle a tick, publish, stop | the clock |
| Candle exchange (`exchanges/candle_based_exchange_agent.py`) | open orders, last candle processed, subscribers | order, (un)subscribe, snapshot, tick: fill along a price path, clear, notify, answer | traders, the clock |
| Order book exchange (`exchanges/exchange_agent.py`, `utils/orders.py`) | price levels, stops, trade history, last trade dispatched | order, cancel, match, dispatch trades, cancel OCO siblings, answer a tick | traders, the clock |
| Trader base (`agents/benchmark_traders/trader.py`) | cash, positions, FIFO lots, pending orders | place, cancel, book an execution, mark to market | exchanges |
| Benchmark traders (buy and hold, SMA, MACD) | strategy state | act on a tick or a snapshot, resubmit | exchange |
| Bridge trader (`bridge_simulation.py`) | previous intents, regime cache, pending microstructure | decide on a snapshot, size and send an order, book its fill | the clock, an exchange, the decision graph |
| A-share microstructure (`tradingagents/dataflows/ashare_market_realism.py`) | ledger of sellable shares per instrument | lot sizing, limit guard, T+1 ledger, costs | bridge trader |
| Decision pipeline (`tradingagents/activation`, `risk`, `memory`, `trading_intent.py`) | regime, last debate, caps, utility memory | infer a regime, debate or reuse the last intent, parse, cap, veto or decay, remember | bridge trader |
| Debate graph (`tradingagents/graph`, `agents`) | messages, reports, two debate states, plans | analysts with their tools, debate and risk rounds, judgements | bridge trader, command line |
| Decision log and checkpoints (`agents/utils/memory.py`, `graph/checkpointer.py`) | a text file per installation, a database per ticker | resolve, rotate, tell lessons, store, resume, clear | debate graph |
| Data flows (`tradingagents/dataflows`) | process-wide configuration, cached files | route a tool call to vendors with fallback, fetch, cut at a date, cache | graph |
| Command line (`cli`, `reporting.py`, `default_config.py`) | selections, configuration, statuses, report sections, wall times | ask, configure, stream, display, save | graph, LLM clients |
| LLM clients (`tradingagents/llm_clients`) | - | endpoint, key and options of a provider | graph |
| Launcher, metrics, scripts | - | configuration, I/O, statistics | - |

**What is hard here.** The clock advances on counted answers: one answer too
few and everything waits for ever, one too many and somebody runs ahead.
Answers are published from chains of messages and tasks, any link of which may
raise; an exception is logged and the message acknowledged, and no wait has a
timeout. Fills and ticks reach a trader on two queues, so a fill can be booked
on either side of a TIME_TICK; positions are then read, orders trimmed and
shares frozen on one side or the other. The candle exchange awaits inside the
loop that fills orders, where new orders and subscriptions slip in. The order
book keeps the same prices in a dict and in a heap, the same orders in queues
and by id, and its trades sorted by the time of an order that may have waited
long; its exchange reads all of them again at the next tick. The order
of checks (lots, price limits, T+1) and of updates (account, ledger) decides
what may be sold when. The decision pipeline reuses what it decided on earlier
days under regimes of other months, and fails halfway. The debate graph passes
dictionaries that every node copies by hand, and ends its debates by counters
and labels. Its log and checkpoints are files written between steps at any of
which the process may die; its data come from vendors that fail in five ways,
through files that other threads write. The display is derived anew from every
chunk of the stream.

**What makes each part correct.** *Clock*: no trader sees a tick before every
exchange is through with it, no exchange starts the next one before each counted
trader has decided, every tick comes once and in order, and the run ends.
*Candle exchange*: fills respect limit and stop prices, follow the path, miss
nothing in the candle's range, happen at most once per OCO group, and every
tick is answered. *Bridge and ledger*: nothing is sold on the date it was
bought, the ledger agrees with the account, sales are covered, and shares
become sellable on the next date. *Trader base*: lots, quantities, cash and
realised profit agree; an order placed once is executed once. *Order book*: no
crossed book, price-time priority, filled quantities balance, heaps agree with
levels, every trade is reported once. *Decision pipeline*: orders stay within
the cap of the regime in force, regimes and intents are no older than the
configuration says, crises are remembered. *Debate graph*: both sides are heard
in every round, no argument is lost, no analyst answers in another's
conversation. *Log and checkpoints*: every decision is recorded once and stays
until it has an outcome, a resumed run goes on where it stopped. *Data flows*:
nothing from after the date, nothing stale, no vendor the user did not choose.
*Command line*: what is shown as done is done; the environment goes before the
menu, and no key goes to another account. `PROJECT.json` lists each hazard at
its line.

## 2. The modules

| Module | Models |
|---|---|
| `SimulationClock` | the clock, the time half of every agent and the messages between them |
| `TickLockStep` | what the clock promises: the abstract specification it implements |
| `CandleExchange` | orders, ticks, fills, OCO groups and subscribers of a candle exchange |
| `OrderBook` | price levels, stop orders, matching and cancellation of one instrument |
| `PriceTimeBook` | what an order book promises: the abstract specification it implements |
| `BookExchange` | the exchange over the book: messages, dispatch of trades, OCO siblings, ticks (extends `OrderBook`) |
| `TPlusOne` | the bridge's orders, the A-share rules, the T+1 ledger, fills racing with ticks |
| `BridgeDecision` | the bridge's decisions over `TPlusOne`: regime, debate or reuse, intent, caps, veto, failures, memory (extends `TPlusOne`, `Signals`) |
| `Signals` | the text of a decision, its renderer and its two parsers |
| `DebateGraph` | nodes, edges and state of the decision graph |
| `DecisionLog` | the decision log as operators on its text |
| `Propagate` | runs of the graph with log, state files and checkpoints, killed anywhere (extends `DecisionLog`) |
| `ModelClients` | providers, endpoints, keys, options of models |
| `RunSetup` | environment, questions, configuration, clients (extends `ModelClients`) |
| `CommandLine` | a whole run from the command line: setup, graph, stream, display, report (extends `DebateGraph`, `RunSetup`) |
| `VendorAdapters` | what each vendor function makes of a request |
| `DataFlow` | routing, fallback, configuration and cached files (extends `VendorAdapters`) |
| `Filters` | what a comprehension keeps of a sequence, as a recursive function one can prove about (used by `OrderBook`, `DebateGraph`, `RunSetup`, `DataFlow` and `DecisionLog`) |
| `MC*` and `*.cfg` | small instances for TLC |
| `*_proofs` | theorems and their TLAPS proofs; `CommandLine_proofs` has those of `DebateGraph`, `BookExchange_proofs` those of `OrderBook`, `BridgeDecision_proofs` those of `TPlusOne`, `Propagate_proofs` those of `DecisionLog` |

Definitions called "Mutant" are variants of the definition that follows them,
each with a plausible programming error. No specification uses them; they are
there to show that a property notices the error.

### SimulationClock

`pc` is where `run()` stands: `head` of the loop, waiting at the `barrier`,
waiting for `decisions`, the `sleep` after it, `shutdown` and `done`. A phase
of an iteration is one action (`StartTick`, `TickTraders`, `DecisionsIn`,
`Advance`), and so is each turn of a wait loop (`WaitForBarrierResponse`,
`WaitForTraderResponse`), because responses may arrive, or be stale, in between.
`_on_message` is `OnMessage`: it moves a response from the clock's RabbitMQ
queue to the asyncio queue of its kind. Since the clock looks at nothing but
the tick id, a queue of responses is a bag of ids.

An agent's `timeQueue` is FIFO. `handling` is the tick whose handler is
running; it becomes free when the handler ends (`ExchangeFinishesTick`, which
publishes the answer, `TraderFinishesTick`) or raises (`HandlerFails`).
`AnswerSnapshot` and `FinishDecision` run on the other queue and in tasks, so
they interleave with everything. `Requests` says which exchanges a trader asks
for a snapshot on a tick: `sma_trader.py` and `macd_trader.py` ask, the bridge
asks for nothing. `Responders` are the traders the launcher counts. An agent
not yet in `bound` gets nothing that is broadcast (`LateStart`).

### TickLockStep

Three lines of promise: each exchange works once in a tick, then each counted
trader decides once, then time moves on. `SimulationClock` implements it with
`worked <- finished`, `now <- tick`, `decided` restricted to the responders
(checked by TLC in `clock`, and proved).

### CandleExchange

One action per stretch of `handle_time_tick` between two awaits. `TickWithCandle`
collects the orders of the first segment; `FillOrder` is `_fill_order` up to
the await of its `send_message` (the order is FILLED before it, its siblings
are not yet cancelled); `CancelSiblings` is what follows the await;
`NextSegment` and `ClearOrders` take no await. Orders and (un)subscriptions are
handled where the handler awaits (`Awaiting`). An order keeps its number after
it has left `open_orders` (status "GONE"), so that properties can speak of it.
`AtStart` is the common form of the branches of `_get_trigger_price`: an order
triggers if it does so where the segment starts, or where it ends.

### OrderBook, PriceTimeBook

The methods of `OrderBook` never await, so a call is never interrupted; the
model still takes one step per iteration of its loops. `pc` says which loop
runs (`market`, `limit`, the check of the `stops`, the matching of a fired
`stop`) and `working` for which order. `book` is the two dicts, `heap` counts how
often a price stands in the heap, `byId` is `orders_by_id`: an order filled or
cancelled leaves it at different places, and some never do. `LookedUp` is the
side effect of reading a defaultdict. Times are ticks; `trade_history` is a
sequence in the order of recording together with `Earlier`, the order the
`SortedList` keeps. `NewTime` stands for the exchange's next tick. A quantity is any
integer: the exchange makes 0 of a missing one and looks at none again, so an order
for nothing, or for less, rests in its queue, meets the order that crosses it, and
trades what the smaller of the two has. That an order is open is therefore a matter
of its status, not of what is left of it.

`PriceTimeBook` has neither queues nor heaps: an order takes the best and oldest
order it may take until it is filled or none is left (a limit order for nothing takes
too, a market order for nothing does not). `OrderBook` implements it
(`PriceTimePriority`); a step over an empty level is a stutter there, so the
refinement says that stale levels, duplicate heap entries and cancellations
never change who trades with whom, for how much and at what price. The
refinement is proved.

### BookExchange

Extends the book with the exchange's handlers. `at` is where `handle_time_tick`
stands: it awaits after the message to the buyer (`bought`), to the seller
(`sold`) and while it notifies (`notifying`), and orders, cancellations and
snapshots are handled there (`Awaiting`); cancelling siblings (`siblings`) does
not yield. `Tell` is one TRADE_EXECUTION; `found` is which of the two orders
`orders_by_id` still had, which decides the flags sent and whose siblings are
cancelled. `subscribed` is the set of subscribers, which comes and goes
(`Resubscribe`) at any await, that of the loop over it included: `Notify` is
one PORTFOLIO_UPDATE of that loop, and `NotifyRaises` is the RuntimeError of a set
whose size is no longer `notifySize`, after which the tick has no answer. With nothing
traded, or nobody subscribed, the loop awaits nothing. `begun`, the number of trades
there were when the tick began, and `disturbed`, the ticks in whose loop subscribers
came or went, are history.

### TPlusOne

The tick of the clock is a cycle of three phases: the exchange executes the
order of the tick before against that tick's candle, the trader sees TIME_TICK,
the trader decides. `HandleFill` may happen before or after `TraderTick`, which
is the race the ledger lives with; it does happen before the decision, because
the fill lies in the same queue as the snapshot that leads to the decision.
`Decide` takes any action and any target weight and runs the chain of
`_execute_target_weight`, `prepare_order` and `place_order`. `marketQty`,
`openQty` and `soldToday` are history: the position as the exchange filled it
and on the dates it did, against which the ledger is judged.

### Signals, BridgeDecision

`BridgeDecision` replaces the arbitrary decision of `TPlusOne` by the one
`on_market_data_update` takes. Its steps up to the order run without an await
that yields to the trader's other handlers, so a decision is one action:
`OnMarketDataUpdate` (with `RegimeNow`, `Debates`, `Parse`,
`ApplyPositionCap`, `SafeIntents` and `ExecuteTargetWeight` in the order of the
code), `DebateFails` (an exception inside the `try`, after the controller has
noted the debate), `EmptySnapshot`, and `FailsBeforeTry` (an exception before
the `try`, which leaves the clock without an answer: `hung`). One of `Readings` is the
action and weight that `Signals` reads in any text the portfolio manager can
render or write freely. CVaR, drawdown and similarity are floating point; what
they decide (over the budget or not, which factor of decay) is a choice.
`config` is the ablation. `decided` is history. `Retrieve` is the loop of
`UtilityMemoryManager.retrieve` over items that cost what their text does (`Cost`, a
quarter of its length and 24): pinned crises first, one of each that are equal, though
the budget falls below zero for them, then by `Score` (in thousandths) what still
fits, skipping what does not (`Spend`).

### DebateGraph

`node` is the node that runs next and a step is one superstep of LangGraph. A
node's model call is a choice (tool calls or not, text or the empty string); an
argument is its speaker and the number of his turn, so that the histories the
nodes copy by hand can be compared with who spoke when. `GraphFails` is an
exception in a model call or the recursion limit. The sentiment analyst
fetches his data himself and never calls tools.

### DecisionLog, Propagate

The log is a sequence of entries (ticker, date, days held or pending).
`DropOldest` and `GetPastContext` are the loops of `_apply_rotation` and
`get_past_context`, turn by turn, as recursive functions. `Fetched` is any set of
outcomes that `_resolve_pending_entries` can come back with: some pending entries
of the ticker have prices by now, others have not. `Logs` is what earlier runs may
have left (`LogsAssumption`): no outcome of prices to come, no decision pending
twice.
`Propagate` is `TradingAgentsGraph.propagate` with one action per access to a
file: resolve the ticker's pending entries (`Propagate`), write the new text
(`WriteBatch`), move it over the old one (`ReplaceLog`), start the graph, run a
node and checkpoint it, write the state, look for the decision, append it,
clear the checkpoint. `Crash` ends the process at any of them. LangGraph is
external: an input that is not `None` starts the thread's nodes from the first.
The bridge's context is stored as a log entry with a date no parser reads
(`ContextOf`).

### ModelClients, RunSetup, CommandLine

An endpoint is named by the account it serves, so that "the key fits the
endpoint" is an equality. `StartRun` goes from the first question to the graph
and its clients; a `StreamChunk` is a superstep of the graph and the whole body
of the loop over its stream, with research, trading and risk parts in the order
of the code; `FinishRun` is what follows the loop. A section holds the name of
the agent whose text is in it.

### VendorAdapters, DataFlow

A row is a day and the real day it was fetched on; an outcome is `told` with
rows, a text without data, or one of the errors the router tells apart.
`Tries` are the endings of the requests `yf_retry` and its like make. Times are half
days, because the window of Yahoo's news goes up to and including the midnight that
ends its last day; an article has the time it came out and the time it bears once its
time zone is dropped, or bears none. `parsed` says whether a table or a report of Alpha
Vantage can be parsed (what cannot passes its filters uncut), `dated` whether a call
for a statement gives its date (without one nothing is cut). A tool
call (`RouteToVendor`, `BuildVerifiedMarketSnapshot`) goes through its chain
with one action per vendor; the Yahoo file is truncated and partly written in
one step (`DownloadOhlcv`), completed in the next (`WriteOhlcv`), and may be read
in between; a file without even its header raises (`ReadTruncated`). An indicator
window that meets an error is put together `again` date by date (`NextDate`): each
date, from the last back to the first, is a read of its own as of that `day`, possibly
with a download of its own, and is left blank when it fails; `got` is what was found so
far. `BuildVerifiedMarketSnapshot` has no router: it asks Yahoo, whatever
the configuration names for prices, which is what its `chosen` holds.
`Die` loses all calls and keeps the files. `SetConfig` may come at
any time, as a second graph in the process does it.

## 3. What the runs check

| Run | Instance | Shows |
|---|---|---|
| `clock` | 2 exchanges, 2 counted traders, 1 benchmark trader, 3 ticks, any `stop()` | `TypeOK`, `NoDecisionOutstanding`, the refinement `ImplementsLockStep` (which has both orderings in it), `Terminates` |
| `clock_faults` | 2 exchanges, 2 traders (1 counted), 2 ticks, handlers raise, agents connect late | `ExchangesBeforeTraders`, `DecisionsBeforeNextTick` survive every fault |
| `clock_bridge` | 1 exchange, a bridge and another trader, 2 ticks | **violated**: `LoopReachesTheEnd` |
| `sellable` | up to 6 shares, lots of 2, 4 ticks, one per date | **violated**: `SellableOnTheNextDate` |
| `candle_exchange` | 7 orders of 2 traders that come and go, 4 candles of 3 prices, 3 orders and 2 ticks per run | `FilledWithinPrice`, `OneOfEachGroup`, `NoTriggerMissed`, `FillsFollowThePath`, `TicksAnswered` |
| `book_exchange` | 13 kinds of orders at 3 prices, stop orders and orders for nothing or less among them, one OCO group, 4 orders, 3 times, quotes and cancellations, one subscriber that stays and one that comes and goes | the book: `BookHoldsOpenOrders`, `TradesAddUp`, `PriceTimePriority` (refinement of `PriceTimeBook`), `StopsSettled`; the exchange: `NoDuplicateNotifications`, `TimelyTradesAreTold`, `SiblingsOfMarketOrdersAreCanceled`, `SiblingsWaitForTheFill`, `TicksAreAnswered` |
| `bridge` | 5 ablations, 3 markets, weights of 5 sizes, 7 ticks, 2 per date, periods and forced debates of 2 days; memories of 3 out of 16 items of two lengths, a budget of 60 | T+1 (`SoldOnlyFromEarlierDates`, `LedgerMatchesAccount`, `SalesCovered`) under real decisions; `BuysStayWithinTheRegime`, `DecisionsAreFresh`, `CrisesAreRemembered` |
| `rating` | as `bridge` | **violated**: `IntentFollowsTheRating` |
| `propagate` | 2 tickers, 2 dates, 2 shapes of the graph, 2 runs, a log that is empty or at its cap of 2, the real date moving | `EveryRunIsRecorded`, `LessonsAreTheLatest`, `PendingUntilResolved` |
| `resume` | the same, 3 runs | **violated**: `CompletedNodesAreNotRepeated` |
| `command_line` | 11 sets of answers, 13 environments, keys, flags; graphs of one or two analysts and up to 3 rounds, limit of 16 supersteps | `BothSidesAreHeard`, `NothingIsForgotten`, `ConversationsAreOwn`; `CompletedIsTrueAndLasts`, `CountedReportsAreFinal`, `WallTimesAddUp`; `EnvironmentWins`, `KeyFitsEndpointButGlm` |
| `data_flow` | 2 concurrent callers, every tool, with and without a date, 2 configurations, 2 dates, gaps in the trading days, news around midnight and without a time, 2 calls, 2 real days | `NothingFromTheFuture`, `YahooPricesAreFresh`, `OnlyChosenVendors` |

The T+1 properties are checked in `bridge` and not on `TPlusOne` by itself:
`BridgeImplementsTPlusOne` is proved, and the properties are theorems of both.
The book is checked within `book_exchange`; `MCOrderBook.cfg` checks it by itself,
with `NotCrossed` and that every call returns (`EveryCallReturns`).

**Why the bounds are enough.** Two exchanges and two counted traders are the
least that tell "all have answered" from "one has answered", and a third tick is
the least in which a stale answer of the first can meet the wait of another
tick. Three orders make two fills and a sibling, or two siblings and a
latecomer; the four candles have a path that rises, one that falls, one whose
first segment is empty and one without movement; the prices of the orders lie
below, in and above them. Three prices let an empty level hide under a better
one and above a worse one; four orders are two levels of one side emptied by
two of the other, a level emptied, quoted and filled again, or two stop orders
and the trade that fires them. Orders of the group and orders of no group are
not mixed (`Unmixed`), which is where the two parts of the run meet least: the first
are followed for three calls while a subscriber comes and goes, the second for four,
or three with one for nothing (which trades nothing and still ends a level) or for
less (whose trade gives the other side more). Two subscribers are the least with an
await between them, and one that goes while the other comes leaves the size as it
was. Three items of a memory are the least in which one is pinned, the best of the others is
too long for what it leaves and the last one fits; a budget of 60 holds two short
items, or one long one and nothing else; two of the items may be equal, or all pinned. Seven
ticks of the bridge are four dates and two periods: a regime is inferred, used,
and replaced, an intent is reused once and debated again, and shares bought on
one date are sold in the same and in the next period. Two runs of the graph
are the one that dies and the one that finds its remains; a log with two
resolved and two pending entries is at its cap and goes over it by one batch.
Three rounds tell a debate that ends by turns from one that ends by rounds;
two analysts are the least with a conversation to mix up; the environments
that differ in the setup alone are followed for one provider (`RunOnce`). Two
calls are a writer and a reader of a file, or a call and the one after a kill;
days 0, 1, 4 and 5 have a gap that is longer than `MaxStale` and one that is
not, one date lies in the gap and one at its end, which is the present on the first of
two real days, the second of which lets rows appear; articles bear times before and
after midnights.
For the modules with proofs the bounds are then
removed.

`CHECK_DEADLOCK FALSE` is set where a model stops at its bound of ticks, runs or
calls, when the program has ended, or when it hangs, which `Terminates` and
`LoopReachesTheEnd` are about. The book can always be quoted, so deadlock is
checked there, but quoting makes it a weak check; that ticks end is said by
`TicksAreAnswered`.

**Fairness.** `FairSpec` asks for weak fairness of each process (the clock, an
agent's time handler) and of each message in flight (`OnMessage`,
`AnswerSnapshot`, `FinishDecision`): event loops run ready tasks, and RabbitMQ
delivers to a connected consumer. Nothing is fair that nobody has to do:
`stop()`, failing, connecting late. The book's `Spec` is weakly fair to `Matching`
(a loop of synchronous code runs on), the book exchange's to `MatchOn` and
`HandleTimeTick` (an awaited send completes); no order has to come. All other
runs check safety. The
decision graph, its log and the data flows have no liveness to state: a model
or a vendor may answer or not, and the recursion limit ends every graph.

### The violated properties

* `LoopReachesTheEnd`. `run()` says that its loop "continues until the end time
  is reached or a stop signal is received". The bridge trader answers the clock
  at the end of `on_market_data_update`, which runs on a snapshot; no code of
  the bridge or of the trader base requests one, and the exchange sends none
  by itself. With the bridge counted by the launcher, tick 0 never ends.
* `SellableOnTheNextDate`. A test is called "blocks same day sell and allows
  next day". A fill that is handled after the next TIME_TICK is booked under
  the date of that tick, and frozen through it.
* `CompletedNodesAreNotRepeated`. `propagate()` promises that "a crashed run can
  resume from the last successful node". It recompiles the graph with the
  checkpointer and the old thread, and invokes it with a new initial state;
  the test of the feature (`tests/test_checkpoint_resume.py`) invokes with
  `None`. With an input LangGraph starts from the first node.
* `IntentFollowsTheRating`. The rating scale says "Underweight: Reduce exposure,
  take partial profits". The bridge's parser looks for other words (EXIT,
  REDUCE, TRIM, SELL, BUY), so that a rendered decision rated Underweight, and
  without any of them, is executed as HOLD.

### Further disagreements, outside the runs

Each of these is stated in its module, and TLC finds it violated: with the
configuration named, if that is one of its own (`MCTradesTold.cfg`,
`MCCascades.cfg`, `MCShorts.cfg`, `MCConcurrentRuns.cfg`), and otherwise when it
is added as an `INVARIANT` to the configuration of the run that is named.

* `EveryOrderGetsACandle` (`MCCandleExchange.cfg`). The exchange creates an order
  "for execution in next candle" and clears "all processed orders"; an order
  that arrives during the awaits of the fills is cleared without ever being
  looked at.
* `EveryTradeIsTold` (`MCTradesTold.cfg`). The dispatch should ensure "all agents
  receive real-time trade confirmations". It looks for trades after the last
  one dispatched, in a history sorted by timestamp, and a stop order trades
  under the time it was submitted: fired late, its trade lies before the last
  one dispatched. `TimelyTradesAreTold` shows that no other trade is lost.
* `SiblingsAreCanceled` (`MCBookExchange.cfg`). "Handle OCO cancellations for filled
  orders": orders are looked up again at the tick, when filled limit orders
  and fired stop orders have been dropped, and their siblings stay. For market
  orders the siblings do go (`SiblingsOfMarketOrdersAreCanceled`).
* `QuotesHaveOrders` (`MCBookExchange.cfg`). `get_best_bid` promises the highest bid and the quantity
  there. A level that a cancellation empties under a better one stays in the
  heap, and is quoted with quantity 0 once it comes to the top. Matching skips
  it (`PriceTimePriority` holds); only the quote, and the middle price that
  stop orders may be compared with, are wrong.
* `NoStopLeftBehind` (`MCBookExchange.cfg`). A stop order is triggered "when market price >= stop
  price". After a market order nobody checks.
* `CascadesComplete` (`MCCascades.cfg`). The check after fired stop orders "handles cascading stop
  triggers". It reads the last trade in the order of timestamps, and a stop
  order trades under the time it was submitted: with a younger trade in the
  history it does not see its own.
* `ShortsAreToldAsShorts` (`MCShorts.cfg`). "Notify seller with extended order
  information": the flags of a limit order that has been filled are gone by
  the time its trade is dispatched.
* `ContextReachesTheDecision` (`MCPropagate.cfg`). The bridge infers the regime and
  retrieves its memory "then inject it into every micro trading decision", as a
  decision stored in the log. It is pending, and only resolved entries are
  told; its date is no date, so it is never resolved and never rotated out.
* `PendingUntilResolved` with two processes (`MCConcurrentRuns.cfg`). An entry
  appended between the read and the move of another process is lost.
* `KeyFitsEndpoint` (`MCCommandLine.cfg`). `llm_clients/openai_client.py` says that the
  international and Chinese accounts of a provider have keys of their own;
  `TRADINGAGENTS_LLM_PROVIDER=glm` gets the Chinese endpoint of the menu's
  table and the international key. `KeyFitsEndpointButGlm` holds for the rest.
* `NoRowIsMissing` (`MCDataFlow.cfg`). A file of prices that another thread is
  writing, or that a kill left half written, is read as if it were whole; the
  check for staleness only sees the end of it.
* `CoreFailuresAreLoud` (`MCDataFlow.cfg`). "Core categories [...] still raise
  so a broken primary is loud": the statement functions of `y_finance.py` return
  the error as a text, which the router takes for an answer.
* `NothingAtAllFromTheFuture` (`MCDataFlow.cfg`). Data are cut at the date of the call
  "to prevent look-ahead bias" (`stockstats_utils.py`), and `alpha_vantage_fundamentals.py`
  says the same. A table or a report of Alpha Vantage that cannot be parsed
  is passed on whole (`alpha_vantage_common.py`, lines 148-151;
  `alpha_vantage_fundamentals.py`, line 17), and both `get_fundamentals`
  take a date and answer for the present. `NothingFromTheFuture` says what is cut: all
  other answers to calls that give a date. For news it says what the code does: the
  window of Yahoo's reaches to the midnight that ends the date, that midnight
  included, with time zones dropped, and news without a time is let through when the date
  is the present or the day before.
* `IndicatorsEndNearTheDate` (`MCDataFlow.cfg`). "Reject a stale frame (latest row far
  older than curr_date)": indicators that are put together date by date
  (`y_finance.py`, lines 190-200) leave the dates blank whose read failed, so that
  the last value may be older than the limit. `YahooPricesAreFresh` leaves them out.
* `SnapshotsAskTheChosen` (`MCDataFlow.cfg`). "We do NOT silently fall back to
  vendors the user did not choose" (`interface.py`, line 188): the verified snapshot
  calls `load_ohlcv` (`market_data_validator.py`, line 35), which is Yahoo, also when the
  configuration names only others for prices. `OnlyChosenVendors` is about the router.
* `NewsNeverRaise` (`MCDataFlow.cfg`). "no exceptions surface from here"
  (`sentiment_analyst.py`): the news of the router may raise.

Read in the code and not stated as properties: an order for zero shares, for no number
of them, or for fewer than zero is accepted, rests and trades; a call for a statement that
gives no date is told all there are; `every_n_trading_days` counts
calendar days; the triggers `limit_hit_state` and `material_news` are never set;
with the risk rewrite off a reused intent is not capped for the regime it is
reused in (the guard of `BuysStayWithinTheRegime`); the drawdown veto turns an
EXIT into a HOLD; SELL with a target above the present weight sells the
difference; several instruments answer the clock once per snapshot; the
redundancy of memories is taken against an empty selection; returns of a
backtest come from the real present; the command line streams its graph
without the checkpointer its `--checkpoint` flag promises; the AkShare cache of
a window that ends today is never fetched again; configuration of an earlier
graph stays under that of the next (`set_config` merges).

## 4. What is proved

All theorems hold for every value of the constants under the assumptions named
in the modules: finite sets of agents and prices, `Lot > 0`, dates that do not
decrease, candles whose low and high enclose open and close, a price that is
not `NoPrice` for every order but a market order. `CommandLine` assumes that
answers are those of the menus, that an endpoint of the user's own is none of
the known ones, and that a debate has at least one round, in the menu and in
the environment (the code takes any integer there; with 0 the first speaker
still speaks, and what a round is loses its meaning). `DataFlow` assumes that a
configuration names vendors by strings and that only methods with vendors are
asked for. `Propagate` assumes of the log it starts with what its own theorems
say of the one it leaves (`LogsAssumption`), and that real time does not run
backwards (`FirstDay <= LastDay`). TLC evaluates every one of them on the instances
of the runs. Two theorem groups have a hypothesis of their own, `OneSnapshot` of
the clock and `OneProcess` of the decision log, named below where they are used.

Each inductive invariant was checked by TLC, on the constants of the run of its
module, before it was proved.

* `SimulationClock_proofs`: `TypeCorrect` and `BarrierSafe`
  (`ExchangesBeforeTraders`). The argument counts: for the current tick, the
  answers in the clock's RabbitMQ queue, in its asyncio queue and already
  received are at most the exchanges that have finished the tick. The wait ends
  with as many answers as there are exchanges, so all have finished before
  TIME_TICK goes to the traders; what is in a trader's time queue is never
  newer than what all exchanges have finished. Faults only remove answers.

  `DecisionsSafe`, `NothingOutstanding` and the refinement
  `ClockImplementsLockStep` are the other half, from the traders back to the
  exchanges. They assume `OneSnapshot`: a counted trader asks at most one exchange for
  a snapshot in a tick. The launcher's `expected_responses` presumes it: it counts
  traders, while a trader answers once per snapshot. (Section 3 names the bridge with
  several instruments among the things read in the code.) In the invariant a counted
  trader holds one token per tick: the tick in its queue, a snapshot to ask for,
  asked for or answered, or none once it has decided (`ResponderInv`); the responses
  of the tick are then as many as the traders that have decided
  (`DecisionCountInv`). A fault takes a token away, and the clock then waits.
* `BookExchange_proofs`, of the book: `OpenOrdersAreHeld`, `NothingIsMadeOrLost`,
  `BookIsNotCrossed`, `StopsAreSettled`, and `BookIsPriceTime`, the refinement of
  `PriceTimeBook`. `BookInv` says that the queue of each price *lists* the limit
  orders open there, eldest first (`QueueInv`), that every level of the dicts is in the
  heap (`HeapInv`; the heap may have more), that what is open is known by its
  id (`KnownInv`), what the loop at hand works on (`LoopInv`), that two open
  orders that could trade include the one that is coming in (`CrossInv`), and
  that nothing is left of an order that is filled (`FilledInv`); of one that is not,
  any integer may be left, so that what is open goes by the status. From it
  follows that what rests are the open limit orders, whatever lies
  in the dicts and heaps, and that the head of the best queue is the eldest of the best
  price, so that each turn of a loop is a `Take` of the abstract book; all other
  steps are its arrivals, withdrawals and stutters, one lemma per action.
* `BookExchange_proofs`, of the exchange: `NobodyIsToldTwice`, `TradesAreTold`,
  `SiblingsGo`, `SiblingsAreSpared`. `ExchangeInv` says that what was told is earlier
  than the trade at hand, or not later than the last of the batch before
  (`ToldInv`); that every trade from before the tick is late, told, or in the
  batch (`ToTellInv`); and that each filled order that was told of has no active
  sibling left in the book, but for the trade at hand (`SettledInv`). Between two
  messages of the dispatch orders arrive, trade and are cancelled: every step of the book
  goes `Onward`, which is to say that the history only grows and that no order comes
  back into `orders_by_id`, into the book, or to ACTIVE. That is why what was
  settled before an await is settled after it.
* `BridgeDecision_proofs`, of the execution: `TypeCorrect`, `TPlusOneHolds`,
  `LedgerAgrees`, `SalesAreCovered`, for any decisions. `SoldOnlyFromEarlierDates` is not inductive: the invariant
  relates the sellable shares to what was held when the market's date began
  less what was sold since, and says which of the two dates the ledger and the
  fill in flight belong to in each phase.
* `CandleExchange_proofs`: `TypeCorrect`, `PricesRespected`, `OneFillPerGroup`,
  `NothingMissed`, `StandingFillsNothing`, `EveryTickAnswered` and the action
  property `FillsAlongThePath`. The invariant says that what was collected
  triggers in the segment at hand and lies ahead of its last fill (`CollectedInv`,
  `AheadInv`), that a filled order whose fill has been sent has no active sibling
  (`GroupInv`), and that an order in the candle's range is active in segment 2
  only if it is among the collected (`ReachInv`): segment 2 runs from one end
  of the range to the other (`ReachTriggers`).
* `BridgeDecision_proofs`, of the decisions: `BridgeImplementsTPlusOne` is a refinement: a decision,
  whatever is debated, parsed, capped and vetoed, is a `Decide` or a `NoTrade` of
  `TPlusOne`, because its target is a weight within the portfolio
  (`ParseFacts`, `CapFacts`, `SafeFacts`). `BridgeTPlusOne` and `BridgeAccounts`
  follow from the theorems about `TPlusOne`. `BuysWithinTheRegime` needs
  that the reading of a debate is capped before it becomes the intent, and that
  the rewrite caps the reused one by the regime of today; `FreshDecisions`
  needs that a debate that has not failed is no older than the controller's
  mark, and that a regime is replaced when its period ends (`FreshInv`).

  `MemoryTold` is about `retrieve`, a memory and a budget of any size and texts of any
  length: every pinned crisis is told, over the budget if need be; what is told beside
  them keeps within the budget; and an item that is left out does not fit beside the
  better ones that are told. The items are ranked by how many go before them; the
  ranks are distinct, so that the k-th of the loop is the one with rank k. What is left
  of the budget after k of them is the budget less what those told so far cost
  (`LeftIs`); it never falls below zero by them, and an item is skipped just when it
  costs more. `CrisesTold` is the property the run checks.
* `CommandLine_proofs`, of the graph: `EverySideIsHeard`, `OwnConversations` and
  `AllIsRemembered` (`NothingIsForgotten`), for every choice
  of analysts, any numbers of rounds and any recursion limit. The argument for
  the rounds: turns alternate, so the node that runs next says how many turns
  each side has had (`InvestInv`, `RiskInv`); the counter is their sum, and can
  reach its bound only when they are equal. For conversations: the nodes of an
  analyst are left for another's by Msg Clear alone (`ConversationInv`). For the
  debates: a side's own history is what is kept of the common one when only its
  arguments are, and an argument appended to both keeps it so (`SaidInv`,
  `KeepOnlyAppend`).
* `CommandLine_proofs`, of a whole run: `RunsDebate` (the same three properties, from setup
  to end or failure), `CountsAreOfFinalReports`, `TimesAddUp`, `TheEnvironmentWins`,
  `KeysFit` and the action property `CompletedLasts`. `CliInv` joins what the setup decided
  (`RunInv`), the invariants of the graph, the order in which texts appear,
  empty from the node that runs next on (`TextInv`), what is displayed of
  them (`DisplayInv`), and that the times of the analysts who are through lie
  end to end (`TimeInv`). A status is derived anew from each chunk; it cannot fall
  back because no node runs again once its text is there.
* `DataFlow_proofs`: `NeverTheFuture`, `PricesAreFresh`, `OnlyTheChosenAreAsked`. A
  call remembers the vendors chosen when it began, and its chain has no other (`CallInv`), so
  that `SetConfig` of another graph does not reach it. A file of Yahoo's, whole
  or half written, has rows of one download, of the day in its name, and a file of
  AkShare's nothing after the date in its key (`FilesInv`); that a call reads a file
  which another writes, or a dead one left, can lose rows but adds none. What is
  loaded as of a day is cut at it (`Loaded`); the fallback loads as of days that are
  never after the date, and what it has got so far has nothing after the date either
  (`CallInv`). The check for staleness comes after the cut, which is why a file that is
  too short to be fresh is never an answer, unless to the fallback date by date, where it
  is about one date at a time. `Good` says which answers the theorems are about:
  `NeverTheFuture` is silent where the code does not cut (no date given, a body that
  cannot be parsed, methods without a date).
* `Filters_proofs`: induction over data, where the proofs need it. The provers
  cannot instantiate an induction theorem with an operator, but
  the least element of a *set* of numbers (`LeastElement`) does the same, and with it
  `KeepOnlyAppend` and the like say what the recursive function `KeepOnly` returns
  for every sequence. `LoopRuns` says that a loop over a sequence is the function
  that its turns define, and `AppendInduction` that a set with the empty sequence,
  and with each `Append` to a member, has every sequence. `BookExchange_proofs`
  treats the sum of the fills (`TotalAppend`) in this way.
* `Propagate_proofs`, of the loops over the log, for a log of any length. Rotation
  drops the oldest resolved entries from the front, which is no way to follow it
  through an `Append`; said from the end (`LatestAppend`) it can be: of a log with an
  entry more it keeps the entry and what it keeps of the log. Hence rotating before
  outcomes are put leaves what rotating after leaves (`RotationOfPut`), and a batch
  makes of the log what its outcomes make of it one at a time, in whichever order,
  with a rotation after each (`OneAtATime`). `LessonsAre` says that the loop of
  `get_past_context`, which runs backwards over all tickers with two limits, ends
  with the latest of the ticker and of the others.
* `Propagate_proofs`, of any number of processes: `FilesCorrect`, `TypeCorrect`,
  `NoDecisionWithoutItsState`. `FilesInv` says that an entry in the log, in the
  text beside it, or in a batch under way is of a stored state and of prices there
  were. It holds however processes overwrite each other: they lose entries, but
  bring in none that was not one.
* `Propagate_proofs`, of one process on the files: `RunsAreRecorded`,
  `LessonsAreRight` and the action property `PendingStays`. They assume `OneProcess`:
  with two, `PendingUntilResolved` is false (section 3). `RunInv` says at each step
  of a run what the log still has: the decisions its batch is about, the text that
  the batch makes of it, the lessons told, the decision just stored; and that
  none is pending twice, which is what makes the first pending entry of a decision
  the only one. Any step may be the last: a crash leaves a log of which all of this
  holds for the next run.

**Only model-checked.** Liveness (`Terminates`, `TicksAreAnswered`, and
`EveryCallReturns` of `MCOrderBook.cfg`) and all that rests on fairness or ENABLED is
beyond the proof system. Every other property of a passing run is a theorem. The
properties of the runs that expect a violation are shown by their
counterexamples alone. `CommandLine` has no theorem about its types.

## 5. What the models leave out

* No trader class that is shipped both asks for a snapshot and answers the
  clock. `clock` models the protocol `on_market_data_update` is written
  for: one snapshot per tick and counted trader.
* `expected_exchange_agent_count` is taken to be the number of exchanges.
* A snapshot request is one message and one answer; news and fundamentals
  messages have no state.
* `TPlusOne`: one instrument, a price of one, full fills (the candle exchange
  fills in full), a position that starts empty, the flags of
  `MicrostructureConfig` on, candles with a `prev_close`, no fees. The branch
  for odd lots is there, but positions are multiples of a lot.
* `CandleExchange`: the identifiers of orders are distinct (`uuid4`), a loop
  over a set that changes without changing its size goes on with the members
  it had, quantities and notifications carry no data.
* `OrderBook`: prices and quantities are numbers, identifiers distinct;
  volume, turnover and depth are not kept. An order with an identifier that is
  taken, or without a side, a type, or a price where its type needs one, is
  refused before it changes anything.
* `BookExchange`: candles built from trades, indicators, news and
  fundamentals; exceptions in the dispatch (they are caught, the tick is answered, and
  the key of the last trade stays, so that trades would be told again); the confirmations of subscriptions. As in `CandleExchange`, a
  loop over a set that changes without changing its size goes on with the members
  it had.
* `BridgeDecision`: one instrument; the statistics (CVaR, VaR, drawdown,
  similarity) are choices or small inputs; traces are not kept; a month or a week
  is a number of days.
* `DebateGraph`: what models say, prompts, schemas; the parallel execution of
  the tools of one message (the calls overlap in `DataFlow`).
* `Propagate`: the graph is a number of nodes; entries are written whole (an
  append is one write); a database error that `clear_checkpoint` swallows, after which
  the checkpoint stays; `debug` is off, which changes how the state is merged.
* `CommandLine`: layout, statistics of calls, model catalogs, the announcement
  and the version; the questions are answered in one step.
* `DataFlow`: the cache of AkShare is written in one step (the code writes it in place,
  as it does that of Yahoo); reports of Alpha Vantage without a fiscal date; the layout
  of answers, the A-share price lanes and corporate
  actions (`ashare_adapter.py` from line 210), Reddit and StockTwits, symbol
  normalisation; statements and the two kinds of news are one method each.

### Not modelled

Metrics, plots and usage monitoring are numeric statistics over a finished
run; market data clients, indicators and the LOBSTER loader are HTTP, files and
floating point; the ablation script merges YAML and starts the launcher (the
ablations themselves are the configurations of `MCBridge`). The cash, FIFO lots,
shorts and pending orders of the trader base and the signals of the benchmark
traders are not modelled: the bridge uses none of them but the position.

## 6. Plan

Done: the clock and its lock step; the candle exchange; the order book and its
exchange; the T+1 ledger and the decision pipeline above it; the debate graph,
its log and checkpoints; the command line and its clients; vendors and caches;
a proof for every safety property that a run shows.
To come:

1. `TradeCandles`: windows, boundaries and the candle cache of the order book
   exchange.
2. `TraderAccount` (cash, FIFO lots, shorts, realised profit) and
   `PendingOrders` (resubmission races of the SMA, MACD and buy-and-hold
   traders against the candle exchange).
3. The bridge with several instruments, composed with the clock.
