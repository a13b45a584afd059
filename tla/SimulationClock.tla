-------------------------- MODULE SimulationClock --------------------------
(***************************************************************************)
(* The simulation clock of StockSim (simulation/simulation_clock.py), the  *)
(* TIME_TICK half of every agent (agents/agent.py) and the messages that   *)
(* tie them together.                                                      *)
(*                                                                         *)
(* The clock ticks all exchange agents, waits for their BARRIER_RESPONSEs, *)
(* ticks all trader agents, waits for the DECISION_RESPONSEs of the LLM    *)
(* traders, and advances.  Each agent is a process with two RabbitMQ       *)
(* queues, one for time and one for everything else; the consumer of each  *)
(* handles one message at a time, and the two handlers of an agent         *)
(* interleave at every await.  A decision is the end of a chain: tick,     *)
(* MARKET_DATA_SNAPSHOT_REQUEST, snapshot, on_market_data_update.          *)
(*                                                                         *)
(* A queue of responses is a bag of tick ids, a function from ids to       *)
(* counts: the clock looks at nothing else and ignores stale ids.          *)
(***************************************************************************)
EXTENDS Integers, Sequences, FiniteSets

CONSTANTS
  Exchanges,      \* exchange agents, one per instrument
  Traders,        \* trader agents
  Responders,     \* traders the launcher counts in expected_responses
  Requests,       \* [Traders -> SUBSET Exchanges]: whom a trader asks for a
                  \* snapshot when it handles a tick
  NumTicks,       \* ticks between start_time and end_time
  MayFail,        \* can a handler or a decision task raise?
  LateStart       \* can an agent still be unconnected when the clock starts?

ASSUME ExchangesAssumption == IsFiniteSet(Exchanges) /\ Exchanges # {}
ASSUME TradersAssumption ==
  IsFiniteSet(Traders) /\ Traders \cap Exchanges = {} /\ Responders \subseteq Traders
ASSUME RequestsAssumption == Requests \in [Traders -> SUBSET Exchanges]
ASSUME NumTicksAssumption == NumTicks \in Nat
ASSUME FlagsAssumption == MayFail \in BOOLEAN /\ LateStart \in BOOLEAN

VARIABLES
  pc,             \* where run() stands
  tick,           \* _tick_count; current_time is start + tick * interval
  received,       \* received_count / decisions_received of the running wait
  shouldStop,     \* _should_stop
  clockQueue,     \* the clock's RabbitMQ queue: type -> tick id -> count
  responses,      \* barrier_response_queue and trader_response_queue
  bound,          \* agents whose time queue is bound to the time exchange
  timeQueue,      \* time_queue.<agent>
  handling,       \* the tick whose handle_time_tick is running, or NoTick
  currentTick,    \* current_tick_id
  toRequest,      \* snapshots the running handle_time_tick has yet to ask for
  asked,          \* snapshot requests of a trader in an exchange's queue
  answered,       \* snapshots on their way to, or being decided by, a trader
  stopped,        \* agents that handled STOP_SIMULATION
  finished,       \* history: the last tick an exchange reported finished
  decided         \* history: the last tick a trader reported decided

clockVars == <<pc, tick, received, shouldStop>>
traderVars == <<toRequest, asked, answered, decided>>
vars == <<pc, tick, received, shouldStop, clockQueue, responses, bound, timeQueue,
          handling, currentTick, toRequest, asked, answered, stopped, finished, decided>>

-----------------------------------------------------------------------------
Agents == Exchanges \cup Traders
Ticks == 0 .. NumTicks - 1
NoTick == -1                    \* current_tick_id before the first tick
StopSimulation == -2            \* a STOP_SIMULATION message in a time queue
Kinds == {"BARRIER_RESPONSE", "DECISION_RESPONSE"}
Phases == {"head", "barrier", "decisions", "sleep", "shutdown", "done"}
NoResponses == [k \in Kinds |-> [n \in Ticks |-> 0]]

Init ==
  /\ pc = "head" /\ tick = 0 /\ received = 0 /\ shouldStop = FALSE
  /\ clockQueue = NoResponses /\ responses = NoResponses
  /\ bound \in IF LateStart THEN SUBSET Agents ELSE {Agents}
  /\ timeQueue = [a \in Agents |-> <<>>]
  /\ handling = [a \in Agents |-> NoTick]
  /\ currentTick = [a \in Agents |-> NoTick]
  /\ toRequest = [t \in Traders |-> {}]
  /\ asked = [t \in Traders |-> [e \in Exchanges |-> 0]]
  /\ answered = [t \in Traders |-> [e \in Exchanges |-> 0]]
  /\ stopped = [a \in Agents |-> FALSE]
  /\ finished = [e \in Exchanges |-> NoTick]
  /\ decided = [t \in Traders |-> NoTick]

\* What broadcast_time_tick and broadcast_stop_simulation do: the topic
\* exchange copies the message to the queues bound to it and to no other.
Broadcast(msg, group) ==
  timeQueue' = [a \in Agents |-> IF a \in group \cap bound
                                 THEN Append(timeQueue[a], msg) ELSE timeQueue[a]]

-----------------------------------------------------------------------------
(* The clock process. *)

\* Mutant: the tick at end_time is run too.
StartTickAtTheEnd ==
  /\ pc = "head" /\ tick <= NumTicks /\ ~shouldStop
  /\ Broadcast(tick, Exchanges)
  /\ pc' = "barrier" /\ received' = 0
  /\ UNCHANGED <<tick, shouldStop, clockQueue, responses, bound, handling, currentTick,
                 traderVars, stopped, finished>>

\* Mutant: one broadcast for exchanges and traders.
StartTickForAll ==
  /\ pc = "head" /\ tick < NumTicks /\ ~shouldStop
  /\ Broadcast(tick, Agents)
  /\ pc' = "barrier" /\ received' = 0
  /\ UNCHANGED <<tick, shouldStop, clockQueue, responses, bound, handling, currentTick,
                 traderVars, stopped, finished>>

\* Phase 1 of an iteration of run().
StartTick ==
  /\ pc = "head" /\ tick < NumTicks /\ ~shouldStop
  /\ Broadcast(tick, Exchanges)
  /\ pc' = "barrier" /\ received' = 0
  /\ UNCHANGED <<tick, shouldStop, clockQueue, responses, bound, handling, currentTick,
                 traderVars, stopped, finished>>

\* One turn of a wait loop: get() a response; an id other than tick is ignored.
Receive(kind, n) ==
  /\ responses[kind][n] > 0
  /\ responses' = [responses EXCEPT ![kind][n] = @ - 1]
  /\ received' = IF n = tick THEN received + 1 ELSE received
  /\ UNCHANGED <<pc, tick, shouldStop, clockQueue, bound, timeQueue, handling,
                 currentTick, traderVars, stopped, finished>>

WaitForBarrierResponse(n) ==
  pc = "barrier" /\ received < Cardinality(Exchanges) /\ Receive("BARRIER_RESPONSE", n)

\* All exchanges answered: phase 2, tick the traders and start phase 3.
TickTraders ==
  /\ pc = "barrier" /\ received >= Cardinality(Exchanges)
  /\ Broadcast(tick, Traders)
  /\ pc' = "decisions" /\ received' = 0
  /\ UNCHANGED <<tick, shouldStop, clockQueue, responses, bound, handling, currentTick,
                 traderVars, stopped, finished>>

WaitForTraderResponse(n) ==
  pc = "decisions" /\ received < Cardinality(Responders) /\ Receive("DECISION_RESPONSE", n)

DecisionsIn ==
  /\ pc = "decisions" /\ received >= Cardinality(Responders)
  /\ pc' = "sleep"
  /\ UNCHANGED <<tick, received, shouldStop, clockQueue, responses, bound, timeQueue,
                 handling, currentTick, traderVars, stopped, finished>>

Advance ==
  /\ pc = "sleep"
  /\ pc' = "head" /\ tick' = tick + 1
  /\ UNCHANGED <<received, shouldStop, clockQueue, responses, bound, timeQueue,
                 handling, currentTick, traderVars, stopped, finished>>

LeaveLoop ==
  /\ pc = "head" /\ (tick >= NumTicks \/ shouldStop)
  /\ pc' = "shutdown"
  /\ UNCHANGED <<tick, received, shouldStop, clockQueue, responses, bound, timeQueue,
                 handling, currentTick, traderVars, stopped, finished>>

BroadcastStopSimulation ==
  /\ pc = "shutdown"
  /\ Broadcast(StopSimulation, Agents)
  /\ pc' = "done"
  /\ UNCHANGED <<tick, received, shouldStop, clockQueue, responses, bound, handling,
                 currentTick, traderVars, stopped, finished>>

\* _on_message: sort a response into the asyncio queue of its kind.  The
\* consumer runs beside run() until teardown.
OnMessage(kind, n) ==
  /\ pc # "done" /\ clockQueue[kind][n] > 0
  /\ clockQueue' = [clockQueue EXCEPT ![kind][n] = @ - 1]
  /\ responses' = [responses EXCEPT ![kind][n] = @ + 1]
  /\ UNCHANGED <<clockVars, bound, timeQueue, handling, currentTick, traderVars,
                 stopped, finished>>

\* stop() may be called at any time before the end.
Stop ==
  /\ ~shouldStop /\ pc # "done"
  /\ shouldStop' = TRUE
  /\ UNCHANGED <<pc, tick, received, clockQueue, responses, bound, timeQueue, handling,
                 currentTick, traderVars, stopped, finished>>

-----------------------------------------------------------------------------
(* The agents. *)

\* connect() of an agent that initialises more slowly than the launcher's
\* fixed sleeps; what was broadcast before is gone.
Connect(a) ==
  /\ a \notin bound
  /\ bound' = bound \cup {a}
  /\ UNCHANGED <<clockVars, clockQueue, responses, timeQueue, handling, currentTick,
                 traderVars, stopped, finished>>

\* on_message of the time consumer, on the message at the head of its queue.
TakesFromTimeQueue(a) ==
  /\ ~stopped[a] /\ handling[a] = NoTick /\ timeQueue[a] # <<>>
  /\ timeQueue' = [timeQueue EXCEPT ![a] = Tail(@)]

StopAgent(a) ==
  /\ TakesFromTimeQueue(a) /\ Head(timeQueue[a]) = StopSimulation
  /\ stopped' = [stopped EXCEPT ![a] = TRUE]
  /\ UNCHANGED <<clockVars, clockQueue, responses, bound, handling, currentTick,
                 traderVars, finished>>

\* Agent.handle_time_tick: note the time and the tick id.
TakesTick(a) ==
  /\ TakesFromTimeQueue(a) /\ Head(timeQueue[a]) # StopSimulation
  /\ currentTick' = [currentTick EXCEPT ![a] = Head(timeQueue[a])]
  /\ handling' = [handling EXCEPT ![a] = Head(timeQueue[a])]

Publish(kind, n) ==
  clockQueue' = IF n \in Ticks THEN [clockQueue EXCEPT ![kind][n] = @ + 1] ELSE clockQueue

ExchangeTakesTick(e) ==
  /\ TakesTick(e)
  /\ UNCHANGED <<clockVars, clockQueue, responses, bound, traderVars, stopped, finished>>

\* Mutant: a tick without a candle returns before it reports.
ExchangeFinishesTickInSilence(e) ==
  /\ handling[e] # NoTick
  /\ clockQueue' = clockQueue
  /\ finished' = [finished EXCEPT ![e] = handling[e]]
  /\ handling' = [handling EXCEPT ![e] = NoTick]
  /\ UNCHANGED <<clockVars, responses, bound, timeQueue, currentTick, traderVars, stopped>>

\* The handler filled its orders and reports the tick it was called with.
ExchangeFinishesTick(e) ==
  /\ handling[e] # NoTick
  /\ Publish("BARRIER_RESPONSE", handling[e])
  /\ finished' = [finished EXCEPT ![e] = handling[e]]
  /\ handling' = [handling EXCEPT ![e] = NoTick]
  /\ UNCHANGED <<clockVars, responses, bound, timeQueue, currentTick, traderVars, stopped>>

\* Mutant: the report is in a finally, so that a handler that raises reports.
HandlerFailsAndReports(a) ==
  /\ MayFail /\ handling[a] # NoTick
  /\ IF a \in Exchanges THEN Publish("BARRIER_RESPONSE", handling[a]) ELSE clockQueue' = clockQueue
  /\ handling' = [handling EXCEPT ![a] = NoTick]
  /\ UNCHANGED <<clockVars, responses, bound, timeQueue, currentTick, traderVars,
                 stopped, finished>>

\* The handler raises: on_message logs the exception and acknowledges.
HandlerFails(a) ==
  /\ MayFail /\ handling[a] # NoTick
  /\ handling' = [handling EXCEPT ![a] = NoTick]
  /\ UNCHANGED <<clockVars, clockQueue, responses, bound, timeQueue, currentTick,
                 traderVars, stopped, finished>>

TraderTakesTick(t) ==
  /\ TakesTick(t)
  /\ toRequest' = [toRequest EXCEPT ![t] = Requests[t]]
  /\ UNCHANGED <<clockVars, clockQueue, responses, bound, asked, answered, decided,
                 stopped, finished>>

\* _request_market_snapshot inside the trader's handle_time_tick.
RequestSnapshot(t, e) ==
  /\ handling[t] # NoTick /\ e \in toRequest[t]
  /\ toRequest' = [toRequest EXCEPT ![t] = @ \ {e}]
  /\ asked' = [asked EXCEPT ![t][e] = @ + 1]
  /\ UNCHANGED <<clockVars, clockQueue, responses, bound, timeQueue, handling,
                 currentTick, answered, decided, stopped, finished>>

\* Mutant: the trader answers the clock when its tick handler is through.
TraderFinishesTickAndAnswers(t) ==
  /\ handling[t] # NoTick /\ toRequest[t] = {}
  /\ Publish("DECISION_RESPONSE", handling[t])
  /\ handling' = [handling EXCEPT ![t] = NoTick]
  /\ UNCHANGED <<clockVars, responses, bound, timeQueue, currentTick, traderVars,
                 stopped, finished>>

TraderFinishesTick(t) ==
  /\ handling[t] # NoTick /\ toRequest[t] = {}
  /\ handling' = [handling EXCEPT ![t] = NoTick]
  /\ UNCHANGED <<clockVars, clockQueue, responses, bound, timeQueue, currentTick,
                 traderVars, stopped, finished>>

\* Mutant: the request is redelivered after the answer was sent.
AnswerSnapshotTwice(e, t) ==
  /\ ~stopped[e] /\ asked[t][e] > 0
  /\ asked' \in {asked, [asked EXCEPT ![t][e] = @ - 1]}
  /\ answered[t][e] < 2
  /\ answered' = [answered EXCEPT ![t][e] = @ + 1]
  /\ UNCHANGED <<clockVars, clockQueue, responses, bound, timeQueue, handling,
                 currentTick, toRequest, decided, stopped, finished>>

\* _handle_market_data_snapshot_request, on the exchange's other queue.
AnswerSnapshot(e, t) ==
  /\ ~stopped[e] /\ asked[t][e] > 0
  /\ asked' = [asked EXCEPT ![t][e] = @ - 1]
  /\ answered' = [answered EXCEPT ![t][e] = @ + 1]
  /\ UNCHANGED <<clockVars, clockQueue, responses, bound, timeQueue, handling,
                 currentTick, toRequest, decided, stopped, finished>>

\* on_market_data_update ends; the bridge publishes DECISION_RESPONSE with
\* the current_tick_id of that moment, the benchmark traders publish nothing.
FinishDecision(t, e) ==
  /\ ~stopped[t] /\ answered[t][e] > 0
  /\ answered' = [answered EXCEPT ![t][e] = @ - 1]
  /\ IF t \in Responders
     THEN /\ Publish("DECISION_RESPONSE", currentTick[t])
          /\ decided' = [decided EXCEPT ![t] = currentTick[t]]
     ELSE UNCHANGED <<clockQueue, decided>>
  /\ UNCHANGED <<clockVars, responses, bound, timeQueue, handling, currentTick,
                 toRequest, asked, stopped, finished>>

\* The decision task raises before the try block whose finally reports.
DecisionFails(t, e) ==
  /\ MayFail /\ ~stopped[t] /\ answered[t][e] > 0
  /\ answered' = [answered EXCEPT ![t][e] = @ - 1]
  /\ UNCHANGED <<clockVars, clockQueue, responses, bound, timeQueue, handling,
                 currentTick, toRequest, asked, decided, stopped, finished>>

-----------------------------------------------------------------------------
ClockNext ==
  \/ StartTick \/ TickTraders \/ DecisionsIn \/ Advance
  \/ LeaveLoop \/ BroadcastStopSimulation
  \/ \E n \in Ticks : WaitForBarrierResponse(n) \/ WaitForTraderResponse(n)

ExchangeNext(e) == ExchangeTakesTick(e) \/ ExchangeFinishesTick(e)

TraderNext(t) ==
  \/ TraderTakesTick(t) \/ TraderFinishesTick(t)
  \/ \E e \in Exchanges : RequestSnapshot(t, e)

Next ==
  \/ ClockNext
  \/ \E k \in Kinds, n \in Ticks : OnMessage(k, n)
  \/ Stop
  \/ \E a \in Agents : Connect(a) \/ StopAgent(a) \/ HandlerFails(a)
  \/ \E e \in Exchanges : ExchangeNext(e)
  \/ \E t \in Traders : TraderNext(t)
  \/ \E t \in Traders, e \in Exchanges :
        AnswerSnapshot(e, t) \/ FinishDecision(t, e) \/ DecisionFails(t, e)

\* Every event loop keeps running its ready tasks and RabbitMQ delivers:
\* weak fairness per process and per task.  Nobody has to call stop(), to
\* fail, or to connect late.
Fairness ==
  /\ WF_vars(ClockNext)
  /\ \A k \in Kinds, n \in Ticks : WF_vars(OnMessage(k, n))
  /\ \A a \in Agents : WF_vars(StopAgent(a))
  /\ \A e \in Exchanges : WF_vars(ExchangeNext(e))
  /\ \A t \in Traders : WF_vars(TraderNext(t))
  /\ \A t \in Traders, e \in Exchanges :
        WF_vars(AnswerSnapshot(e, t)) /\ WF_vars(FinishDecision(t, e))

Spec == Init /\ [][Next]_vars
FairSpec == Spec /\ Fairness

-----------------------------------------------------------------------------
\* Every variable keeps its type; in particular no response is taken from an
\* empty queue and no wait loop counts past what it waits for.
TypeOK ==
  /\ pc \in Phases /\ tick \in 0 .. NumTicks /\ shouldStop \in BOOLEAN
  /\ received \in 0 .. Cardinality(Agents)
  /\ clockQueue \in [Kinds -> [Ticks -> Nat]]
  /\ responses \in [Kinds -> [Ticks -> Nat]]
  /\ bound \subseteq Agents
  /\ timeQueue \in [Agents -> Seq(Ticks \cup {StopSimulation})]
  /\ handling \in [Agents -> Ticks \cup {NoTick}]
  /\ currentTick \in [Agents -> Ticks \cup {NoTick}]
  /\ toRequest \in [Traders -> SUBSET Exchanges]
  /\ asked \in [Traders -> [Exchanges -> Nat]]
  /\ answered \in [Traders -> [Exchanges -> Nat]]
  /\ stopped \in [Agents -> BOOLEAN]
  /\ finished \in [Exchanges -> Ticks \cup {NoTick}]
  /\ decided \in [Traders -> Ticks \cup {NoTick}]

\* The two-phase barrier (_wait_for_barrier_responses before the traders are
\* ticked): a trader that has seen tick n acts on a market in which every
\* exchange has finished tick n, whatever is lost, late or failing.
ExchangesBeforeTraders ==
  \A t \in Traders, e \in Exchanges : currentTick[t] <= finished[e]

\* The third wait (_wait_for_trader_responses): no exchange starts on tick
\* n + 1 before each counted trader has decided tick n, so that an order of
\* tick n is in the exchange's queue when it fills tick n + 1.
DecisionsBeforeNextTick ==
  \A e \in Exchanges, t \in Responders :
     currentTick[e] <= decided[t] + 1

\* When the clock leaves a tick no counted trader still waits for a snapshot
\* or thinks about one: nothing of tick n is decided with the data or under
\* the id of tick n + 1, and nothing is cut off by STOP_SIMULATION.
NoDecisionOutstanding ==
  pc \in {"sleep", "head", "barrier", "shutdown"} =>
    \A t \in Responders : toRequest[t] = {} /\
      \A e \in Exchanges : asked[t][e] = 0 /\ answered[t][e] = 0

\* No agent that was there from the start is ticked twice for one tick, out
\* of order, or with a gap.
TicksInOrder ==
  [][\A a \in Agents : currentTick'[a] # currentTick[a] =>
        currentTick'[a] = currentTick[a] + 1]_vars

\* The simulation ends and every agent process with it.
Terminates == <>(pc = "done" /\ \A a \in Agents : stopped[a])

\* The clock implements the lock step it is there for: the messages, the
\* queues and the two wait loops add nothing an agent could tell apart from it.
LockStep == INSTANCE TickLockStep WITH
  now <- tick, worked <- finished, over <- pc \in {"shutdown", "done"},
  decided <- [t \in Responders |-> decided[t]]
ImplementsLockStep == LockStep!Spec

\* What run() says of its loop: it goes on until the end time or a stop
\* signal, that is, it reaches one of the two.
LoopReachesTheEnd == <>(tick >= NumTicks \/ shouldStop)
=============================================================================
