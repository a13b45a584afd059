----------------------- MODULE SimulationClock_proofs -----------------------
(***************************************************************************)
(* The barrier of the simulation clock for any number of exchanges,        *)
(* traders and ticks, with failing handlers and late agents: the types,    *)
(* and that no trader acts in a tick an exchange has not finished.  Under  *)
(* OneSnapshot also the other direction, that no exchange starts a tick    *)
(* before the last is decided, and the refinement of TickLockStep.         *)
(***************************************************************************)
EXTENDS SimulationClock, FiniteSetTheorems, TLAPS

InTick == {"barrier", "decisions", "sleep"}

\* The exchanges that have reported the tick the clock is in.
Done == {e \in Exchanges : finished[e] = tick}

\* The newest tick that has been broadcast to the traders.
Horizon == IF pc \in {"decisions", "sleep"} THEN tick ELSE tick - 1

\* An exchange has finished this tick or just the one before; while it has
\* not, the clock is at the barrier, and the tick is in the exchange's queue
\* at most once and not there while it is being handled.
ExchangeInv(e) ==
  /\ finished[e] \in {tick - 1, tick}
  /\ pc \in {"head", "shutdown", "done"} => finished[e] = tick - 1
  /\ pc \in {"decisions", "sleep"} => finished[e] = tick
  /\ handling[e] # NoTick =>
       /\ pc = "barrier" /\ handling[e] = tick /\ finished[e] = tick - 1
       /\ timeQueue[e] = <<>>
  /\ \/ timeQueue[e] = <<>>
     \/ timeQueue[e] = <<tick>> /\ pc = "barrier" /\ finished[e] = tick - 1
     \/ timeQueue[e] = <<StopSimulation>> /\ pc = "done"

\* A response for the running tick is either counted or still on its way,
\* and there are none for a tick that has not begun.
CountInv ==
  /\ pc = "barrier" =>
       received + clockQueue["BARRIER_RESPONSE"][tick]
                + responses["BARRIER_RESPONSE"][tick] = Cardinality(Done)
  /\ \A n \in Ticks : n > tick \/ (n = tick /\ pc = "head") =>
       /\ clockQueue["BARRIER_RESPONSE"][n] = 0
       /\ responses["BARRIER_RESPONSE"][n] = 0

TraderInv(t) ==
  /\ currentTick[t] <= Horizon
  /\ \A i \in 1 .. Len(timeQueue[t]) : timeQueue[t][i] <= Horizon

IInv ==
  /\ TypeOK
  /\ pc \in InTick => tick < NumTicks
  /\ \A e \in Exchanges : ExchangeInv(e)
  /\ CountInv
  /\ \A t \in Traders : TraderInv(t)

-----------------------------------------------------------------------------
LEMMA Sizes ==
  /\ IsFiniteSet(Agents)
  /\ Cardinality(Exchanges) \in Nat /\ Cardinality(Exchanges) <= Cardinality(Agents)
  /\ Cardinality(Responders) \in Nat /\ Cardinality(Responders) <= Cardinality(Agents)
  /\ Cardinality(Agents) \in Nat
<1>1. IsFiniteSet(Agents)
  BY FS_Union, ExchangesAssumption, TradersAssumption DEF Agents
<1>2. Exchanges \subseteq Agents /\ Responders \subseteq Agents
  BY TradersAssumption DEF Agents
<1> QED BY <1>1, <1>2, FS_Subset, FS_CardinalityType

LEMMA InitIInv == Init => IInv
<1> SUFFICES ASSUME Init PROVE IInv OBVIOUS
<1> USE DEF Init, NoResponses, Ticks, Kinds, Phases, NoTick, StopSimulation
<1>1. TypeOK
  <2>1. bound \subseteq Agents BY DEF Agents
  <2>2. timeQueue \in [Agents -> Seq(Ticks \cup {StopSimulation})] BY DEF Agents
  <2>3. tick \in 0 .. NumTicks /\ received \in 0 .. Cardinality(Agents)
    BY Sizes, NumTicksAssumption
  <2> QED BY <2>1, <2>2, <2>3 DEF TypeOK, Agents
<1>2. pc \in InTick => tick < NumTicks BY DEF InTick
<1>3. \A e \in Exchanges : ExchangeInv(e) BY DEF ExchangeInv, Agents
<1>4. CountInv BY DEF CountInv
<1>5. \A t \in Traders : TraderInv(t) BY DEF TraderInv, Horizon, Agents
<1> QED BY <1>1, <1>2, <1>3, <1>4, <1>5 DEF IInv

\* Counting one up or down in a bag keeps it a bag.
LEMMA BagUpdate ==
  ASSUME NEW K, NEW N, NEW q \in [K -> [N -> Nat]], NEW k \in K, NEW n \in N, NEW v \in Nat
  PROVE  [q EXCEPT ![k][n] = v] \in [K -> [N -> Nat]]
OBVIOUS

LEMMA BroadcastType ==
  ASSUME timeQueue \in [Agents -> Seq(Ticks \cup {StopSimulation})], NEW group,
         NEW msg \in Ticks \cup {StopSimulation}, Broadcast(msg, group)
  PROVE  timeQueue' \in [Agents -> Seq(Ticks \cup {StopSimulation})]
BY DEF Broadcast

LEMMA TakeType ==
  ASSUME timeQueue \in [Agents -> Seq(Ticks \cup {StopSimulation})], NEW a \in Agents,
         TakesFromTimeQueue(a)
  PROVE  /\ timeQueue' \in [Agents -> Seq(Ticks \cup {StopSimulation})]
         /\ Head(timeQueue[a]) \in Ticks \cup {StopSimulation}
<1>1. timeQueue[a] \in Seq(Ticks \cup {StopSimulation}) /\ timeQueue[a] # <<>>
  BY DEF TakesFromTimeQueue
<1>2. Tail(timeQueue[a]) \in Seq(Ticks \cup {StopSimulation})
  BY <1>1
<1> QED BY <1>1, <1>2 DEF TakesFromTimeQueue

LEMMA PublishType ==
  ASSUME clockQueue \in [Kinds -> [Ticks -> Nat]], NEW k \in Kinds, NEW n, Publish(k, n)
  PROVE  clockQueue' \in [Kinds -> [Ticks -> Nat]]
<1>1. CASE n \in Ticks
  <2>1. clockQueue[k][n] + 1 \in Nat BY <1>1
  <2> QED BY <1>1, <2>1, BagUpdate DEF Publish
<1>2. CASE n \notin Ticks BY <1>2 DEF Publish
<1> QED BY <1>1, <1>2

LEMMA ReceiveType ==
  ASSUME TypeOK, NEW k \in Kinds, NEW n \in Ticks, Receive(k, n)
  PROVE  responses' \in [Kinds -> [Ticks -> Nat]] /\ received' \in {received, received + 1}
<1>1. responses[k][n] - 1 \in Nat BY DEF TypeOK, Receive
<1> QED BY <1>1, BagUpdate DEF TypeOK, Receive

LEMMA StepTypeOK == IInv /\ [Next]_vars => TypeOK'
<1> SUFFICES ASSUME TypeOK, pc \in InTick => tick < NumTicks, [Next]_vars PROVE TypeOK'
  BY DEF IInv
<1> USE DEF TypeOK, clockVars, traderVars
<1>a. CASE UNCHANGED vars BY <1>a DEF vars
<1>1. CASE StartTick
  <2>1. tick \in Ticks BY <1>1, NumTicksAssumption DEF StartTick, Ticks
  <2>2. timeQueue' \in [Agents -> Seq(Ticks \cup {StopSimulation})]
    BY <1>1, <2>1, BroadcastType DEF StartTick
  <2> QED BY <1>1, <2>2, Sizes DEF StartTick, Phases
<1>2. CASE TickTraders
  <2>1. tick \in Ticks BY <1>2, NumTicksAssumption DEF TickTraders, Ticks, InTick
  <2>2. timeQueue' \in [Agents -> Seq(Ticks \cup {StopSimulation})]
    BY <1>2, <2>1, BroadcastType DEF TickTraders
  <2> QED BY <1>2, <2>2, Sizes DEF TickTraders, Phases
<1>3. CASE DecisionsIn BY <1>3 DEF DecisionsIn, Phases
<1>4. CASE Advance
  <2>1. tick' \in 0 .. NumTicks BY <1>4, NumTicksAssumption DEF Advance, InTick
  <2> QED BY <1>4, <2>1 DEF Advance, Phases
<1>5. CASE LeaveLoop BY <1>5 DEF LeaveLoop, Phases
<1>6. CASE BroadcastStopSimulation
  <2>1. timeQueue' \in [Agents -> Seq(Ticks \cup {StopSimulation})]
    BY <1>6, BroadcastType DEF BroadcastStopSimulation
  <2> QED BY <1>6, <2>1 DEF BroadcastStopSimulation, Phases
<1>7. ASSUME NEW n \in Ticks, WaitForBarrierResponse(n) PROVE TypeOK'
  <2>1. Receive("BARRIER_RESPONSE", n) /\ received < Cardinality(Exchanges)
    BY <1>7 DEF WaitForBarrierResponse
  <2>2. responses' \in [Kinds -> [Ticks -> Nat]] /\ received' \in {received, received + 1}
    BY <2>1, ReceiveType DEF Kinds
  <2>3. received' \in 0 .. Cardinality(Agents) BY <2>1, <2>2, Sizes
  <2> QED BY <2>1, <2>2, <2>3 DEF Receive
<1>8. ASSUME NEW n \in Ticks, WaitForTraderResponse(n) PROVE TypeOK'
  <2>1. Receive("DECISION_RESPONSE", n) /\ received < Cardinality(Responders)
    BY <1>8 DEF WaitForTraderResponse
  <2>2. responses' \in [Kinds -> [Ticks -> Nat]] /\ received' \in {received, received + 1}
    BY <2>1, ReceiveType DEF Kinds
  <2>3. received' \in 0 .. Cardinality(Agents) BY <2>1, <2>2, Sizes
  <2> QED BY <2>1, <2>2, <2>3 DEF Receive
<1>9. ASSUME NEW k \in Kinds, NEW n \in Ticks, OnMessage(k, n) PROVE TypeOK'
  <2>1. clockQueue[k][n] - 1 \in Nat /\ responses[k][n] + 1 \in Nat
    BY <1>9 DEF OnMessage
  <2>2. /\ clockQueue' \in [Kinds -> [Ticks -> Nat]]
        /\ responses' \in [Kinds -> [Ticks -> Nat]]
    BY <1>9, <2>1, BagUpdate DEF OnMessage
  <2> QED BY <1>9, <2>2 DEF OnMessage
<1>10. CASE Stop BY <1>10 DEF Stop
<1>11. ASSUME NEW a \in Agents, Connect(a) PROVE TypeOK' BY <1>11 DEF Connect
<1>12. ASSUME NEW a \in Agents, StopAgent(a) PROVE TypeOK'
  BY <1>12, TakeType DEF StopAgent
<1>13. ASSUME NEW a \in Agents, HandlerFails(a) PROVE TypeOK'
  BY <1>13 DEF HandlerFails
<1>14. ASSUME NEW a \in Agents, TakesTick(a)
       PROVE  /\ timeQueue' \in [Agents -> Seq(Ticks \cup {StopSimulation})]
              /\ currentTick' \in [Agents -> Ticks \cup {NoTick}]
              /\ handling' \in [Agents -> Ticks \cup {NoTick}]
  BY <1>14, TakeType DEF TakesTick
<1>15. ASSUME NEW e \in Exchanges, ExchangeTakesTick(e) PROVE TypeOK'
  BY <1>14, <1>15 DEF ExchangeTakesTick, Agents
<1>16. ASSUME NEW e \in Exchanges, ExchangeFinishesTick(e) PROVE TypeOK'
  <2>1. clockQueue' \in [Kinds -> [Ticks -> Nat]]
    BY <1>16, PublishType DEF ExchangeFinishesTick, Kinds
  <2>2. handling[e] \in Ticks BY <1>16 DEF ExchangeFinishesTick, Agents
  <2> QED BY <1>16, <2>1, <2>2 DEF ExchangeFinishesTick
<1>17. ASSUME NEW t \in Traders, TraderTakesTick(t) PROVE TypeOK'
  BY <1>14, <1>17, RequestsAssumption DEF TraderTakesTick, Agents
<1>18. ASSUME NEW t \in Traders, TraderFinishesTick(t) PROVE TypeOK'
  BY <1>18 DEF TraderFinishesTick
<1>19. ASSUME NEW t \in Traders, NEW e \in Exchanges, RequestSnapshot(t, e) PROVE TypeOK'
  <2>1. asked' \in [Traders -> [Exchanges -> Nat]]
    BY <1>19, BagUpdate DEF RequestSnapshot
  <2>2. toRequest' \in [Traders -> SUBSET Exchanges] BY <1>19 DEF RequestSnapshot
  <2> QED BY <1>19, <2>1, <2>2 DEF RequestSnapshot
<1>20. ASSUME NEW e \in Exchanges, NEW t \in Traders, AnswerSnapshot(e, t) PROVE TypeOK'
  <2>1. asked[t][e] - 1 \in Nat /\ answered[t][e] + 1 \in Nat
    BY <1>20 DEF AnswerSnapshot
  <2>2. /\ asked' \in [Traders -> [Exchanges -> Nat]]
        /\ answered' \in [Traders -> [Exchanges -> Nat]]
    BY <1>20, <2>1, BagUpdate DEF AnswerSnapshot
  <2> QED BY <1>20, <2>2 DEF AnswerSnapshot
<1>21. ASSUME NEW t \in Traders, NEW e \in Exchanges, answered[t][e] > 0,
              answered' = [answered EXCEPT ![t][e] = @ - 1]
       PROVE  answered' \in [Traders -> [Exchanges -> Nat]]
  <2>1. answered[t][e] - 1 \in Nat BY <1>21
  <2> QED BY <1>21, <2>1, BagUpdate
<1>22. ASSUME NEW t \in Traders, NEW e \in Exchanges, FinishDecision(t, e) PROVE TypeOK'
  <2>1. answered' \in [Traders -> [Exchanges -> Nat]] BY <1>21, <1>22 DEF FinishDecision
  <2>2. clockQueue' \in [Kinds -> [Ticks -> Nat]] /\ decided' \in [Traders -> Ticks \cup {NoTick}]
    <3>1. CASE t \in Responders BY ZenonT(60), <1>22, <3>1, PublishType DEF FinishDecision, Kinds, Agents
    <3>2. CASE t \notin Responders BY <1>22, <3>2 DEF FinishDecision
    <3> QED BY <3>1, <3>2
  <2> QED BY <1>22, <2>1, <2>2 DEF FinishDecision
<1>23. ASSUME NEW t \in Traders, NEW e \in Exchanges, DecisionFails(t, e) PROVE TypeOK'
  BY <1>21, <1>23 DEF DecisionFails
<1> QED
  BY <1>a, <1>1, <1>2, <1>3, <1>4, <1>5, <1>6, <1>7, <1>8, <1>9, <1>10, <1>11, <1>12,
     <1>13, <1>15, <1>16, <1>17, <1>18, <1>19, <1>20, <1>22, <1>23
  DEF Next, ClockNext, ExchangeNext, TraderNext

-----------------------------------------------------------------------------
\* What a message sent or taken does to the queue of one agent.
LEMMA BroadcastQueue ==
  ASSUME TypeOK, NEW msg, NEW group, Broadcast(msg, group), NEW a \in Agents
  PROVE  timeQueue'[a] = timeQueue[a] \/ (a \in group /\ timeQueue'[a] = Append(timeQueue[a], msg))
BY DEF Broadcast

LEMMA StepInTick == IInv /\ [Next]_vars => (pc \in InTick => tick < NumTicks)'
<1> SUFFICES ASSUME IInv, [Next]_vars, pc' \in InTick PROVE tick' < NumTicks
  OBVIOUS
<1>1. CASE StartTick BY <1>1 DEF StartTick
<1>2. CASE ~StartTick
  <2>1. pc \in InTick /\ tick' = tick
    BY <1>2 DEF InTick, Next, vars, clockVars, ClockNext, TickTraders, DecisionsIn, Advance,
       LeaveLoop, BroadcastStopSimulation, WaitForBarrierResponse, WaitForTraderResponse,
       Receive, OnMessage, Stop, Connect, StopAgent, HandlerFails, ExchangeNext,
       ExchangeTakesTick, ExchangeFinishesTick, TraderNext, TraderTakesTick,
       TraderFinishesTick, RequestSnapshot, AnswerSnapshot, FinishDecision, DecisionFails
  <2> QED BY <2>1 DEF IInv
<1> QED BY <1>1, <1>2

LEMMA StepExchangeInv ==
  ASSUME IInv, [Next]_vars, NEW x \in Exchanges
  PROVE  ExchangeInv(x)'
<1>0. /\ TypeOK /\ ExchangeInv(x) /\ CountInv
      /\ pc \in InTick => tick < NumTicks
      /\ x \in Agents /\ x \notin Traders
  BY TradersAssumption DEF IInv, Agents
<1> USE <1>0 DEF ExchangeInv, NoTick, StopSimulation
<1>a. CASE UNCHANGED <<pc, tick, timeQueue, handling, finished>>
  BY <1>a
<1>1. CASE StartTick
  <2>1. timeQueue[x] = <<>> /\ handling[x] = NoTick /\ finished[x] = tick - 1
    BY <1>1 DEF StartTick
  <2>2. timeQueue'[x] \in {<<>>, Append(<<>>, tick)}
    BY <1>1, <2>1, BroadcastQueue DEF StartTick
  <2> QED BY <1>1, <2>1, <2>2 DEF StartTick
<1>2. CASE TickTraders
  <2>1. timeQueue'[x] = timeQueue[x] BY <1>2, BroadcastQueue DEF TickTraders
  <2>2. finished[x] = tick
    <3>1. IsFiniteSet(Exchanges) /\ Done \subseteq Exchanges /\ Cardinality(Done) \in Nat
      BY ExchangesAssumption, FS_Subset, FS_CardinalityType DEF Done
    <3>2. tick \in Ticks BY <1>2, NumTicksAssumption DEF TickTraders, Ticks, InTick, TypeOK
    <3>3. /\ clockQueue["BARRIER_RESPONSE"][tick] \in Nat
          /\ responses["BARRIER_RESPONSE"][tick] \in Nat
      BY <3>2 DEF TypeOK, Kinds
    <3>4. Cardinality(Done) >= Cardinality(Exchanges)
      <4>1. received >= Cardinality(Exchanges) /\ pc = "barrier" BY <1>2 DEF TickTraders
      <4>2. received + clockQueue["BARRIER_RESPONSE"][tick]
              + responses["BARRIER_RESPONSE"][tick] = Cardinality(Done)
        BY <4>1 DEF CountInv
      <4>3. Cardinality(Exchanges) \in Nat /\ received \in Nat BY Sizes DEF TypeOK
      <4> QED BY ONLY <3>1, <3>3, <4>1, <4>2, <4>3
    <3>5. Done = Exchanges BY <3>1, <3>4, FS_Subset, Sizes
    <3> QED BY <3>5 DEF Done
  <2> QED BY <1>2, <2>1, <2>2 DEF TickTraders, TypeOK
<1>3. CASE DecisionsIn BY <1>3 DEF DecisionsIn
<1>4. CASE Advance BY <1>4 DEF Advance, TypeOK
<1>5. CASE LeaveLoop BY <1>5 DEF LeaveLoop
<1>6. CASE BroadcastStopSimulation
  <2>1. timeQueue[x] = <<>> BY <1>6 DEF BroadcastStopSimulation
  <2>2. timeQueue'[x] \in {<<>>, Append(<<>>, StopSimulation)}
    BY ZenonT(60), <1>6, <2>1, BroadcastQueue DEF BroadcastStopSimulation
  <2> QED BY <1>6, <2>1, <2>2 DEF BroadcastStopSimulation
<1>7. ASSUME NEW a \in Agents, StopAgent(a) PROVE ExchangeInv(x)'
  <2>1. CASE a = x
    <3>1. timeQueue[x] = <<StopSimulation>> BY <1>7, <2>1 DEF StopAgent, TakesFromTimeQueue, TypeOK
    <3>2. timeQueue'[x] = <<>> BY <1>7, <2>1, <3>1 DEF StopAgent, TakesFromTimeQueue, TypeOK
    <3> QED BY <1>7, <3>1, <3>2 DEF StopAgent, clockVars
  <2>2. CASE a # x BY <1>7, <2>2 DEF StopAgent, TakesFromTimeQueue, TypeOK, clockVars
  <2> QED BY <2>1, <2>2
<1>8. ASSUME NEW a \in Agents, HandlerFails(a) PROVE ExchangeInv(x)'
  BY <1>8 DEF HandlerFails, TypeOK, clockVars
<1>9. ASSUME NEW e \in Exchanges, ExchangeTakesTick(e) PROVE ExchangeInv(x)'
  <2>1. CASE e = x
    <3>1. timeQueue[x] = <<tick>> /\ pc = "barrier" /\ finished[x] = tick - 1
      BY <1>9, <2>1 DEF ExchangeTakesTick, TakesTick, TakesFromTimeQueue
    <3>2. timeQueue'[x] = <<>> /\ handling'[x] = tick
      BY <1>9, <2>1, <3>1 DEF ExchangeTakesTick, TakesTick, TakesFromTimeQueue, TypeOK
    <3> QED BY <1>9, <3>1, <3>2 DEF ExchangeTakesTick, clockVars
  <2>2. CASE e # x
    BY <1>9, <2>2 DEF ExchangeTakesTick, TakesTick, TakesFromTimeQueue, TypeOK, clockVars
  <2> QED BY <2>1, <2>2
<1>10. ASSUME NEW e \in Exchanges, ExchangeFinishesTick(e) PROVE ExchangeInv(x)'
  BY <1>10 DEF ExchangeFinishesTick, TypeOK, clockVars
<1>11. ASSUME NEW t \in Traders, TraderTakesTick(t) PROVE ExchangeInv(x)'
  BY <1>11 DEF TraderTakesTick, TakesTick, TakesFromTimeQueue, TypeOK, clockVars
<1>12. ASSUME NEW t \in Traders, TraderFinishesTick(t) PROVE ExchangeInv(x)'
  BY <1>12 DEF TraderFinishesTick, TypeOK, clockVars
<1> QED
  BY <1>a, <1>1, <1>2, <1>3, <1>4, <1>5, <1>6, <1>7, <1>8, <1>9, <1>10, <1>11, <1>12
  DEF Next, vars, clockVars, ClockNext, ExchangeNext, TraderNext, WaitForBarrierResponse,
      WaitForTraderResponse, Receive, OnMessage, Stop, Connect, RequestSnapshot,
      AnswerSnapshot, FinishDecision, DecisionFails

LEMMA StepTraderInv ==
  ASSUME IInv, [Next]_vars, NEW x \in Traders
  PROVE  TraderInv(x)'
<1>0. /\ TypeOK /\ TraderInv(x) /\ x \in Agents /\ x \notin Exchanges /\ tick \in Nat
      /\ timeQueue[x] \in Seq(Int)
  <2>1. \A S, T : S \subseteq T => Seq(S) \subseteq Seq(T) OBVIOUS
  <2>2. Ticks \cup {StopSimulation} \subseteq Int BY NumTicksAssumption DEF Ticks, StopSimulation
  <2>3. timeQueue[x] \in Seq(Ticks \cup {StopSimulation}) BY DEF IInv, TypeOK, Agents
  <2> QED BY <2>1, <2>2, <2>3, NumTicksAssumption, TradersAssumption DEF IInv, Agents, TypeOK
<1> USE <1>0 DEF TraderInv, Horizon
<1>a. CASE UNCHANGED <<pc, tick, timeQueue, currentTick>>
  BY <1>a
\* A message appended to the queue is no newer than the horizon it leads to.
<1>b. ASSUME NEW msg \in Int, NEW group, Broadcast(msg, group), msg <= Horizon',
             Horizon <= Horizon', tick' \in Nat, currentTick' = currentTick
      PROVE  TraderInv(x)'
  <2>0. currentTick[x] \in Int /\ \A i \in 1 .. Len(timeQueue[x]) : timeQueue[x][i] \in Int
    BY NumTicksAssumption DEF TypeOK, Ticks, NoTick
  <2>1. CASE timeQueue'[x] = timeQueue[x]
    <3>1. Horizon \in Int /\ Horizon' \in Int BY <1>b
    <3> HIDE DEF Horizon
    <3> QED BY <1>b, <2>0, <2>1, <3>1
  <2>2. CASE timeQueue'[x] = Append(timeQueue[x], msg)
    <3>1. \A i \in 1 .. Len(timeQueue'[x]) :
            \/ timeQueue'[x][i] = msg
            \/ i \in 1 .. Len(timeQueue[x]) /\ timeQueue'[x][i] = timeQueue[x][i]
      BY <2>2
    <3>2. Horizon \in Int /\ Horizon' \in Int BY <1>b
    <3>3. \A i \in 1 .. Len(timeQueue[x]) : timeQueue[x][i] <= Horizon'
      <4> HIDE DEF Horizon
      <4> QED BY <1>b, <2>0, <3>2
    <3>4. currentTick'[x] <= Horizon'
      <4> HIDE DEF Horizon
      <4> QED BY <1>b, <2>0, <3>2
    <3> QED BY <1>b, <3>1, <3>3, <3>4
  <2> QED BY <1>b, <2>1, <2>2, BroadcastQueue
<1>1. CASE StartTick
  <2>1. x \notin Exchanges /\ timeQueue'[x] = timeQueue[x] BY <1>1, BroadcastQueue DEF StartTick
  <2> QED BY <1>1, <2>1 DEF StartTick
<1>2. CASE TickTraders BY <1>b, <1>2 DEF TickTraders
<1>3. CASE DecisionsIn BY <1>3 DEF DecisionsIn
<1>4. CASE Advance BY <1>4 DEF Advance
<1>5. CASE LeaveLoop BY <1>5 DEF LeaveLoop
<1>6. CASE BroadcastStopSimulation
  BY <1>b, <1>6 DEF BroadcastStopSimulation, StopSimulation
<1>7. ASSUME NEW a \in Agents, TakesFromTimeQueue(a), UNCHANGED <<pc, tick>>,
             currentTick' \in {currentTick, [currentTick EXCEPT ![a] = Head(timeQueue[a])]}
      PROVE  TraderInv(x)'
  <2>1. CASE a # x BY <1>7, <2>1 DEF TakesFromTimeQueue, TypeOK
  <2>2. CASE a = x
    <3>1. timeQueue[x] # <<>> /\ timeQueue'[x] = Tail(timeQueue[x])
      BY <1>7, <2>2 DEF TakesFromTimeQueue, TypeOK
    <3>2. Head(timeQueue[x]) <= Horizon BY <3>1
    <3>3. \A i \in 1 .. Len(timeQueue'[x]) : timeQueue'[x][i] = timeQueue[x][i + 1]
            /\ i + 1 \in 1 .. Len(timeQueue[x])
      BY <3>1
    <3>4. currentTick'[x] <= Horizon BY <1>7, <2>2, <3>2 DEF TypeOK
    <3> QED BY <1>7, <3>3, <3>4
  <2> QED BY <2>1, <2>2
<1>8. ASSUME NEW a \in Agents, StopAgent(a) PROVE TraderInv(x)'
  BY <1>7, <1>8 DEF StopAgent, clockVars
<1>9. ASSUME NEW e \in Exchanges, ExchangeTakesTick(e) PROVE TraderInv(x)'
  BY <1>7, <1>9 DEF ExchangeTakesTick, TakesTick, clockVars, Agents
<1>10. ASSUME NEW t \in Traders, TraderTakesTick(t) PROVE TraderInv(x)'
  BY <1>7, <1>10 DEF TraderTakesTick, TakesTick, clockVars, Agents
<1> QED
  BY <1>a, <1>1, <1>2, <1>3, <1>4, <1>5, <1>6, <1>8, <1>9, <1>10
  DEF Next, vars, clockVars, ClockNext, ExchangeNext, TraderNext, WaitForBarrierResponse,
      WaitForTraderResponse, Receive, OnMessage, Stop, Connect, HandlerFails,
      ExchangeFinishesTick, TraderFinishesTick, RequestSnapshot, AnswerSnapshot,
      FinishDecision, DecisionFails

LEMMA StepCountInv == IInv /\ [Next]_vars => CountInv'
<1> SUFFICES ASSUME IInv, [Next]_vars PROVE CountInv'
  OBVIOUS
<1> DEFINE B == "BARRIER_RESPONSE"
<1>0. /\ TypeOK /\ CountInv /\ \A e \in Exchanges : ExchangeInv(e)
      /\ pc \in InTick => tick < NumTicks
      /\ tick \in Nat /\ received \in Nat
      /\ \A n \in Ticks : n \in Nat /\ clockQueue[B][n] \in Nat /\ responses[B][n] \in Nat
      /\ pc \in InTick => tick \in Ticks
  <2>1. TypeOK /\ tick \in Nat /\ received \in Nat BY NumTicksAssumption, Sizes DEF IInv, TypeOK
  <2>2. \A n \in Ticks : clockQueue[B][n] \in Nat /\ responses[B][n] \in Nat
    BY <2>1 DEF TypeOK, Kinds
  <2> QED BY <2>1, <2>2, NumTicksAssumption DEF IInv, Ticks
<1> USE <1>0 DEF CountInv, InTick
<1>a. CASE UNCHANGED <<pc, tick, received, clockQueue, responses, finished>>
  BY <1>a DEF Done
<1>1. CASE StartTick
  <2>1. tick \in Ticks BY <1>1, NumTicksAssumption DEF StartTick, Ticks
  <2>2. \A e \in Exchanges : finished[e] = tick - 1 BY <1>1 DEF StartTick, ExchangeInv
  <2>3. Done' = {} BY <1>1, <2>2 DEF StartTick, Done
  <2> QED BY <1>1, <2>1, <2>3, FS_EmptySet DEF StartTick
<1>2. CASE TickTraders BY <1>2 DEF TickTraders
<1>3. CASE DecisionsIn BY <1>3 DEF DecisionsIn
<1>4. CASE Advance BY <1>4 DEF Advance
<1>5. CASE LeaveLoop BY <1>5 DEF LeaveLoop
<1>6. CASE BroadcastStopSimulation BY <1>6 DEF BroadcastStopSimulation
<1>7. ASSUME NEW n \in Ticks, WaitForBarrierResponse(n) PROVE CountInv'
  <2>1. /\ responses' = [responses EXCEPT ![B][n] = responses[B][n] - 1] /\ responses[B][n] > 0
        /\ received' = IF n = tick THEN received + 1 ELSE received
        /\ pc = "barrier" /\ UNCHANGED <<pc, tick, clockQueue, finished>>
    BY <1>7 DEF WaitForBarrierResponse, Receive
  <2>2. \A m \in Ticks : responses'[B][m] = IF m = n THEN responses[B][n] - 1 ELSE responses[B][m]
    BY <2>1 DEF TypeOK, Kinds
  <2>3. Done' = Done BY <2>1 DEF Done
  <2> QED BY <2>1, <2>2, <2>3
<1>8. ASSUME NEW n \in Ticks, WaitForTraderResponse(n) PROVE CountInv'
  <2>1. pc = "decisions" /\ UNCHANGED <<pc, tick, clockQueue>> /\ responses'[B] = responses[B]
    BY <1>8 DEF WaitForTraderResponse, Receive, TypeOK, Kinds
  <2> QED BY <2>1
<1>9. ASSUME NEW k \in Kinds, NEW n \in Ticks, OnMessage(k, n) PROVE CountInv'
  <2>1. UNCHANGED <<pc, tick, received, finished>> /\ Done' = Done /\ clockQueue[k][n] > 0
    BY <1>9 DEF OnMessage, clockVars, Done
  <2>2. CASE k # B
    <3>1. clockQueue'[B] = clockQueue[B] /\ responses'[B] = responses[B]
      BY <1>9, <2>2 DEF OnMessage, TypeOK, Kinds
    <3> QED BY <2>1, <3>1
  <2>3. CASE k = B
    <3>1. \A m \in Ticks :
            /\ clockQueue'[B][m] = IF m = n THEN clockQueue[B][n] - 1 ELSE clockQueue[B][m]
            /\ responses'[B][m] = IF m = n THEN responses[B][n] + 1 ELSE responses[B][m]
      BY <1>9, <2>3 DEF OnMessage, TypeOK, Kinds
    <3> QED BY <2>1, <2>3, <3>1
  <2> QED BY <2>2, <2>3
<1>10. ASSUME NEW e \in Exchanges, ExchangeFinishesTick(e) PROVE CountInv'
  <2>1. /\ pc = "barrier" /\ handling[e] = tick /\ tick \in Ticks
        /\ finished[e] # tick /\ UNCHANGED <<pc, tick, received, responses>>
    BY <1>10 DEF ExchangeFinishesTick, ExchangeInv, clockVars
  <2>2. finished' = [finished EXCEPT ![e] = tick] BY <1>10, <2>1 DEF ExchangeFinishesTick
  <2>3. clockQueue' = [clockQueue EXCEPT ![B][tick] = clockQueue[B][tick] + 1]
    BY <1>10, <2>1 DEF ExchangeFinishesTick, Publish
  <2>4. \A m \in Ticks :
          clockQueue'[B][m] = IF m = tick THEN clockQueue[B][tick] + 1 ELSE clockQueue[B][m]
    BY <2>1, <2>3 DEF TypeOK, Kinds
  <2>5. Cardinality(Done') = Cardinality(Done) + 1
    <3>1. Done' = Done \cup {e} BY <2>1, <2>2 DEF Done, TypeOK
    <3>2. e \notin Done /\ IsFiniteSet(Done)
      BY <2>1, ExchangesAssumption, FS_Subset DEF Done
    <3> QED BY <3>1, <3>2, FS_AddElement
  <2>6. Cardinality(Done) \in Nat
    BY ExchangesAssumption, FS_Subset, FS_CardinalityType DEF Done
  <2> QED BY <2>1, <2>4, <2>5, <2>6
<1>11. ASSUME NEW t \in Traders, NEW e \in Exchanges, FinishDecision(t, e) PROVE CountInv'
  <2>1. clockQueue'[B] = clockQueue[B]
    BY <1>11 DEF FinishDecision, Publish, TypeOK, Kinds
  <2>2. UNCHANGED <<pc, tick, received, responses, finished>> /\ Done' = Done
    BY <1>11 DEF FinishDecision, clockVars, Done
  <2> QED BY <2>1, <2>2
<1> QED
  BY <1>a, <1>1, <1>2, <1>3, <1>4, <1>5, <1>6, <1>7, <1>8, <1>9, <1>10, <1>11
  DEF Next, vars, clockVars, ClockNext, ExchangeNext, TraderNext, Stop, Connect, StopAgent,
      HandlerFails, ExchangeTakesTick, TraderTakesTick, TraderFinishesTick, RequestSnapshot,
      AnswerSnapshot, DecisionFails

-----------------------------------------------------------------------------
\* The inductive invariant holds in every reachable state.
THEOREM Inductive == Spec => []IInv
<1>1. Init => IInv BY InitIInv
<1>2. IInv /\ [Next]_vars => IInv'
  BY StepTypeOK, StepInTick, StepExchangeInv, StepCountInv, StepTraderInv DEF IInv
<1> QED BY <1>1, <1>2, PTL DEF Spec

\* Type correctness of the clock, the queues and the agents.
THEOREM TypeCorrect == Spec => []TypeOK
<1>1. IInv => TypeOK BY DEF IInv
<1> QED BY <1>1, Inductive, PTL

\* The two-phase barrier of run(), for any number of exchanges and traders:
\* whoever is late, fails or answers twice to an older tick, no trader is in
\* tick n before every exchange has finished tick n.
THEOREM BarrierSafe == Spec => []ExchangesBeforeTraders
<1>1. IInv => ExchangesBeforeTraders
  <2> SUFFICES ASSUME IInv, NEW t \in Traders, NEW e \in Exchanges
               PROVE  currentTick[t] <= finished[e]
    BY DEF ExchangesBeforeTraders
  <2>1. /\ tick \in Nat /\ pc \in Phases
        /\ currentTick[t] \in Int /\ finished[e] \in Int
    BY NumTicksAssumption DEF IInv, TypeOK, Ticks, NoTick, Agents
  <2>2. currentTick[t] <= Horizon /\ ExchangeInv(e) BY DEF IInv, TraderInv
  <2> QED BY <2>1, <2>2 DEF Horizon, ExchangeInv, Phases
<1> QED BY <1>1, Inductive, PTL

-----------------------------------------------------------------------------
(* The other half of the lock step, from the traders to the exchanges.  It *)
(* needs what the launcher's expected_responses presumes: a trader that is *)
(* counted once answers a tick once, which is to say that it asks for one  *)
(* snapshot and not for one per instrument.                                *)

OneSnapshot == \A t \in Responders : \A e, f \in Requests[t] : e = f

\* A decision is under way: a snapshot is yet to be asked for, asked for, or
\* being thought about.
Open(t) == toRequest[t] # {} \/ \E e \in Exchanges : asked[t][e] # 0 \/ answered[t][e] # 0

\* The counted traders that have decided the tick the clock is in.
Decided == {t \in Responders : decided[t] = tick}

\* A counted trader has decided this tick or just the one before.  In a tick
\* it holds one token: the tick in its queue, a snapshot to ask for, asked for
\* or answered, and no token once it has decided.
ResponderInv(t) ==
  /\ decided[t] \in {tick - 1, tick}
  /\ pc \in {"head", "barrier", "shutdown", "done"} => decided[t] = tick - 1
  /\ pc = "sleep" => decided[t] = tick
  /\ \/ timeQueue[t] = <<>>
     \/ timeQueue[t] = <<tick>> /\ pc = "decisions" /\ decided[t] = tick - 1 /\ ~Open(t)
     \/ timeQueue[t] = <<StopSimulation>> /\ pc = "done"
  /\ Open(t) => pc = "decisions" /\ decided[t] = tick - 1 /\ currentTick[t] = tick
  /\ toRequest[t] \subseteq Requests[t]
  /\ \A e \in Exchanges :
       /\ e \notin Requests[t] => asked[t][e] = 0 /\ answered[t][e] = 0
       /\ e \in toRequest[t] => asked[t][e] = 0 /\ answered[t][e] = 0
       /\ asked[t][e] + answered[t][e] <= 1

\* CountInv for the third wait.
DecisionCountInv ==
  /\ pc = "decisions" =>
       received + clockQueue["DECISION_RESPONSE"][tick]
                + responses["DECISION_RESPONSE"][tick] = Cardinality(Decided)
  /\ \A n \in Ticks : n > tick \/ (n = tick /\ pc \notin {"decisions", "sleep"}) =>
       /\ clockQueue["DECISION_RESPONSE"][n] = 0
       /\ responses["DECISION_RESPONSE"][n] = 0

LockStepInv ==
  /\ IInv
  /\ \A t \in Responders : ResponderInv(t)
  /\ DecisionCountInv
  /\ \A e \in Exchanges : currentTick[e] <= tick

LEMMA InitLockStep == Init => LockStepInv
<1> SUFFICES ASSUME Init PROVE LockStepInv OBVIOUS
<1> USE DEF Init, NoResponses, Ticks, Kinds, NoTick
<1>1. Responders \subseteq Traders /\ Responders \subseteq Agents
  BY TradersAssumption DEF Agents
<1>2. \A t \in Responders : ResponderInv(t) BY <1>1 DEF ResponderInv, Open
<1>3. DecisionCountInv BY DEF DecisionCountInv
<1>4. \A e \in Exchanges : currentTick[e] <= tick BY DEF Agents
<1> QED BY <1>2, <1>3, <1>4, InitIInv DEF LockStepInv

LEMMA StepExchangeTick ==
  ASSUME LockStepInv, [Next]_vars, NEW x \in Exchanges
  PROVE  currentTick'[x] <= tick'
<1>0. /\ TypeOK /\ ExchangeInv(x) /\ currentTick[x] <= tick /\ x \in Agents /\ tick \in Nat
      /\ currentTick[x] \in Int
  BY NumTicksAssumption DEF LockStepInv, IInv, Agents, TypeOK, Ticks, NoTick
<1> USE <1>0
<1>a. CASE UNCHANGED <<tick, currentTick>> BY <1>a
<1>1. CASE Advance BY <1>1 DEF Advance
<1>2. ASSUME NEW a \in Agents, TakesTick(a), tick' = tick PROVE currentTick'[x] <= tick'
  <2>1. CASE a = x
    <3>1. timeQueue[x] # <<>> /\ Head(timeQueue[x]) # StopSimulation
      BY <1>2, <2>1 DEF TakesTick, TakesFromTimeQueue
    <3>2. Head(timeQueue[x]) = tick BY <3>1 DEF ExchangeInv, StopSimulation
    <3> QED BY <1>2, <2>1, <3>2 DEF TakesTick, TypeOK
  <2>2. CASE a # x BY <1>2, <2>2 DEF TakesTick, TypeOK
  <2> QED BY <2>1, <2>2
<1>3. ASSUME NEW e \in Exchanges, ExchangeTakesTick(e) PROVE currentTick'[x] <= tick'
  BY <1>2, <1>3 DEF ExchangeTakesTick, clockVars, Agents
<1>4. ASSUME NEW t \in Traders, TraderTakesTick(t) PROVE currentTick'[x] <= tick'
  BY <1>2, <1>4 DEF TraderTakesTick, clockVars, Agents
<1> QED
  BY <1>a, <1>1, <1>3, <1>4
  DEF Next, vars, clockVars, ClockNext, StartTick, TickTraders, DecisionsIn, LeaveLoop,
      BroadcastStopSimulation, ExchangeNext, TraderNext, WaitForBarrierResponse,
      WaitForTraderResponse, Receive, OnMessage, Stop, Connect, StopAgent, HandlerFails,
      ExchangeFinishesTick, TraderFinishesTick, RequestSnapshot, AnswerSnapshot,
      FinishDecision, DecisionFails

\* When all counted traders' responses are in, all counted traders decided.
LEMMA AllDecided ==
  ASSUME LockStepInv, DecisionsIn
  PROVE  \A t \in Responders : decided[t] = tick
<1>1. IsFiniteSet(Responders) /\ Decided \subseteq Responders /\ Cardinality(Decided) \in Nat
  BY TradersAssumption, FS_Subset, FS_CardinalityType DEF Decided
<1>2. tick \in Ticks
  BY NumTicksAssumption DEF DecisionsIn, Ticks, InTick, LockStepInv, IInv, TypeOK
<1>3. /\ clockQueue["DECISION_RESPONSE"][tick] \in Nat
      /\ responses["DECISION_RESPONSE"][tick] \in Nat /\ received \in Nat
  BY <1>2, Sizes DEF LockStepInv, IInv, TypeOK, Kinds
<1>4. Cardinality(Decided) >= Cardinality(Responders)
  BY <1>1, <1>3, Sizes DEF DecisionsIn, DecisionCountInv, LockStepInv
<1>5. Decided = Responders BY <1>1, <1>4, FS_Subset, Sizes
<1> QED BY <1>5 DEF Decided

LEMMA StepResponderInv ==
  ASSUME OneSnapshot, LockStepInv, [Next]_vars, NEW x \in Responders
  PROVE  ResponderInv(x)'
<1>0. /\ TypeOK /\ ResponderInv(x) /\ tick \in Nat
      /\ x \in Agents /\ x \in Traders /\ x \notin Exchanges
      /\ decided[x] \in Int /\ currentTick[x] \in Int
  BY SMTT(30), TradersAssumption, NumTicksAssumption
  DEF LockStepInv, IInv, Agents, TypeOK, Ticks, NoTick
<1> USE <1>0 DEF ResponderInv, NoTick, StopSimulation
<1>a. CASE UNCHANGED <<pc, tick, timeQueue, currentTick, toRequest, asked, answered, decided>>
  BY <1>a DEF Open
<1>1. CASE StartTick
  <2>1. timeQueue'[x] = timeQueue[x] /\ timeQueue[x] = <<>>
    BY <1>1, BroadcastQueue DEF StartTick
  <2> QED BY <1>1, <2>1 DEF StartTick, traderVars, Open
<1>2. CASE TickTraders
  <2>1. timeQueue[x] = <<>> /\ decided[x] = tick - 1 /\ ~Open(x) BY <1>2 DEF TickTraders
  <2>2. timeQueue'[x] \in {<<>>, Append(<<>>, tick)}
    BY <1>2, <2>1, BroadcastQueue DEF TickTraders
  <2>3. ~Open(x)' BY <1>2, <2>1 DEF TickTraders, traderVars, Open
  <2> QED BY <1>2, <2>1, <2>2, <2>3 DEF TickTraders, traderVars
<1>3. CASE DecisionsIn
  <2>1. decided[x] = tick BY <1>3, AllDecided
  <2>2. ~Open(x) /\ timeQueue[x] = <<>> BY <1>3, <2>1 DEF DecisionsIn
  <2>3. ~Open(x)' BY <1>3, <2>2 DEF DecisionsIn, traderVars, Open
  <2> QED BY <1>3, <2>1, <2>2, <2>3 DEF DecisionsIn, traderVars
<1>4. CASE Advance
  <2>1. ~Open(x) /\ timeQueue[x] = <<>> /\ ~Open(x)' BY <1>4 DEF Advance, traderVars, Open
  <2> QED BY <1>4, <2>1 DEF Advance, traderVars
<1>5. CASE LeaveLoop BY <1>5 DEF LeaveLoop, traderVars, Open
<1>6. CASE BroadcastStopSimulation
  <2>1. timeQueue[x] = <<>> /\ ~Open(x) /\ ~Open(x)'
    BY <1>6 DEF BroadcastStopSimulation, traderVars, Open
  <2>2. timeQueue'[x] \in {<<>>, Append(<<>>, StopSimulation)}
    BY <1>6, <2>1, BroadcastQueue DEF BroadcastStopSimulation
  <2> QED BY <1>6, <2>1, <2>2 DEF BroadcastStopSimulation, traderVars
<1>7. ASSUME NEW a \in Agents, StopAgent(a) PROVE ResponderInv(x)'
  <2>1. UNCHANGED <<pc, tick, currentTick, toRequest, asked, answered, decided>>
    BY <1>7 DEF StopAgent, clockVars, traderVars
  <2>2. timeQueue'[x] \in {timeQueue[x], <<>>}
    <3>1. CASE a = x
      <4>1. timeQueue[x] # <<>> /\ timeQueue'[x] = Tail(timeQueue[x])
        BY <1>7, <3>1 DEF StopAgent, TakesFromTimeQueue, TypeOK
      <4>2. Tail(<<tick>>) = <<>> /\ Tail(<<StopSimulation>>) = <<>> OBVIOUS
      <4> QED BY <4>1, <4>2
    <3>2. CASE a # x BY <1>7, <3>2 DEF StopAgent, TakesFromTimeQueue, TypeOK
    <3> QED BY <3>1, <3>2
  <2> QED BY <2>1, <2>2 DEF Open
<1>8. ASSUME NEW e \in Exchanges, ExchangeTakesTick(e) PROVE ResponderInv(x)'
  <2>1. e # x /\ e \in Agents BY DEF Agents
  <2>2. /\ UNCHANGED <<pc, tick, toRequest, asked, answered, decided>>
        /\ currentTick'[x] = currentTick[x] /\ timeQueue'[x] = timeQueue[x]
    BY <1>8, <2>1
    DEF ExchangeTakesTick, TakesTick, TakesFromTimeQueue, clockVars, traderVars, TypeOK
  <2> QED BY <2>2 DEF Open
<1>9. ASSUME NEW t \in Traders, TraderTakesTick(t) PROVE ResponderInv(x)'
  <2>0. t \in Agents /\ UNCHANGED <<pc, tick, asked, answered, decided>>
    BY <1>9 DEF Agents, TraderTakesTick, clockVars
  <2>1. CASE t = x
    <3>1. timeQueue[x] # <<>> /\ Head(timeQueue[x]) # StopSimulation
      BY <1>9, <2>1 DEF TraderTakesTick, TakesTick, TakesFromTimeQueue
    <3>2. timeQueue[x] = <<tick>> /\ pc = "decisions" /\ decided[x] = tick - 1 /\ ~Open(x)
      BY <3>1
    <3>3. /\ timeQueue'[x] = <<>> /\ currentTick'[x] = tick /\ toRequest'[x] = Requests[x]
      BY <1>9, <2>0, <2>1, <3>2
      DEF TraderTakesTick, TakesTick, TakesFromTimeQueue, TypeOK
    <3>4. \A e \in Exchanges : asked[x][e] = 0 /\ answered[x][e] = 0 BY <3>2 DEF Open
    <3> QED BY <2>0, <3>2, <3>3, <3>4
  <2>2. CASE t # x
    <3>1. /\ timeQueue'[x] = timeQueue[x] /\ currentTick'[x] = currentTick[x]
          /\ toRequest'[x] = toRequest[x]
      BY <1>9, <2>0, <2>2 DEF TraderTakesTick, TakesTick, TakesFromTimeQueue, TypeOK
    <3> QED BY <2>0, <3>1 DEF Open
  <2> QED BY <2>1, <2>2
<1>10. ASSUME NEW t \in Traders, NEW e \in Exchanges, RequestSnapshot(t, e)
       PROVE  ResponderInv(x)'
  <2>0. UNCHANGED <<pc, tick, timeQueue, currentTick, answered, decided>> /\ e \in toRequest[t]
    BY <1>10 DEF RequestSnapshot, clockVars
  <2>1. CASE t # x
    <3>1. toRequest'[x] = toRequest[x] /\ asked'[x] = asked[x]
      BY <1>10, <2>1 DEF RequestSnapshot, TypeOK
    <3> QED BY <2>0, <3>1 DEF Open
  <2>2. CASE t = x
    <3>1. /\ toRequest'[x] = toRequest[x] \ {e}
          /\ \A f \in Exchanges : asked'[x][f] = IF f = e THEN asked[x][e] + 1 ELSE asked[x][f]
      BY <1>10, <2>2 DEF RequestSnapshot, TypeOK
    <3>2. Open(x) /\ e \in Requests[x] /\ asked[x][e] = 0 /\ answered[x][e] = 0
      BY <2>0, <2>2 DEF Open
    <3>3. pc = "decisions" /\ decided[x] = tick - 1 /\ currentTick[x] = tick
      BY <3>2
    <3>4. \A f \in Exchanges :
            /\ f \notin Requests[x] => asked'[x][f] = 0 /\ answered'[x][f] = 0
            /\ f \in toRequest'[x] => asked'[x][f] = 0 /\ answered'[x][f] = 0
            /\ asked'[x][f] + answered'[x][f] <= 1
      BY <2>0, <3>1, <3>2
    <3>5. timeQueue[x] = <<>> BY <3>2, <3>3
    <3> QED BY <2>0, <3>1, <3>3, <3>4, <3>5
  <2> QED BY <2>1, <2>2
<1>11. ASSUME NEW e \in Exchanges, NEW t \in Traders, AnswerSnapshot(e, t)
       PROVE  ResponderInv(x)'
  <2>0. UNCHANGED <<pc, tick, timeQueue, currentTick, toRequest, decided>> /\ asked[t][e] > 0
    BY <1>11 DEF AnswerSnapshot, clockVars
  <2>1. CASE t # x
    <3>1. answered'[x] = answered[x] /\ asked'[x] = asked[x]
      BY <1>11, <2>1 DEF AnswerSnapshot, TypeOK
    <3> QED BY <2>0, <3>1 DEF Open
  <2>2. CASE t = x
    <3>1. \A f \in Exchanges :
            /\ asked'[x][f] = IF f = e THEN asked[x][e] - 1 ELSE asked[x][f]
            /\ answered'[x][f] = IF f = e THEN answered[x][e] + 1 ELSE answered[x][f]
            /\ asked[x][f] \in Nat /\ answered[x][f] \in Nat
      BY <1>11, <2>2 DEF AnswerSnapshot, TypeOK
    <3>2. Open(x) BY <2>0, <2>2 DEF Open
    <3>3. pc = "decisions" /\ decided[x] = tick - 1 /\ currentTick[x] = tick
      BY <3>2
    <3>4. timeQueue[x] = <<>> BY <3>2, <3>3
    <3>5. \A f \in Exchanges :
            /\ f \notin Requests[x] => asked'[x][f] = 0 /\ answered'[x][f] = 0
            /\ f \in toRequest'[x] => asked'[x][f] = 0 /\ answered'[x][f] = 0
            /\ asked'[x][f] + answered'[x][f] <= 1
      BY <2>0, <2>2, <3>1
    <3> QED BY <2>0, <3>3, <3>4, <3>5
  <2> QED BY <2>1, <2>2
\* Whoever takes an answered snapshot of x leaves x without a token.
<1>12. ASSUME NEW e \in Exchanges, answered[x][e] > 0,
              answered' = [answered EXCEPT ![x][e] = @ - 1],
              UNCHANGED <<toRequest, asked>>
       PROVE  /\ ~Open(x)' /\ pc = "decisions" /\ decided[x] = tick - 1
              /\ timeQueue[x] = <<>> /\ currentTick[x] = tick
  <2>1. Open(x) BY <1>12 DEF Open
  <2>2. e \in Requests[x] /\ e \notin toRequest[x] BY <1>12
  <2>3. \A f \in Requests[x] : f = e BY <2>2 DEF OneSnapshot
  <2>4. toRequest[x] = {} BY <2>2, <2>3
  <2>5. asked[x][e] \in Nat /\ answered[x][e] \in Nat BY DEF TypeOK
  <2>6. asked[x][e] = 0 /\ answered[x][e] = 1 BY <1>12, <2>5
  <2>7. ASSUME NEW f \in Exchanges PROVE asked'[x][f] = 0 /\ answered'[x][f] = 0
    <3>1. asked'[x] = asked[x] /\ answered'[x] = [answered[x] EXCEPT ![e] = @ - 1]
      BY <1>12 DEF TypeOK
    <3>2. CASE f = e BY <2>6, <3>1, <3>2 DEF TypeOK
    <3>3. CASE f # e
      <4>1. asked[x][f] = 0 /\ answered[x][f] = 0 BY <2>3, <3>3
      <4> QED BY <3>1, <3>3, <4>1 DEF TypeOK
    <3> QED BY <3>2, <3>3
  <2> QED BY <1>12, <2>1, <2>4, <2>7 DEF Open
<1>13. ASSUME NEW t \in Traders, NEW e \in Exchanges, FinishDecision(t, e)
       PROVE  ResponderInv(x)'
  <2>0. UNCHANGED <<pc, tick, timeQueue, currentTick, toRequest, asked>> /\ answered[t][e] > 0
        /\ answered' = [answered EXCEPT ![t][e] = @ - 1]
    BY <1>13 DEF FinishDecision, clockVars
  <2>1. CASE t # x
    <3>1. answered'[x] = answered[x] /\ decided'[x] = decided[x]
      BY <1>13, <2>1 DEF FinishDecision, TypeOK
    <3> QED BY <2>0, <3>1 DEF Open
  <2>2. CASE t = x
    <3>1. /\ ~Open(x)' /\ pc = "decisions" /\ timeQueue[x] = <<>> /\ currentTick[x] = tick
      BY <1>12, <2>0, <2>2
    <3>2. decided'[x] = tick BY <1>13, <2>2, <3>1 DEF FinishDecision, TypeOK
    <3>3. \A f \in Exchanges : asked'[x][f] = 0 /\ answered'[x][f] = 0 BY <3>1 DEF Open
    <3> QED BY <2>0, <3>1, <3>2, <3>3
  <2> QED BY <2>1, <2>2
<1>14. ASSUME NEW t \in Traders, NEW e \in Exchanges, DecisionFails(t, e)
       PROVE  ResponderInv(x)'
  <2>0. /\ UNCHANGED <<pc, tick, timeQueue, currentTick, toRequest, asked, decided>>
        /\ answered[t][e] > 0 /\ answered' = [answered EXCEPT ![t][e] = @ - 1]
    BY <1>14 DEF DecisionFails, clockVars
  <2>1. CASE t # x
    <3>1. answered'[x] = answered[x] BY <2>0, <2>1 DEF TypeOK
    <3> QED BY <2>0, <3>1 DEF Open
  <2>2. CASE t = x
    <3>1. ~Open(x)' /\ pc = "decisions" /\ decided[x] = tick - 1 /\ timeQueue[x] = <<>>
      BY <1>12, <2>0, <2>2
    <3>2. \A f \in Exchanges : asked'[x][f] = 0 /\ answered'[x][f] = 0 BY <3>1 DEF Open
    <3> QED BY <2>0, <3>1, <3>2
  <2> QED BY <2>1, <2>2
<1> HIDE <1>0 DEF ResponderInv
<1> QED
  BY <1>a, <1>1, <1>2, <1>3, <1>4, <1>5, <1>6, <1>7, <1>8, <1>9, <1>10, <1>11, <1>13, <1>14
  DEF Next, vars, clockVars, traderVars, ClockNext, ExchangeNext, TraderNext,
      WaitForBarrierResponse, WaitForTraderResponse, Receive, OnMessage, Stop, Connect,
      HandlerFails, ExchangeFinishesTick, TraderFinishesTick

LEMMA StepDecisionCountInv ==
  ASSUME OneSnapshot, LockStepInv, [Next]_vars
  PROVE  DecisionCountInv'
<1> DEFINE D == "DECISION_RESPONSE"
<1>0. /\ TypeOK /\ DecisionCountInv /\ \A t \in Responders : ResponderInv(t)
      /\ tick \in Nat /\ received \in Nat
      /\ \A n \in Ticks : n \in Nat /\ clockQueue[D][n] \in Nat /\ responses[D][n] \in Nat
      /\ pc \in InTick => tick \in Ticks
  <2>1. TypeOK /\ tick \in Nat /\ received \in Nat
    BY NumTicksAssumption, Sizes DEF LockStepInv, IInv, TypeOK
  <2>2. \A n \in Ticks : clockQueue[D][n] \in Nat /\ responses[D][n] \in Nat
    BY <2>1 DEF TypeOK, Kinds
  <2> QED BY <2>1, <2>2, NumTicksAssumption DEF LockStepInv, IInv, Ticks
<1> USE <1>0 DEF DecisionCountInv, InTick
<1>a. CASE UNCHANGED <<pc, tick, received, clockQueue, responses, decided>>
  BY <1>a DEF Decided
<1>1. CASE StartTick BY <1>1 DEF StartTick
<1>2. CASE TickTraders
  <2>1. tick \in Ticks /\ \A t \in Responders : decided[t] = tick - 1
    BY <1>2 DEF TickTraders, ResponderInv
  <2>2. Decided' = {} BY <1>2, <2>1 DEF TickTraders, traderVars, Decided
  <2> QED BY <1>2, <2>1, <2>2, FS_EmptySet DEF TickTraders
<1>3. CASE DecisionsIn BY <1>3 DEF DecisionsIn
<1>4. CASE Advance BY <1>4 DEF Advance
<1>5. CASE LeaveLoop BY <1>5 DEF LeaveLoop
<1>6. CASE BroadcastStopSimulation BY <1>6 DEF BroadcastStopSimulation
<1>7. ASSUME NEW n \in Ticks, WaitForTraderResponse(n) PROVE DecisionCountInv'
  <2>1. /\ responses' = [responses EXCEPT ![D][n] = responses[D][n] - 1] /\ responses[D][n] > 0
        /\ received' = IF n = tick THEN received + 1 ELSE received
        /\ pc = "decisions" /\ UNCHANGED <<pc, tick, clockQueue, decided>>
    BY <1>7 DEF WaitForTraderResponse, Receive, traderVars
  <2>2. \A m \in Ticks : responses'[D][m] = IF m = n THEN responses[D][n] - 1 ELSE responses[D][m]
    BY <2>1 DEF TypeOK, Kinds
  <2>3. Decided' = Decided BY <2>1 DEF Decided
  <2> QED BY <2>1, <2>2, <2>3
<1>8. ASSUME NEW n \in Ticks, WaitForBarrierResponse(n) PROVE DecisionCountInv'
  <2>1. pc = "barrier" /\ UNCHANGED <<pc, tick, clockQueue>> /\ responses'[D] = responses[D]
    BY <1>8 DEF WaitForBarrierResponse, Receive, TypeOK, Kinds
  <2> QED BY <2>1
<1>9. ASSUME NEW k \in Kinds, NEW n \in Ticks, OnMessage(k, n) PROVE DecisionCountInv'
  <2>1. UNCHANGED <<pc, tick, received, decided>> /\ Decided' = Decided /\ clockQueue[k][n] > 0
    BY <1>9 DEF OnMessage, clockVars, traderVars, Decided
  <2>2. CASE k # D
    <3>1. clockQueue'[D] = clockQueue[D] /\ responses'[D] = responses[D]
      BY <1>9, <2>2 DEF OnMessage, TypeOK, Kinds
    <3> QED BY <2>1, <3>1
  <2>3. CASE k = D
    <3>1. \A m \in Ticks :
            /\ clockQueue'[D][m] = IF m = n THEN clockQueue[D][n] - 1 ELSE clockQueue[D][m]
            /\ responses'[D][m] = IF m = n THEN responses[D][n] + 1 ELSE responses[D][m]
      BY <1>9, <2>3 DEF OnMessage, TypeOK, Kinds
    <3> QED BY <2>1, <2>3, <3>1
  <2> QED BY <2>2, <2>3
<1>10. ASSUME NEW t \in Traders, NEW e \in Exchanges, FinishDecision(t, e)
       PROVE  DecisionCountInv'
  <2>0. UNCHANGED <<pc, tick, received, responses>> /\ answered[t][e] # 0
    BY <1>10 DEF FinishDecision, clockVars, TypeOK
  <2>1. CASE t \notin Responders
    BY <1>10, <2>0, <2>1 DEF FinishDecision, Decided
  <2>2. CASE t \in Responders
    <3>1. pc = "decisions" /\ decided[t] = tick - 1 /\ currentTick[t] = tick /\ tick \in Ticks
      BY <2>0, <2>2 DEF ResponderInv, Open
    <3>2. decided' = [decided EXCEPT ![t] = tick] BY <1>10, <2>2, <3>1 DEF FinishDecision
    <3>3. clockQueue' = [clockQueue EXCEPT ![D][tick] = clockQueue[D][tick] + 1]
      BY <1>10, <2>2, <3>1 DEF FinishDecision, Publish
    <3>4. \A m \in Ticks :
            clockQueue'[D][m] = IF m = tick THEN clockQueue[D][tick] + 1 ELSE clockQueue[D][m]
      BY <3>1, <3>3 DEF TypeOK, Kinds
    <3>5. IsFiniteSet(Decided) /\ Cardinality(Decided) \in Nat
      BY TradersAssumption, FS_Subset, FS_CardinalityType DEF Decided
    <3>6. Cardinality(Decided') = Cardinality(Decided) + 1
      <4>1. Decided' = Decided \cup {t} BY <2>0, <2>2, <3>2 DEF Decided, TypeOK
      <4>2. t \notin Decided BY <3>1 DEF Decided
      <4> QED BY <3>5, <4>1, <4>2, FS_AddElement
    <3> QED BY <2>0, <3>1, <3>4, <3>5, <3>6
  <2> QED BY <2>1, <2>2
<1>11. ASSUME NEW e \in Exchanges, ExchangeFinishesTick(e) PROVE DecisionCountInv'
  <2>1. clockQueue'[D] = clockQueue[D]
    BY <1>11 DEF ExchangeFinishesTick, Publish, TypeOK, Kinds
  <2>2. UNCHANGED <<pc, tick, received, responses, decided>> /\ Decided' = Decided
    BY <1>11 DEF ExchangeFinishesTick, clockVars, traderVars, Decided
  <2> QED BY <2>1, <2>2
<1> HIDE <1>0 DEF DecisionCountInv
<1> QED
  BY <1>a, <1>1, <1>2, <1>3, <1>4, <1>5, <1>6, <1>7, <1>8, <1>9, <1>10, <1>11
  DEF Next, vars, clockVars, traderVars, ClockNext, ExchangeNext, TraderNext, Stop, Connect,
      StopAgent, HandlerFails, ExchangeTakesTick, TraderTakesTick, TraderFinishesTick,
      RequestSnapshot, AnswerSnapshot, DecisionFails

-----------------------------------------------------------------------------
\* The inductive invariant of the lock step.
THEOREM LockStepInductive == ASSUME OneSnapshot PROVE Spec => []LockStepInv
<1>1. Init => LockStepInv BY InitLockStep
<1>2. LockStepInv /\ [Next]_vars => LockStepInv'
  <2> SUFFICES ASSUME LockStepInv, [Next]_vars PROVE LockStepInv' OBVIOUS
  <2>1. IInv' BY StepTypeOK, StepInTick, StepExchangeInv, StepCountInv, StepTraderInv
               DEF IInv, LockStepInv
  <2>2. (\A t \in Responders : ResponderInv(t))' BY StepResponderInv
  <2>3. DecisionCountInv' BY StepDecisionCountInv
  <2>4. (\A e \in Exchanges : currentTick[e] <= tick)' BY StepExchangeTick
  <2> QED BY <2>1, <2>2, <2>3, <2>4 DEF LockStepInv
<1> QED BY <1>1, <1>2, PTL DEF Spec

\* The third wait, _wait_for_trader_responses, for any number of agents that
\* may fail or come late: no exchange starts on tick n + 1 before every
\* counted trader has decided tick n.
THEOREM DecisionsSafe == ASSUME OneSnapshot PROVE Spec => []DecisionsBeforeNextTick
<1>1. LockStepInv => DecisionsBeforeNextTick
  <2> SUFFICES ASSUME LockStepInv, NEW e \in Exchanges, NEW t \in Responders
               PROVE  currentTick[e] <= decided[t] + 1
    BY DEF DecisionsBeforeNextTick
  <2>1. currentTick[e] \in Int /\ tick \in Nat
    BY NumTicksAssumption DEF LockStepInv, IInv, TypeOK, Agents, Ticks, NoTick
  <2>2. currentTick[e] <= tick /\ decided[t] \in {tick - 1, tick}
    BY DEF LockStepInv, ResponderInv
  <2> QED BY <2>1, <2>2
<1> QED BY <1>1, LockStepInductive, PTL

\* When the clock leaves a tick, no counted trader still asks for data or
\* thinks: nothing of tick n is decided in tick n + 1 or lost at the end.
THEOREM NothingOutstanding == ASSUME OneSnapshot PROVE Spec => []NoDecisionOutstanding
<1>1. LockStepInv => NoDecisionOutstanding
  BY DEF LockStepInv, ResponderInv, Open, NoDecisionOutstanding
<1> QED BY <1>1, LockStepInductive, PTL

-----------------------------------------------------------------------------
\* What each step of the detailed clock is in the lock step.
LEMMA WorkStep ==
  ASSUME LockStepInv, NEW e \in Exchanges, ExchangeFinishesTick(e)
  PROVE  LockStep!Work(e)
<1>1. /\ pc = "barrier" /\ handling[e] = tick /\ finished[e] = tick - 1 /\ tick < NumTicks
      /\ \A t \in Responders : decided[t] = tick - 1
      /\ tick \in Nat
  BY NumTicksAssumption
  DEF LockStepInv, IInv, TypeOK, ExchangeInv, ResponderInv, ExchangeFinishesTick, InTick
<1>2. finished' = [finished EXCEPT ![e] = tick] /\ UNCHANGED <<pc, tick, decided>>
  BY <1>1 DEF ExchangeFinishesTick, clockVars, traderVars
<1> QED BY <1>1, <1>2 DEF LockStep!Work

LEMMA DecideStep ==
  ASSUME LockStepInv, NEW t \in Responders, NEW e \in Exchanges, FinishDecision(t, e)
  PROVE  LockStep!Decide(t)
<1>1. Open(t) /\ TypeOK /\ tick \in Nat
  BY TradersAssumption, NumTicksAssumption DEF FinishDecision, Open, LockStepInv, IInv, TypeOK
<1>2. pc = "decisions" /\ decided[t] = tick - 1 /\ currentTick[t] = tick
  BY <1>1 DEF LockStepInv, ResponderInv
<1>3. \A x \in Exchanges : finished[x] = tick BY <1>2 DEF LockStepInv, IInv, ExchangeInv
<1>4. decided' = [decided EXCEPT ![t] = tick] /\ UNCHANGED <<pc, tick, finished>>
  BY <1>2 DEF FinishDecision, clockVars
<1>5. [r \in Responders |-> decided'[r]]
        = [[r \in Responders |-> decided[r]] EXCEPT ![t] = tick]
  BY <1>1, <1>4, TradersAssumption DEF TypeOK
<1> QED BY <1>1, <1>2, <1>3, <1>4, <1>5 DEF LockStep!Decide

\* The clock with its messages, queues and wait loops implements the lock
\* step: every step of it is a step of TickLockStep or changes nothing there.
THEOREM ClockImplementsLockStep == ASSUME OneSnapshot PROVE Spec => ImplementsLockStep
<1>1. Init => LockStep!Init
  BY TradersAssumption DEF Init, LockStep!Init, NoTick
<1>2. LockStepInv /\ [Next]_vars => [LockStep!Next]_LockStep!vars
  <2> SUFFICES ASSUME LockStepInv, [Next]_vars PROVE [LockStep!Next]_LockStep!vars OBVIOUS
  <2>0. TypeOK /\ tick \in Nat BY NumTicksAssumption DEF LockStepInv, IInv, TypeOK
  <2>a. CASE UNCHANGED <<tick, finished, decided>> /\
             (pc \in {"shutdown", "done"})' = (pc \in {"shutdown", "done"})
    BY <2>a DEF LockStep!vars
  <2>1. CASE Advance
    <3>1. /\ \A e \in Exchanges : finished[e] = tick
          /\ \A t \in Responders : decided[t] = tick
          /\ pc = "sleep" /\ tick < NumTicks
      BY <2>1 DEF Advance, LockStepInv, IInv, ExchangeInv, ResponderInv, InTick
    <3>2. LockStep!Advance BY <2>1, <3>1 DEF Advance, traderVars, LockStep!Advance
    <3> QED BY <3>2 DEF LockStep!Next
  <2>2. CASE LeaveLoop
    <3>1. /\ \A e \in Exchanges : finished[e] = tick - 1
          /\ \A t \in Responders : decided[t] = tick - 1
          /\ pc = "head"
      BY <2>2 DEF LeaveLoop, LockStepInv, IInv, ExchangeInv, ResponderInv
    <3>2. LockStep!End BY <2>2, <3>1 DEF LeaveLoop, traderVars, LockStep!End
    <3> QED BY <3>2 DEF LockStep!Next
  <2>3. ASSUME NEW e \in Exchanges, ExchangeFinishesTick(e) PROVE [LockStep!Next]_LockStep!vars
    BY <2>3, WorkStep DEF LockStep!Next
  <2>4. ASSUME NEW t \in Traders, NEW e \in Exchanges, FinishDecision(t, e)
        PROVE  [LockStep!Next]_LockStep!vars
    <3>1. CASE t \in Responders BY <2>4, <3>1, DecideStep DEF LockStep!Next
    <3>2. CASE t \notin Responders BY <2>a, <2>4, <3>2 DEF FinishDecision, clockVars
    <3> QED BY <3>1, <3>2
  <2>5. CASE StartTick \/ TickTraders \/ DecisionsIn \/ BroadcastStopSimulation
    BY <2>a, <2>5 DEF StartTick, TickTraders, DecisionsIn, BroadcastStopSimulation, traderVars
  <2> QED
    BY <2>a, <2>1, <2>2, <2>3, <2>4, <2>5
    DEF Next, vars, clockVars, traderVars, ClockNext, ExchangeNext, TraderNext,
        WaitForBarrierResponse, WaitForTraderResponse, Receive, OnMessage, Stop, Connect,
        StopAgent, HandlerFails, ExchangeTakesTick, TraderTakesTick, TraderFinishesTick,
        RequestSnapshot, AnswerSnapshot, DecisionFails
<1> QED BY <1>1, <1>2, LockStepInductive, PTL DEF Spec, ImplementsLockStep, LockStep!Spec

=============================================================================
