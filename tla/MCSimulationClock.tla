------------------------- MODULE MCSimulationClock -------------------------
(* Small compositions of the clock with exchanges and traders.             *)
EXTENDS SimulationClock

CONSTANTS e1, e2, t1, t2, t3

\* Traders that ask one exchange per tick: benchmark traders (SMA, MACD), whom
\* nobody counts, and those that are waited for.
AskingRequests == [t \in Traders |-> {e1}]
\* TradingAgentsStockSimAgent as shipped: it asks for nothing.
BridgeRequests == [t \in Traders |-> {}]
=============================================================================
