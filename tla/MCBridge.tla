------------------------------ MODULE MCBridge ------------------------------
(* Four dates of two ticks each under the ablations of configs/ablations. *)
EXTENDS BridgeDecision

MCWeights == 0 .. MaxQty
TwoTicksPerDate == [n \in 0 .. MaxTick |-> n \div 2]

Setting(macro, veto, metric, policy) ==
  [macro |-> macro, veto |-> veto, metric |-> metric, policy |-> policy]

\* A0, A1, A3, A6 and A7; A2 differs in the memory alone, A4 is A1 and A3.
Ablations ==
  {Setting(TRUE, TRUE, "historical_cvar", "event_triggered"),
   Setting(FALSE, TRUE, "historical_cvar", "event_triggered"),
   Setting(TRUE, FALSE, "historical_cvar", "event_triggered"),
   Setting(TRUE, TRUE, "historical_cvar", "daily_full"),
   Setting(TRUE, TRUE, "drawdown", "event_triggered")}

MCMarkets ==
  {[large |-> FALSE, volatile |-> FALSE, drawdown |-> 0],
   [large |-> TRUE, volatile |-> FALSE, drawdown |-> 0],
   [large |-> FALSE, volatile |-> TRUE, drawdown |-> 20]}
=============================================================================
