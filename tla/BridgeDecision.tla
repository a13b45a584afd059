--------------------------- MODULE BridgeDecision ---------------------------
(***************************************************************************)
(* The decisions of the bridge trader (bridge_simulation.py) above its     *)
(* execution (TPlusOne): the cached regime, the choice between a debate    *)
(* and the intent of the last one, the parser of the debate's text         *)
(* (trading_intent.py), the cap of the regime and the risk rewrite, and    *)
(* the memory the trader keeps of its decisions.                           *)
(*                                                                         *)
(* A weight is a quantity, as in TPlusOne: MaxQty is the whole portfolio.  *)
(* What an ablation switches on or off is chosen at the start.             *)
(***************************************************************************)
EXTENDS TPlusOne, Signals, FiniteSets

CONSTANTS
  Configs,         \* [macro, veto : BOOLEAN, metric, policy]
  Markets,         \* what compact_state says: [large, volatile : BOOLEAN, drawdown]
  PeriodDays,      \* macro_cycle
  ForceEvery,      \* force_full_debate_every_n_trading_days
  MaxDrawdown,     \* max_drawdown_threshold, in percent
  MemoryBudget,    \* memory_budget_tokens
  PinDays          \* crisis_pin_quarters

ASSUME BridgeAssumption ==
  /\ Weights = 0 .. MaxQty
  /\ \A c \in Configs : /\ c.macro \in BOOLEAN /\ c.veto \in BOOLEAN
                        /\ c.metric \in {"historical_cvar", "drawdown"}
                        /\ c.policy \in {"event_triggered", "daily_full"}
  /\ \A m \in Markets : m.large \in BOOLEAN /\ m.volatile \in BOOLEAN /\ m.drawdown \in 0 .. 100
  /\ PeriodDays \in Nat \ {0} /\ ForceEvery \in Nat /\ MaxDrawdown \in Nat
  /\ MemoryBudget \in Nat /\ PinDays \in Nat

VARIABLES
  config,
  regime,          \* regime_cache of the instrument: [kind, as_of] or NoRegime
  intent,          \* previous_intents: [action, target] or NoIntent
  lastDebate,      \* _last_full_debate_day of the controller, or NoDate
  lastDrawdown,    \* its _last_drawdown, or NoDate
  nameCap,         \* max_single_name_weight of the tail risk forecaster
  decided,         \* history: the last decision, its debate and its regime
  hung             \* an exception left the handler, which has not answered

bridgeVars == <<config, regime, intent, lastDebate, lastDrawdown, nameCap, decided, hung>>

-----------------------------------------------------------------------------
NoRegime == [kind |-> "none", as_of |-> NoDate]
NoIntent == [action |-> "none", target |-> 0]
Today == DateOf[traderTick]
Period(d) == d \div PeriodDays
Percent(n) == (n * MaxQty) \div 100

\* MacroRegimeAgent.infer.
Infer(m) == [kind |-> IF m.volatile \/ m.drawdown > 12 THEN "risk_off" ELSE "neutral",
             as_of |-> Today]
MaxPositionWeight(r) == Percent(IF r.kind = "risk_off" THEN 35 ELSE 75)

\* Mutant: the day of the regime is not looked at.
NeedsRegimeRefreshOnce == regime = NoRegime

\* _needs_regime_refresh.
NeedsRegimeRefresh == regime = NoRegime \/ Period(regime.as_of) # Period(Today)

\* TemporalDecouplingController.decide; limit hits and news are not in what the
\* bridge hands it.  The drawdown is remembered where the policy is looked at.
FullDebateTriggered(m) ==
  \/ config.policy = "daily_full"
  \/ lastDebate = NoDate
  \/ Today - lastDebate >= ForceEvery
  \/ m.large
  \/ lastDrawdown # Unset /\ (m.drawdown - lastDrawdown > 4 \/ lastDrawdown - m.drawdown > 4)

-----------------------------------------------------------------------------
(* trading_intent.py. *)

\* _clamp_weight.
ClampWeight(w) == IF w > MaxQty THEN MaxQty ELSE w

\* _normalize_target; a weight that is not given is Unset.
NormalizeTarget(action, raw, current) ==
  LET half == current \div 2
      fallback == IF action = "BUY" THEN IF current > Percent(25) THEN current ELSE Percent(25)
                  ELSE IF action = "REDUCE" THEN half
                  ELSE IF action \in {"SELL", "EXIT"} THEN 0 ELSE current
  IN  ClampWeight(IF raw = Unset THEN fallback
                  ELSE IF action = "REDUCE" /\ raw >= current THEN half ELSE raw)

\* TradingIntentParser.parse: what cannot be parsed holds the position.
Parse(reading, current) ==
  IF reading = Unparsed THEN [action |-> "HOLD", target |-> ClampWeight(current)]
  ELSE [action |-> reading.action,
        target |-> NormalizeTarget(reading.action, reading.weight, current)]
Readings == {ReadIntent(text) : text \in Texts}

-----------------------------------------------------------------------------
(* The cap and the risk rewrites. *)

\* _apply_position_cap.
ApplyPositionCap(i, r) ==
  IF r = NoRegime \/ i.target <= MaxPositionWeight(r) THEN i
  ELSE [i EXCEPT !.target = MaxPositionWeight(r)]

\* Mutant: a tail within the budget keeps the target.
VetoOrDecayTailOnly(i, cap) ==
  LET candidate == IF i.target > cap THEN cap ELSE i.target
  IN  {[i EXCEPT !.target = w] : w \in 0 .. candidate} \cup {i}

\* TailRiskForecaster.veto_or_decay: the estimate may be beyond the budget or
\* not, so that what is left of the candidate is any part of it.
VetoOrDecay(i, cap) ==
  LET candidate == IF i.target > cap THEN cap ELSE i.target
  IN  {[i EXCEPT !.target = w] : w \in 0 .. candidate}

\* RiskVetoAgent.veto_or_adjust; a target of zero becomes a HOLD.
VetoOrAdjust(i, r, m) ==
  LET budget == IF r = NoRegime THEN MaxQty ELSE MaxPositionWeight(r)
      adjusted == IF i.target > budget THEN budget ELSE i.target
  IN  IF m.drawdown > MaxDrawdown \/ i.target > budget
      THEN [action |-> IF adjusted = 0 THEN "HOLD" ELSE i.action, target |-> adjusted]
      ELSE i

\* The intents that are executed for an intent.
SafeIntents(i, r, m, cap) ==
  IF ~config.veto THEN {i}
  ELSE IF config.metric = "historical_cvar" THEN VetoOrDecay(i, cap)
  ELSE {VetoOrAdjust(i, r, m)}

-----------------------------------------------------------------------------
(* UtilityMemoryManager, over the items of one ticker, oldest first: the day *)
(* and the tick of the decision, its regime, whether it was a crisis, its tail *)
(* in percent, and the length of its text.  Items are compared as records.    *)

\* _is_pinned.
IsPinned(item, today) == item.crisis /\ today - item.day <= PinDays

\* _score, in thousandths and without the pin's bonus; the redundancy is taken
\* against an empty selection.
Score(item, kind, today) ==
  (300 * 90) \div (90 + today - item.day) + 5 * item.tail + (IF item.regime = kind THEN 200 ELSE 40)

\* _token_estimate.
Cost(item) == item.length \div 4 + 24

\* What the items in S cost together.
CostOf(items, S) ==
  LET upTo[k \in 0 .. Len(items)] ==
        IF k = 0 THEN 0 ELSE upTo[k - 1] + (IF k \in S THEN Cost(items[k]) ELSE 0)
  IN  upTo[Len(items)]

\* Sorting in reverse leaves items of the same score in their order.
Better(items, kind, today, i, j) ==
  \/ Score(items[i], kind, today) > Score(items[j], kind, today)
  \/ Score(items[i], kind, today) = Score(items[j], kind, today) /\ i < j

ByScore(items, S, kind, today) ==
  [k \in 1 .. Cardinality(S) |->
     CHOOSE i \in S : Cardinality({j \in S : Better(items, kind, today, j, i)}) = k - 1]

\* Mutant: the loop ends at the first item that does not fit.
SpendOrStop(budget, cost) == IF cost <= budget THEN budget - cost ELSE 0

\* An item that does not fit is skipped.
Spend(budget, cost) == IF cost <= budget THEN budget - cost ELSE budget

\* retrieve, which the bridge calls without max_items: the pinned ones, one of
\* each that are equal, though the budget may fall below zero; then what fits.
Retrieve(items, kind, today) ==
  LET pinned == {i \in DOMAIN items : IsPinned(items[i], today) /\ \A j \in 1 .. i - 1 : items[j] # items[i]}
      others == {i \in DOMAIN items : \A j \in pinned : items[j] # items[i]}
      sorted == ByScore(items, others, kind, today)
      left[k \in 0 .. Len(sorted)] ==
        IF k = 0 THEN MemoryBudget - CostOf(items, pinned)
        ELSE Spend(left[k - 1], Cost(items[sorted[k]]))
  IN  pinned \cup {sorted[k] : k \in {m \in DOMAIN sorted : Cost(items[sorted[m]]) <= left[m - 1]}}

-----------------------------------------------------------------------------
BridgeInit ==
  /\ Init
  /\ config \in Configs
  /\ regime = NoRegime /\ intent = NoIntent /\ lastDebate = NoDate
  /\ lastDrawdown = Unset /\ nameCap = Percent(35) /\ hung = FALSE
  /\ decided = [regime |-> NoRegime, debated |-> FALSE, day |-> NoDate,
                intentDay |-> NoDate, failed |-> FALSE]

\* _execute_target_weight: what does not lead to an order is a NoTrade.
ExecuteTargetWeight(i) ==
  LET raw == IF i.target > longQty THEN i.target - longQty ELSE longQty - i.target
  IN  IF i.action = "HOLD" \/ raw < MinTrade \/ raw = 0 THEN NoTrade
      ELSE Decide(i.action, i.target)

\* What both outcomes of a decision have in common, up to the debate.
Begin(m, r) ==
  /\ phase = "decide" /\ fill = NoOrder /\ ~hung
  /\ regime' = r
  /\ lastDebate' = IF FullDebateTriggered(m) THEN Today ELSE lastDebate
  /\ lastDrawdown' = IF config.policy = "daily_full" THEN lastDrawdown ELSE m.drawdown
  /\ UNCHANGED <<config, hung>>
RegimeNow(m) ==
  IF ~config.macro THEN NoRegime ELSE IF NeedsRegimeRefresh THEN Infer(m) ELSE regime
Debates(m) == FullDebateTriggered(m) \/ intent = NoIntent

\* on_market_data_update, when nothing fails.
OnMarketDataUpdate(m) ==
  LET r == RegimeNow(m)
      cap == IF r = NoRegime \/ ~config.veto \/ config.metric # "historical_cvar"
             THEN nameCap ELSE MaxPositionWeight(r)
      raws == IF Debates(m) THEN {ApplyPositionCap(Parse(x, longQty), r) : x \in Readings} ELSE {intent}
  IN  /\ Begin(m, r)
      /\ nameCap' = cap
      /\ \E i \in raws : \E safe \in SafeIntents(i, r, m, cap) :
           /\ intent' = i
           /\ ExecuteTargetWeight(safe)
           /\ decided' = [regime |-> r, debated |-> Debates(m),
                          day |-> Today,
                          intentDay |-> IF Debates(m) THEN Today ELSE decided.intentDay,
                          failed |-> decided.failed /\ ~Debates(m)]

\* The debate raises: the controller has noted it all the same.
DebateFails(m) ==
  /\ Begin(m, RegimeNow(m))
  /\ Debates(m)
  /\ NoTrade
  /\ decided' = [decided EXCEPT !.failed = TRUE]
  /\ UNCHANGED <<intent, nameCap>>

\* A snapshot without data is answered at once.
EmptySnapshot ==
  /\ ~hung /\ NoTrade
  /\ UNCHANGED bridgeVars

\* The compact state, the regime or the injected context raises, before the
\* try: there is no DECISION_RESPONSE, and the clock waits for it.
FailsBeforeTry ==
  /\ phase = "decide" /\ fill = NoOrder /\ ~hung
  /\ hung' = TRUE
  /\ UNCHANGED <<vars, config, regime, intent, lastDebate, lastDrawdown, nameCap, decided>>

BridgeNext ==
  \/ /\ \/ \E c \in Candles : ExchangeTick(c)
        \/ ExchangeTickNoCandle \/ TraderTick \/ HandleFill
     /\ UNCHANGED bridgeVars
  \/ \E m \in Markets : OnMarketDataUpdate(m) \/ DebateFails(m)
  \/ EmptySnapshot \/ FailsBeforeTry

BridgeSpec == BridgeInit /\ [][BridgeNext]_<<vars, bridgeVars>>

-----------------------------------------------------------------------------
\* "cap single-name target_weight by regime max_position_weight": no order to
\* buy takes the position above the cap of the regime of its decision, though
\* an intent is reused under regimes it was not debated in, unless the risk
\* rewrite is switched off and the intent is an old one.
BuysStayWithinTheRegime ==
  order # NoOrder /\ order.side = "BUY" /\ config.macro /\ (config.veto \/ decided.debated) =>
    longQty + order.qty <= MaxPositionWeight(decided.regime)

\* A decision is taken on the regime of its month or week, and on an intent
\* that was debated less than n days before, unless a debate has failed since.
DecisionsAreFresh ==
  decided.day # NoDate =>
    /\ config.macro => decided.regime # NoRegime /\ Period(decided.regime.as_of) = Period(decided.day)
    /\ decided.failed \/ decided.debated \/ decided.day - decided.intentDay < ForceEvery

\* "Underweight: Reduce exposure, take partial profits", "Overweight: Favorable
\* outlook, gradually increase exposure" (agents/managers/portfolio_manager.py):
\* the intent that is read in a rendered decision does not go against the rating
\* that is read in it and stored in the log.
IntentFollowsTheRating ==
  \A text \in RenderedTexts :
    LET rating == ParseRating(text)
        target == Parse(ReadIntent(text), longQty).target
    IN  text.weight = Unset =>
          /\ rating \in {"underweight", "sell"} /\ longQty > 0 => target < longQty
          /\ rating \in {"overweight", "buy"} => target >= longQty

\* Decisions of two ticks of a date; a crisis comes in a regime of its own, and
\* a veto adds to the tail and to the text.
Items ==
  {x \in [day : {0, PinDays}, tick : {1, 2}, regime : {"neutral", "risk_off"}, crisis : BOOLEAN,
          tail : {0, 20}, length : {0, 96}] :
     (x.regime = "risk_off" <=> x.crisis) /\ (x.tail = 20 <=> x.length = 96)}

\* Every crisis of the last quarters is told, though the budget falls below
\* zero for it; beside them no more is told than there is room for, and an item
\* is left out only if it does not fit beside the better ones that are told.
CrisesAreRemembered ==
  tick = 0 => \A items \in [1 .. 3 -> Items], today \in {PinDays, PinDays + 1} :
    LET told == Retrieve(items, "neutral", today)
        crises == {i \in 1 .. 3 : items[i].crisis /\ today - items[i].day <= PinDays}
    IN  /\ \A i \in crises : \E j \in told : items[j] = items[i]
        /\ told \subseteq crises \/ CostOf(items, told) <= MemoryBudget
        /\ \A i \in (1 .. 3) \ (told \cup crises) :
             LET better == {j \in told : j \in crises \/ Better(items, "neutral", today, j, i)}
             IN  CostOf(items, better) + Cost(items[i]) > MemoryBudget
=============================================================================
