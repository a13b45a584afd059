----------------------------- MODULE MCDataFlow -----------------------------
(* One symbol with gaps in its days; two graphs, one of which names tools.   *)
EXTENDS DataFlow
CONSTANT s0
MCTrades == [x \in Symbols |-> {0, 1, 4, 5}]
MCReports == [x \in Symbols |-> {1, 4}]
MCArticles == [x \in Symbols |-> {<<4, 4>>, <<7, 8>>, <<8, 9>>, <<11, 12>>}]
MCDates == {3, 5}
All(vendors) == [c \in Categories |-> vendors]
MCConfigs ==
  {[data |-> [All(<<"yfinance">>) EXCEPT !.macro_data = <<"fred">>, !.prediction_markets = <<"polymarket">>],
    tools |-> << >>],
   [data |-> [core_stock_apis |-> <<"akshare", "alpha_vantage">>, fundamental_data |-> <<"fred", "alpha_vantage">>,
              news_data |-> <<"alpha_vantage">>, prediction_markets |-> <<"fred">>],
    tools |-> [get_indicators |-> <<"yfinance", "alpha_vantage">>]]}
MCAsked == UNION {Tools[c] : c \in Categories}
Alike == Permutations(Callers)
=============================================================================
