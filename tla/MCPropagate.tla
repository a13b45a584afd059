---------------------------- MODULE MCPropagate ----------------------------
(* Two tickers, two dates and two shapes of the graph, with an empty log and *)
(* with a log at its cap.                                                    *)
EXTENDS Propagate, TLC
MCDates == {0, 1}
MCLogs ==
  {<<>>} \cup {<<Entry(t, 0, 1), Entry(u, 0, 1), Entry(t, 0, Pending), Entry(u, 1, Pending)>> :
                t \in Tickers, u \in Tickers}
Alike == Permutations(Tickers) \cup Permutations(Shapes)
=============================================================================
