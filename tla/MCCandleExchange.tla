-------------------------- MODULE MCCandleExchange --------------------------
(* Small books: a few candles of three prices and the orders that tell the *)
(* cases of _get_trigger_price apart.                                      *)
EXTENDS CandleExchange

CONSTANTS s1, s2

OHLC(o, h, l, c) == [open |-> o, high |-> h, low |-> l, close |-> c]
Ord(s, side, type, price, group) ==
  [sender |-> s, side |-> side, type |-> type, price |-> price, group |-> group]

\* Rising and falling through the whole range, without a first or a last
\* move, and standing still.
MCCandles == {OHLC(2, 3, 1, 3), OHLC(2, 3, 1, 1), OHLC(1, 3, 1, 2), OHLC(2, 2, 2, 2)}

\* Every type on either side, and groups of two traders with one name.
MCRequests ==
  {Ord(s1, "BUY", "MARKET", 0, NoGroup), Ord(s1, "BUY", "LIMIT", 1, NoGroup),
   Ord(s1, "SELL", "LIMIT", 2, NoGroup), Ord(s1, "BUY", "STOP", 3, NoGroup),
   Ord(s1, "SELL", "STOP", 1, 7), Ord(s1, "SELL", "LIMIT", 3, 7),
   Ord(s2, "SELL", "LIMIT", 3, 7)}
=============================================================================
