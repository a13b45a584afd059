--------------------------- MODULE VendorAdapters ---------------------------
(***************************************************************************)
(* What the vendor functions under dataflows/ make of a request: operators *)
(* from what a vendor has and how its connection behaves to the outcome    *)
(* the router sees.  A frame is a set of rows [day, on]: what is about a   *)
(* day, fetched on another.  Days are numbers, and times half days: day d   *)
(* begins at time 2 * d.                                                   *)
(***************************************************************************)
EXTENDS Integers, Sequences, FiniteSets

CONSTANTS
  Symbols,
  Trades,          \* the days each symbol trades on
  Reports,         \* the fiscal days its statements are of
  Articles,        \* its news: <<the time it came out, the time it bears>>
  Keys,            \* the vendors whose API key is in the environment
  LookBack,        \* days asked for before the date
  CacheYears,      \* the window of the Yahoo cache, in days
  MaxStale,        \* MAX_OHLCV_STALE_DAYS
  MaxRetries

ASSUME AdaptersAssumption ==
  /\ \A s \in Symbols : /\ Trades[s] \subseteq Nat /\ Reports[s] \subseteq Nat
                        /\ Articles[s] \subseteq Nat \X (Nat \ {0})
  /\ LookBack \in Nat /\ CacheYears \in Nat /\ MaxStale \in Nat /\ MaxRetries \in Nat

\* How one request to a vendor ends, and what a sequence of tries may be.
Ends == {"ok", "limited", "down"}
Tries == [1 .. MaxRetries + 1 -> Ends]

Told(rows) == [kind |-> "told", rows |-> rows]
Outcome(kind) == [kind |-> kind, rows |-> {}]
Text == Outcome("text")
NoData == Outcome("no_data")
Failed == Outcome("failed")
\* A ValueError about the arguments, and the errors of errors.py.
Unknown == Outcome("unknown")
NotConfigured == Outcome("not_configured")
RateLimited == Outcome("rate_limited")

\* The rows there are on a real day, of an interval.
Between(days, from, to, today) ==
  {[day |-> d, on |-> today] : d \in {e \in days : from <= e /\ e <= to /\ e <= today}}
RowsOrText(rows) == IF rows = {} THEN Text ELSE Told(rows)
RowsOrNoData(rows) == IF rows = {} THEN NoData ELSE Told(rows)

-----------------------------------------------------------------------------
(* Yahoo. *)

\* The first try that does not end in bad, or else the last.
FirstNot(bad, tries) ==
  LET good == {i \in DOMAIN tries : tries[i] \notin bad}
  IN  IF good = {} THEN tries[Len(tries)]
      ELSE tries[CHOOSE i \in good : \A j \in good : i <= j]

\* yf_retry repeats what is rate limited, and nothing else.
YfRetry(tries) ==
  LET end == FirstNot({"limited"}, tries) IN IF end = "ok" THEN "ok" ELSE "error"

\* _assert_ohlcv_not_stale.
Stale(rows, date) == rows # {} /\ \A r \in rows : date - r.day > MaxStale

\* get_YFin_data_online: the end is inclusive.
GetYFinDataOnline(s, date, today, tries) ==
  LET rows == Between(Trades[s], date - LookBack, date, today)
  IN  IF YfRetry(tries) # "ok" THEN Failed
      ELSE IF Stale(rows, date) THEN NoData ELSE RowsOrNoData(rows)

\* Mutant: the check is made on the frame before it is cut.
FrameUntilOfTheFrame(frame, date) ==
  IF Stale(frame, date) THEN NoData ELSE Told({r \in frame : r.day <= date})

\* The end of load_ohlcv: cut at the date, then checked.
FrameUntil(frame, date) ==
  LET rows == {r \in frame : r.day <= date}
  IN  IF Stale(rows, date) THEN NoData ELSE Told(rows)

\* get_stock_stats_indicators_window, of what load_ohlcv gave.  An error that
\* is not NoMarketDataError is for the fallback, one date at a time.
IndicatorsWindow(loaded, date) ==
  IF loaded.kind # "told" THEN loaded
  ELSE RowsOrText({r \in loaded.rows : date - LookBack <= r.day})

\* get_stockstats_indicator, of what load_ohlcv gave as of a day: the row of
\* that very day; other errors than NoMarketDataError leave a blank.
GetStockstatsIndicator(loaded, day) ==
  IF loaded.kind = "told" THEN {r \in loaded.rows : r.day = day} ELSE {}

\* Mutant: all statements there are.
FilterFinancialsByDateNot(rows, date, dated) == rows
\* filter_financials_by_date: a call that gives no date is told everything.
FilterFinancialsByDate(rows, date, dated) ==
  IF dated THEN {r \in rows : r.day <= date} ELSE rows

\* get_balance_sheet, get_cashflow and get_income_statement: errors are text.
GetStatement(s, date, dated, today, tries) ==
  IF YfRetry(tries) # "ok" THEN Text
  ELSE RowsOrNoData(FilterFinancialsByDate(Between(Reports[s], 0, today, today), date, dated))

\* get_fundamentals is about the real day, whatever the date.
GetFundamentals(s, today, tries) ==
  IF YfRetry(tries) # "ok" THEN Text
  ELSE IF Trades[s] = {} THEN NoData ELSE Told({[day |-> today, on |-> today]})

\* An article that bears no time, and the day of one that does: the midnight
\* that ends a day is of that day.
NoTime == -1
DayOf(time) == (time - 1) \div 2

\* _in_news_window, with the time zone of the article dropped.
InNewsWindow(time, from, to, now) ==
  IF time # NoTime THEN 2 * from <= time /\ time <= 2 * (to + 1) ELSE 2 * to >= now - 2

\* get_news_yfinance and get_global_news_yfinance: errors are text.
GetNewsYFinance(s, date, now, tries) ==
  LET times == {a[2] : a \in {a \in Articles[s] : a[1] <= now}} \cup {NoTime}
      kept == {t \in times : InNewsWindow(t, date - LookBack, date, now)}
  IN  IF YfRetry(tries) # "ok" THEN Text
      ELSE RowsOrText({[day |-> DayOf(t), on |-> now \div 2] : t \in kept})

\* get_insider_transactions: all there are, of any date.
GetInsiderTransactions(s, today, tries) ==
  IF YfRetry(tries) # "ok" THEN Text ELSE RowsOrText(Between(Reports[s], 0, today, today))

-----------------------------------------------------------------------------
(* Alpha Vantage: one try. *)

\* get_api_key and _make_api_request.
ApiRequest(vendor, tries) ==
  IF vendor \notin Keys THEN NotConfigured
  ELSE CASE tries[1] = "ok" -> Told({})
         [] tries[1] = "limited" -> RateLimited
         [] tries[1] = "down" -> Failed
AlphaVantage(tries, rows) ==
  LET got == ApiRequest("alpha_vantage", tries)
  IN  IF got.kind = "told" THEN RowsOrText(rows) ELSE got

\* get_stock: _filter_csv_by_date_range lets everything pass if it cannot parse it.
GetStock(s, date, parsed, today, tries) ==
  AlphaVantage(tries, IF parsed THEN Between(Trades[s], date - LookBack, date, today)
                      ELSE Between(Trades[s], 0, today, today))

\* get_indicator, which skips the lines it cannot parse: a rate limit is text as well.
GetIndicator(s, date, today, tries) ==
  LET got == AlphaVantage(tries, Between(Trades[s], date - LookBack, date, today))
  IN  IF got.kind \in {"rate_limited", "failed"} THEN Text ELSE got

\* _filter_reports_by_date, of the three statements, which leaves a body that is
\* no JSON as it is.
FilterReportsByDate(rows, date, dated, parsed) ==
  IF dated /\ parsed THEN {r \in rows : r.day <= date} ELSE rows
GetReports(s, date, dated, parsed, today, tries) ==
  AlphaVantage(tries, FilterReportsByDate(Between(Reports[s], 0, today, today), date, dated, parsed))
GetOverview(today, tries) == AlphaVantage(tries, {[day |-> today, on |-> today]})

\* get_news and get_global_news: the window, between the midnights that begin
\* its days, is a parameter of the request.
GetAlphaNews(s, date, now, tries) ==
  LET times == {a[2] : a \in {a \in Articles[s] : a[1] <= now}}
      kept == {t \in times : 2 * (date - LookBack) <= t /\ t <= 2 * date}
  IN  AlphaVantage(tries, {[day |-> DayOf(t), on |-> now \div 2] : t \in kept})
GetAlphaInsiders(s, today, tries) == AlphaVantage(tries, Between(Reports[s], 0, today, today))

-----------------------------------------------------------------------------
(* FRED, Polymarket and AkShare. *)

\* get_macro_data: a phrase that is no series is answered with guidance.
GetMacroData(known, s, date, today, tries) ==
  IF ~known THEN Text
  ELSE LET got == ApiRequest("fred", tries)
       IN  IF got.kind = "told" THEN RowsOrText(Between(Reports[s], date - LookBack, date, today))
           ELSE IF got.kind = "rate_limited" THEN Failed ELSE got

\* get_prediction_markets: of now; network errors are text.
GetPredictionMarkets(today, tries) ==
  IF tries[1] = "ok" THEN Told({[day |-> today, on |-> today]}) ELSE Text

\* get_ashare_fundamentals: a stub.
GetAshareFundamentals == Text

\* AShareDataAdapter._with_retry repeats whatever fails.
WithRetry(tries) == FirstNot({"limited", "down"}, tries)
=============================================================================
