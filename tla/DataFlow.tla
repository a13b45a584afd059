------------------------------ MODULE DataFlow ------------------------------
(***************************************************************************)
(* How the agents' tools come to their data: the process's configuration   *)
(* (dataflows/config.py), the chain of vendors of a method (interface.py), *)
(* and the files the price adapters keep (stockstats_utils.py,             *)
(* ashare_adapter.py).  A tool node runs the calls of a message in         *)
(* threads, so that calls overlap; a process may die while it writes a     *)
(* file; the real date goes on.                                            *)
(***************************************************************************)
EXTENDS VendorAdapters, Filters, SequencesExt

CONSTANTS
  Callers,
  Configs,         \* what graphs give set_config: [data, tools]
  Asked,           \* the methods that are called
  Dates,           \* the dates asked about
  MaxCalls,        \* bound: calls in all
  FirstDay, LastDay

ASSUME DataFlowAssumption ==
  /\ Dates \subseteq Nat /\ MaxCalls \in Nat /\ FirstDay \in Nat /\ LastDay \in Nat

VARIABLES config, today, calls, yahoo, akshare, calendars, call

vars == <<config, today, calls, yahoo, akshare, calendars, call>>

-----------------------------------------------------------------------------
\* TOOLS_CATEGORIES.
Tools == [core_stock_apis |-> {"get_stock_data"},
          technical_indicators |-> {"get_indicators"},
          fundamental_data |-> {"get_fundamentals", "get_statement"},
          news_data |-> {"get_news", "get_insider_transactions"},
          macro_data |-> {"get_macro_indicators"},
          prediction_markets |-> {"get_prediction_markets"}]
Categories == DOMAIN Tools
OptionalCategories == {"macro_data", "prediction_markets"}

\* VENDOR_METHODS; the three statements, and the two kinds of news, are one.
VendorMethods(method) ==
  CASE method \in {"get_stock_data", "get_indicators", "get_fundamentals"} ->
         <<"akshare", "alpha_vantage", "yfinance">>
    [] method \in {"get_statement", "get_news", "get_insider_transactions"} ->
         <<"alpha_vantage", "yfinance">>
    [] method = "get_macro_indicators" -> <<"fred">>
    [] method = "get_prediction_markets" -> <<"polymarket">>

\* What may be asked for, and what a configuration names: vendors by name.
ASSUME AskedAssumption == Asked \subseteq UNION {Tools[c] : c \in Categories}
ASSUME ConfigsAssumption ==
  \A cf \in Configs : /\ \A c \in DOMAIN cf.data : cf.data[c] \in Seq(STRING)
                      /\ \A m \in DOMAIN cf.tools : cf.tools[m] \in Seq(STRING)

GetCategoryForMethod(method) == CHOOSE c \in Categories : method \in Tools[c]

\* get_vendor: the tool before the category; no entry is <<>>, "default".
GetVendor(method) ==
  LET c == GetCategoryForMethod(method)
  IN  IF method \in DOMAIN config.tools THEN config.tools[method]
      ELSE IF c \in DOMAIN config.data THEN config.data[c] ELSE <<>>

\* Mutant: with none of the chosen vendors, all are asked.
VendorChainOrAll(method) ==
  LET explicit == GetVendor(method)
      supported == KeepOnly(explicit, ToSet(VendorMethods(method)))
  IN  IF supported # <<>> THEN supported ELSE VendorMethods(method)

\* The chain of route_to_vendor; <<>> raises ValueError.
VendorChain(method) ==
  LET explicit == GetVendor(method)
  IN  IF explicit = <<>> THEN VendorMethods(method)
      ELSE KeepOnly(explicit, ToSet(VendorMethods(method)))

-----------------------------------------------------------------------------
Idle == [pc |-> "idle"]
At(c, pc) == call[c].pc = pc

Init ==
  /\ \E cf \in Configs : config = cf
  /\ today = FirstDay /\ calls = 0
  /\ yahoo = << >> /\ akshare = << >> /\ calendars = {}
  /\ call = [c \in Callers |-> Idle]

\* A function with the entries of a second one over it.
Over(f, g) == [x \in DOMAIN f \cup DOMAIN g |-> IF x \in DOMAIN g THEN g[x] ELSE f[x]]

\* set_config merges the dictionaries of a graph's configuration into those there are.
SetConfig(update) ==
  /\ config' = [data |-> Over(config.data, update.data), tools |-> Over(config.tools, update.tools)]
  /\ UNCHANGED <<today, calls, yahoo, akshare, calendars, call>>

\* A call that starts: it has been told nothing, has tried no vendor, read no
\* file and got no answer that could not be parsed.
Start(pc, method, s, date, known, dated, chosen, chain, reply) ==
  [pc |-> pc, method |-> method, symbol |-> s, date |-> date, known |-> known, dated |-> dated,
   chosen |-> chosen, chain |-> chain, began |-> today, tried |-> <<>>, parsed |-> TRUE,
   again |-> FALSE, day |-> date, got |-> {}, frame |-> {}, file |-> <<>>, reply |-> reply]

\* A tool is called; known says whether the vendors know the indicator it
\* names, dated whether it gives its date, which only statements may leave out.
Named == {"get_indicators", "get_macro_indicators"}
RouteToVendor(c, method, s, date, known, dated) ==
  LET chain == VendorChain(method)
      pc == IF chain = <<>> THEN "done" ELSE "try"
      reply == IF chain = <<>> THEN Unknown ELSE Outcome("none")
  IN  /\ At(c, "idle") /\ calls < MaxCalls
      /\ known \/ method \in Named
      /\ dated \/ method = "get_statement"
      /\ calls' = calls + 1
      /\ call' = [call EXCEPT ![c] = Start(pc, method, s, date, known, dated,
                                           GetVendor(method), chain, reply)]
      /\ UNCHANGED <<config, today, yahoo, akshare, calendars>>

\* build_verified_market_snapshot reads the cached prices without the router,
\* whatever vendors the configuration names for prices.
BuildVerifiedMarketSnapshot(c, s, date) ==
  /\ At(c, "idle") /\ calls < MaxCalls
  /\ calls' = calls + 1
  /\ call' = [call EXCEPT ![c] = Start("try", "get_verified_market_snapshot", s, date, TRUE, TRUE,
                                       GetVendor("get_stock_data"), <<"yfinance">>, Outcome("none"))]
  /\ UNCHANGED <<config, today, yahoo, akshare, calendars>>

-----------------------------------------------------------------------------
(* One vendor after the other. *)

Vendor(c) == call[c].chain[Len(call[c].tried) + 1]
Kinds(c) == {call[c].tried[i] : i \in DOMAIN call[c].tried}
Answers == {"told", "text"}

\* What route_to_vendor makes of the end of a chain.
Verdict(method, tried) ==
  LET kinds == ToSet(tried)
      first == KeepOnly(tried, {"failed", "unknown", "not_configured"})
  IN  IF "no_data" \in kinds THEN Outcome("NO_DATA_AVAILABLE")
      ELSE IF first = <<>> THEN Outcome("raised")
      ELSE IF GetCategoryForMethod(method) \in OptionalCategories THEN Outcome("DATA_UNAVAILABLE")
      ELSE IF method = "get_indicators" /\ first[1] \in {"unknown", "not_configured"} THEN Text
      ELSE Outcome("raised")

\* The outcome of a vendor: an answer is returned, the next vendor is tried, or
\* the chain has ended.
Receive(cl, outcome) ==
  LET tried == Append(cl.tried, outcome.kind)
  IN  IF outcome.kind \in Answers THEN [cl EXCEPT !.tried = tried, !.pc = "done", !.reply = outcome]
      ELSE IF cl.method = "get_verified_market_snapshot"
      THEN [cl EXCEPT !.tried = tried, !.pc = "done", !.reply = Outcome("raised")]
      ELSE IF Len(tried) = Len(cl.chain)
      THEN [cl EXCEPT !.tried = tried, !.pc = "done", !.reply = Verdict(cl.method, tried)]
      ELSE [cl EXCEPT !.tried = tried, !.pc = "try", !.again = FALSE]

\* The vendor functions that keep no file, at a time of today.
YahooOutcome(cl, now, tries) ==
  LET s == cl.symbol d == cl.date
  IN  CASE cl.method = "get_stock_data" -> GetYFinDataOnline(s, d, today, tries)
        [] cl.method = "get_fundamentals" -> GetFundamentals(s, today, tries)
        [] cl.method = "get_statement" -> GetStatement(s, d, cl.dated, today, tries)
        [] cl.method = "get_news" -> GetNewsYFinance(s, d, now, tries)
        [] cl.method = "get_insider_transactions" -> GetInsiderTransactions(s, today, tries)
AlphaOutcome(cl, now, tries) ==
  LET s == cl.symbol d == cl.date
  IN  CASE cl.method = "get_stock_data" -> GetStock(s, d, cl.parsed, today, tries)
        [] cl.method = "get_indicators" -> IF cl.known THEN GetIndicator(s, d, today, tries) ELSE Unknown
        [] cl.method = "get_fundamentals" -> GetOverview(today, tries)
        [] cl.method = "get_statement" -> GetReports(s, d, cl.dated, cl.parsed, today, tries)
        [] cl.method = "get_news" -> GetAlphaNews(s, d, now, tries)
        [] cl.method = "get_insider_transactions" -> GetAlphaInsiders(s, today, tries)
OutcomeOf(v, cl, now, tries) ==
  CASE v = "yfinance" -> YahooOutcome(cl, now, tries)
    [] v = "alpha_vantage" -> AlphaOutcome(cl, now, tries)
    [] v = "fred" -> GetMacroData(cl.known, cl.symbol, cl.date, today, tries)
    [] v = "polymarket" -> GetPredictionMarkets(today, tries)
    [] v = "akshare" -> GetAshareFundamentals

ReadsYahooFile(c) ==
  /\ Vendor(c) = "yfinance"
  /\ call[c].method \in {"get_indicators", "get_verified_market_snapshot"}
ReadsAkshareFile(c) ==
  Vendor(c) = "akshare" /\ call[c].method \in {"get_stock_data", "get_indicators"}

\* The prices or statements Alpha Vantage sends may be such as cannot be parsed.
FiltersItself == {"get_stock_data", "get_statement"}
TryVendor(c) ==
  /\ At(c, "try") /\ ~ReadsYahooFile(c) /\ ~ReadsAkshareFile(c)
  /\ \E tries \in Tries, now \in {2 * today, 2 * today + 1}, parsed \in BOOLEAN :
       /\ ~parsed => Vendor(c) = "alpha_vantage" /\ call[c].method \in FiltersItself
       /\ LET cl == [call[c] EXCEPT !.parsed = parsed]
          IN  call' = [call EXCEPT ![c] = Receive(cl, OutcomeOf(Vendor(c), cl, now, tries))]
  /\ UNCHANGED <<config, today, calls, yahoo, akshare, calendars>>

-----------------------------------------------------------------------------
(* The prices of Yahoo: a file per symbol and real day. *)

\* The name of the file has the window in it.
YahooKey(s) == <<s, today>>

\* The fallback of get_stock_stats_indicators_window, one date at a time from
\* the last: each is read as of that date, and no data for one of them end it.
NextDate(cl, loaded) ==
  LET got == cl.got \cup GetStockstatsIndicator(loaded, cl.day)
      end == [cl EXCEPT !.day = cl.date, !.got = {}]
  IN  IF loaded.kind = "no_data" THEN Receive(end, loaded)
      ELSE IF cl.day = cl.date - LookBack THEN Receive(end, RowsOrText(got))
      ELSE [cl EXCEPT !.day = cl.day - 1, !.got = got]

\* What the caller makes of the frame, or of the error: an indicator window
\* falls back after an error that is not NoMarketDataError.
Read(cl, loaded) ==
  IF cl.method = "get_verified_market_snapshot"
  THEN Receive(cl, IF loaded = Told({}) THEN Failed ELSE loaded)
  ELSE IF cl.again THEN NextDate(cl, loaded)
  ELSE IF loaded.kind = "failed" THEN [cl EXCEPT !.again = TRUE]
  ELSE Receive(cl, IndicatorsWindow(loaded, cl.date))

\* The date load_ohlcv is called with.
CurrDate(cl) == IF cl.again THEN cl.day ELSE cl.date

\* load_ohlcv, when the file has rows.
LoadOhlcv(c) ==
  /\ At(c, "try") /\ ReadsYahooFile(c) /\ call[c].known
  /\ LET key == YahooKey(call[c].symbol)
     IN  /\ key \in DOMAIN yahoo /\ yahoo[key] # {}
         /\ call' = [call EXCEPT ![c] = Read(call[c], FrameUntil(yahoo[key], CurrDate(call[c])))]
  /\ UNCHANGED <<config, today, calls, yahoo, akshare, calendars>>

\* read_csv raises on a file that was truncated and has not even its header.
ReadTruncated(c) ==
  /\ At(c, "try") /\ ReadsYahooFile(c) /\ call[c].known
  /\ LET key == YahooKey(call[c].symbol) IN key \in DOMAIN yahoo /\ yahoo[key] = {}
  /\ call' = [call EXCEPT ![c] = Read(call[c], Failed)]
  /\ UNCHANGED <<config, today, calls, yahoo, akshare, calendars>>

\* An indicator that is not in the table.
RejectIndicator(c) ==
  /\ At(c, "try") /\ ReadsYahooFile(c) /\ ~call[c].known
  /\ call' = [call EXCEPT ![c] = Receive(call[c], Unknown)]
  /\ UNCHANGED <<config, today, calls, yahoo, akshare, calendars>>

\* load_ohlcv downloads; the file is truncated, and has some first rows.  A
\* download that fails raises, or gives no rows.
DownloadOhlcv(c) ==
  LET s == call[c].symbol
      key == YahooKey(s)
      rows == Between(Trades[s], today - CacheYears, today, today)
  IN  /\ At(c, "try") /\ ReadsYahooFile(c) /\ call[c].known
      /\ key \in DOMAIN yahoo => yahoo[key] = {}
      /\ \/ /\ \E tries \in Tries :
                 \E loaded \in IF YfRetry(tries) # "ok" THEN {NoData, Failed}
                              ELSE IF rows = {} THEN {NoData} ELSE {} :
                   call' = [call EXCEPT ![c] = Read(call[c], loaded)]
            /\ UNCHANGED yahoo
         \/ /\ rows # {} /\ \E tries \in Tries : YfRetry(tries) = "ok"
            /\ \E last \in {-1} \cup {r.day : r \in rows} :
                 yahoo' = Over(yahoo, [k \in {key} |-> {r \in rows : r.day <= last}])
            /\ call' = [call EXCEPT ![c].pc = "writing", ![c].frame = rows, ![c].file = key]
      /\ UNCHANGED <<config, today, calls, akshare, calendars>>

\* The rest of the file; the caller goes on with what it downloaded.
WriteOhlcv(c) ==
  LET cl == call[c]
      back == [cl EXCEPT !.pc = "try", !.frame = {}, !.file = <<>>]
  IN  /\ At(c, "writing")
      /\ yahoo' = [yahoo EXCEPT ![cl.file] = cl.frame]
      /\ call' = [call EXCEPT ![c] = Read(back, FrameUntil(cl.frame, CurrDate(cl)))]
      /\ UNCHANGED <<config, today, calls, akshare, calendars>>

-----------------------------------------------------------------------------
(* The prices of AkShare: a file per symbol and window. *)

\* load_ohlcv_df with get_trade_calendar, and get_stock_csv or get_indicator_window.
LoadOhlcvDf(c) ==
  LET s == call[c].symbol
      d == call[c].date
      key == <<s, d - LookBack, d>>
      cached == key \in DOMAIN akshare
      frame == IF cached THEN akshare[key] ELSE Between(Trades[s], d - LookBack, d, today)
  IN  /\ At(c, "try") /\ ReadsAkshareFile(c)
      /\ \E prices, calendar \in Tries :
           LET got == cached \/ WithRetry(prices) = "ok"
               dated == <<d - LookBack, d>> \in calendars \/ WithRetry(calendar) = "ok"
           IN  /\ akshare' = IF got /\ frame # {} THEN Over(akshare, [k \in {key} |-> frame]) ELSE akshare
               /\ calendars' = IF got /\ frame # {} /\ dated THEN calendars \cup {<<d - LookBack, d>>}
                               ELSE calendars
               /\ call' = [call EXCEPT ![c] =
                    Receive(call[c], IF ~got THEN Failed
                                     ELSE IF frame = {} THEN NoData
                                     ELSE IF ~dated THEN Failed
                                     ELSE IF ~call[c].known THEN Failed ELSE Told(frame))]
      /\ UNCHANGED <<config, today, calls, yahoo>>

-----------------------------------------------------------------------------
Return(c) ==
  /\ At(c, "done")
  /\ call' = [call EXCEPT ![c] = Idle]
  /\ UNCHANGED <<config, today, calls, yahoo, akshare, calendars>>

\* The process is killed with all its calls.
Die ==
  /\ \E c \in Callers : ~At(c, "idle") /\ ~At(c, "done")
  /\ call' = [c \in Callers |-> Idle]
  /\ UNCHANGED <<config, today, calls, yahoo, akshare, calendars>>

NewDay ==
  /\ today < LastDay
  /\ today' = today + 1
  /\ UNCHANGED <<config, calls, yahoo, akshare, calendars, call>>

Next ==
  \/ NewDay \/ Die \/ \E cf \in Configs : SetConfig(cf)
  \/ \E c \in Callers :
       \/ \E m \in Asked, s \in Symbols, d \in Dates, known, dated \in BOOLEAN :
            RouteToVendor(c, m, s, d, known, dated)
       \/ \E s \in Symbols, d \in Dates : BuildVerifiedMarketSnapshot(c, s, d)
       \/ TryVendor(c) \/ LoadOhlcv(c) \/ ReadTruncated(c) \/ RejectIndicator(c) \/ DownloadOhlcv(c) \/ WriteOhlcv(c)
       \/ LoadOhlcvDf(c) \/ Return(c)

Spec == Init /\ [][Next]_vars

-----------------------------------------------------------------------------
Answered(c) == At(c, "done") /\ call[c].reply.kind = "told"
By(c) == call[c].chain[Len(call[c].tried)]

\* What has no date it could be cut at.
WithoutDate == {"get_fundamentals", "get_insider_transactions", "get_prediction_markets"}
Unparsed(c) == By(c) = "alpha_vantage" /\ call[c].method \in FiltersItself /\ ~call[c].parsed

\* "Rows after curr_date are filtered out so backtests never see future prices":
\* whatever file, vendor or fallback an answer comes from, prices, indicators,
\* statements, macro data and news, asked for up to a date, have nothing about
\* a day after it (of news: after the midnight that ends it), and news without
\* a time only when the date is the present or the day before.  Outside are the
\* calls that give no date, and what Alpha Vantage sends and cannot be parsed.
NothingFromTheFuture ==
  \A c \in Callers :
    Answered(c) /\ call[c].method \notin WithoutDate /\ call[c].dated /\ ~Unparsed(c) =>
      \A r \in call[c].reply.rows : /\ r.day <= call[c].date
                                    /\ r.day < 0 => call[c].date >= r.on - 1

\* "to prevent look-ahead bias": the same of every answer to a call with a
\* date, which the code does not keep.
NothingAtAllFromTheFuture ==
  \A c \in Callers :
    Answered(c) /\ call[c].method \notin WithoutDate \ {"get_fundamentals"} /\ call[c].dated =>
      \A r \in call[c].reply.rows : r.day <= call[c].date

\* "Reject a stale frame (latest row far older than curr_date)": prices,
\* snapshots and indicators of Yahoo never end long before the date, even from
\* a file that was left half written, unless the indicators were put together
\* date by date; and all of them are no older than the call.
PriceMethods == {"get_stock_data", "get_indicators", "get_verified_market_snapshot"}
YahooPricesAreFresh ==
  \A c \in Callers :
    Answered(c) /\ By(c) = "yfinance" /\ call[c].method \in PriceMethods =>
      /\ call[c].again \/ \E r \in call[c].reply.rows : call[c].date - r.day <= MaxStale
      /\ \A r \in call[c].reply.rows : r.on >= call[c].began

\* The same of every answer, which the fallback does not keep: the last dates
\* fail and are left blank, older ones do not.
IndicatorsEndNearTheDate ==
  \A c \in Callers :
    Answered(c) /\ By(c) = "yfinance" /\ call[c].method = "get_indicators" =>
      \E r \in call[c].reply.rows : call[c].date - r.day <= MaxStale

\* "we do NOT silently fall back to vendors the user did not choose": the router
\* asks a vendor only if the configuration at the call named it, or named none;
\* and that there are no data is only said when every vendor of the chain was
\* asked and one of them said so.
OnlyChosenVendors ==
  \A c \in Callers :
    /\ ~At(c, "idle") /\ call[c].method # "get_verified_market_snapshot"
       /\ call[c].chosen # <<>> /\ call[c].tried # <<>> =>
         By(c) \in ToSet(call[c].chosen)
    /\ At(c, "done") /\ call[c].reply.kind = "NO_DATA_AVAILABLE" =>
         Len(call[c].tried) = Len(call[c].chain) /\ "no_data" \in Kinds(c)

\* The same of the snapshot, which has no router: it asks Yahoo when only
\* others are chosen for prices.
SnapshotsAskTheChosen ==
  \A c \in Callers :
    ~At(c, "idle") /\ call[c].method = "get_verified_market_snapshot"
    /\ call[c].chosen # <<>> /\ call[c].tried # <<>> =>
      By(c) \in ToSet(call[c].chosen)

\* What is said of a symbol is what its vendor has: no answer, and no verdict,
\* of Yahoo's prices misses a row there was when it was given.
NoRowIsMissing ==
  \A c \in Callers :
    At(c, "done") /\ call[c].method = "get_verified_market_snapshot" /\ "told" \in Kinds(c) =>
      \A d \in Trades[call[c].symbol] :
        call[c].began - CacheYears <= d /\ d <= call[c].date =>
          \E r \in call[c].reply.rows : r.day = d

\* "no exceptions surface from here" (agents/analysts/sentiment_analyst.py): the
\* news the sentiment analyst reads before its model is asked do not raise.
NewsNeverRaise ==
  \A c \in Callers :
    At(c, "done") /\ call[c].method = "get_news" => call[c].reply.kind # "raised"

\* "Core categories (prices, fundamentals, news) still raise so a broken primary
\* is loud": a failure of the only vendor is not answered with text.
CoreFailuresAreLoud ==
  \A c \in Callers :
    At(c, "done") /\ call[c].method = "get_statement" /\ Reports[call[c].symbol] # {} =>
      call[c].reply.kind # "text"
=============================================================================
