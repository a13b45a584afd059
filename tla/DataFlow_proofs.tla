-------------------------- MODULE DataFlow_proofs --------------------------
(***************************************************************************)
(* What the agents' data may be, for any number of callers, symbols, days, *)
(* retries and configurations: nothing about a day after the date asked    *)
(* for, no stale prices from Yahoo, and nothing from a vendor nobody chose.*)
(***************************************************************************)
EXTENDS DataFlow, Filters_proofs

Verified == "get_verified_market_snapshot"
Methods == {"get_stock_data", "get_indicators", "get_fundamentals", "get_statement",
            "get_news", "get_insider_transactions", "get_macro_indicators",
            "get_prediction_markets"}

Row == [day : Int, on : Int]
Vendors == {"akshare", "alpha_vantage", "yfinance", "fred", "polymarket"}
KindsTold == {"told", "text", "no_data", "failed", "unknown", "not_configured", "rate_limited"}
Outcomes == [kind : KindsTold \cup {"none", "raised", "NO_DATA_AVAILABLE", "DATA_UNAVAILABLE"},
             rows : SUBSET Row]
Calls == [pc : {"try", "writing", "done"}, method : Methods \cup {Verified}, symbol : Symbols,
          date : Nat, known : BOOLEAN, dated : BOOLEAN, chosen : Seq(STRING), chain : Seq(Vendors),
          began : Nat, tried : Seq(KindsTold), parsed : BOOLEAN,
          again : BOOLEAN, day : Int, got : SUBSET Row, frame : SUBSET Row,
          file : (Symbols \X Nat) \cup {<<>>}, reply : Outcomes]

\* The rows of one download of Yahoo's prices.
RowsOn(day) == [day : Nat, on : {day}]

\* What NothingFromTheFuture and YahooPricesAreFresh ask of the rows vendor v
\* answers a call with.
Cut(cl, v) ==
  /\ cl.method \notin WithoutDate /\ cl.dated
  /\ v = "alpha_vantage" /\ cl.method \in FiltersItself => cl.parsed
Past(cl, v, rows) ==
  Cut(cl, v) => \A r \in rows : r.day <= cl.date /\ (r.day < 0 => cl.date >= r.on - 1)
Fresh(cl, rows) ==
  cl.method \in PriceMethods =>
    /\ cl.again \/ \E r \in rows : cl.date - r.day <= MaxStale
    /\ \A r \in rows : r.on >= cl.began
Good(cl, v, rows) == Past(cl, v, rows) /\ (v = "yfinance" => Fresh(cl, rows))

NextVendor(cl) == cl.chain[Len(cl.tried) + 1]

\* A call asks along its chain, which has only vendors that serve the method
\* and, in the router, that were chosen when it began; while it writes a file
\* it has the rows of one download; what it has put together date by date is
\* of dates before its own, and no older than it is; and what it is told is good.
CallInv(cl) ==
  /\ cl.began <= today
  /\ cl.method # Verified /\ cl.chosen # <<>> => ToSet(cl.chain) \subseteq ToSet(cl.chosen)
  /\ cl.day <= cl.date
  /\ \A r \in cl.got : r.day \in 0 .. cl.date /\ r.on >= cl.began
  /\ cl.method # Verified => ToSet(cl.chain) \subseteq ToSet(VendorMethods(cl.method))
  /\ cl.method = Verified => cl.chain = <<"yfinance">>
  /\ Len(cl.tried) <= Len(cl.chain)
  /\ cl.pc # "done" => Len(cl.tried) < Len(cl.chain)
  /\ cl.pc = "writing" =>
       /\ cl.method \in {"get_indicators", Verified} /\ NextVendor(cl) = "yfinance"
       /\ cl.file \in Symbols \X Nat /\ cl.began <= cl.file[2]
       /\ cl.frame \subseteq RowsOn(cl.file[2])
  /\ cl.pc = "done" /\ cl.reply.kind = "NO_DATA_AVAILABLE" =>
       Len(cl.tried) = Len(cl.chain) /\ "no_data" \in ToSet(cl.tried)
  /\ cl.pc = "done" /\ cl.reply.kind = "told" =>
       Len(cl.tried) > 0 /\ Good(cl, cl.chain[Len(cl.tried)], cl.reply.rows)

ConfigInv ==
  /\ \A c \in DOMAIN config.data : config.data[c] \in Seq(STRING)
  /\ \A m \in DOMAIN config.tools : config.tools[m] \in Seq(STRING)

\* A file of Yahoo's is of one day, a file of AkShare's ends at its key's date.
FilesInv ==
  /\ \A k \in DOMAIN yahoo : yahoo[k] \subseteq RowsOn(k[2])
  /\ \A k \in DOMAIN akshare : akshare[k] \subseteq Row /\ \A r \in akshare[k] : 0 <= r.day /\ r.day <= k[3]

IInv ==
  /\ today \in Nat
  /\ ConfigInv
  /\ FilesInv
  /\ call \in [Callers -> Calls \cup {Idle}]
  /\ \A c \in Callers : call[c] # Idle => CallInv(call[c])

-----------------------------------------------------------------------------
(* The tools and their vendors.                                            *)

\* Every method that is asked for is one of Methods.
LEMMA AskedAreMethods == Asked \subseteq Methods
<1>1. \A c \in Categories : Tools[c] \subseteq Methods BY DEF Categories, Tools, Methods
<1> QED BY <1>1, AskedAssumption

\* Every method has vendors.
LEMMA VendorsOfMethod ==
  ASSUME NEW m \in Methods
  PROVE  VendorMethods(m) \in Seq(Vendors) /\ VendorMethods(m) # <<>>
<1>1. VendorMethods(m) \in {<<"akshare", "alpha_vantage", "yfinance">>,
        <<"alpha_vantage", "yfinance">>, <<"fred">>, <<"polymarket">>}
  BY DEF Methods, VendorMethods
<1>2. CASE VendorMethods(m) = <<"akshare", "alpha_vantage", "yfinance">> BY <1>2 DEF Vendors
<1>3. CASE VendorMethods(m) = <<"alpha_vantage", "yfinance">> BY <1>3 DEF Vendors
<1>4. CASE VendorMethods(m) = <<"fred">> BY <1>4 DEF Vendors
<1>5. CASE VendorMethods(m) = <<"polymarket">> BY <1>5 DEF Vendors
<1> QED BY <1>1, <1>2, <1>3, <1>4, <1>5

\* A sequence is one of what is in it.
LEMMA SeqOfItsSet ==
  ASSUME NEW S, NEW s \in Seq(S)
  PROVE  s \in Seq(ToSet(s))
<1>1. \A i \in 1 .. Len(s) : s[i] \in ToSet(s) BY DEF ToSet
<1> QED BY <1>1

\* What a configuration says of a method.
LEMMA ChosenType == ASSUME ConfigInv, NEW m PROVE GetVendor(m) \in Seq(STRING)
<1>1. <<>> \in Seq(STRING) OBVIOUS
<1> QED BY <1>1 DEF ConfigInv, GetVendor

\* The chain has only vendors of the method and, if any was chosen, chosen ones.
LEMMA ChainIsChosen ==
  ASSUME ConfigInv, NEW m \in Methods
  PROVE  /\ VendorChain(m) \in Seq(Vendors)
         /\ ToSet(VendorChain(m)) \subseteq ToSet(VendorMethods(m))
         /\ GetVendor(m) # <<>> => ToSet(VendorChain(m)) \subseteq ToSet(GetVendor(m))
<1> DEFINE chosen == GetVendor(m)
           served == ToSet(VendorMethods(m))
           kept == KeepOnly(chosen, served)
<1>1. chosen \in Seq(STRING) BY ChosenType
<1>2. kept \in Seq(ToSet(chosen) \cap served)
  BY <1>1, SeqOfItsSet, KeepOnlyType
<1>0. served \subseteq Vendors BY VendorsOfMethod DEF ToSet
<1>3. CASE chosen = <<>> BY <1>3, VendorsOfMethod DEF VendorChain
<1>4. CASE chosen # <<>>
  <2>1. VendorChain(m) = kept BY <1>4 DEF VendorChain
  <2> HIDE DEF kept, chosen, served
  <2>2. \A i \in DOMAIN kept : kept[i] \in ToSet(chosen) /\ kept[i] \in served BY <1>2
  <2>3. kept \in Seq(Vendors) BY <1>0, <1>2
  <2> QED BY <2>1, <2>2, <2>3 DEF ToSet, chosen, served
<1> QED BY <1>3, <1>4

-----------------------------------------------------------------------------
(* What the vendors answer with.                                           *)

\* The days of the data are numbers.
LEMMA DaysAreNumbers ==
  ASSUME NEW s \in Symbols
  PROVE  /\ Trades[s] \subseteq Nat /\ Reports[s] \subseteq Nat
         /\ Articles[s] \subseteq Nat \X (Nat \ {0})
BY AdaptersAssumption

\* Rows of an interval are rows of today, of days in it that have been.
LEMMA RowsBetween ==
  ASSUME NEW days \in SUBSET Nat, NEW from \in Int, NEW to \in Int, NEW day \in Nat
  PROVE  /\ Between(days, from, to, day) \subseteq RowsOn(day)
         /\ Between(days, from, to, day) \subseteq Row
         /\ \A r \in Between(days, from, to, day) : from <= r.day /\ r.day <= to /\ r.day <= day
BY DEF Between, RowsOn, Row

\* The times of articles a filter may keep, and the rows of such articles.
Kept(times, to, now) ==
  /\ times \subseteq Nat \cup {NoTime} /\ 0 \notin times
  /\ \A t \in times : IF t # NoTime THEN t <= 2 * (to + 1) ELSE 2 * to >= now - 2
RowsAt(times, now) == {[day |-> DayOf(t), on |-> now \div 2] : t \in times}

\* Articles a filter has kept are rows of today, whose days are those of their times.
LEMMA RowsOfNews ==
  ASSUME today \in Nat, NEW now \in {2 * today, 2 * today + 1}, NEW to \in Int,
         NEW times, Kept(times, to, now)
  PROVE  \A r \in RowsAt(times, now) :
           r \in Row /\ r.day <= to /\ (r.day < 0 => to >= r.on - 1)
<1> SUFFICES ASSUME NEW t \in times
             PROVE  /\ [day |-> DayOf(t), on |-> now \div 2] \in Row
                    /\ DayOf(t) <= to /\ (DayOf(t) < 0 => to >= now \div 2 - 1)
  BY DEF RowsAt
<1>0. /\ t \in Nat \cup {NoTime} /\ t # 0
      /\ IF t # NoTime THEN t <= 2 * (to + 1) ELSE 2 * to >= now - 2
  BY DEF Kept
<1>1. now \div 2 = today OBVIOUS
<1>2. CASE t = NoTime
  <2>1. DayOf(t) = -1 BY <1>2 DEF DayOf, NoTime
  <2>2. 2 * to >= 2 * today - 2 BY <1>0, <1>2
  <2> QED BY <1>1, <2>1, <2>2 DEF Row
<1>3. CASE t # NoTime
  <2>1. t \in Nat \ {0} /\ t <= 2 * (to + 1) BY <1>0, <1>3
  <2>2. DayOf(t) \in Nat /\ DayOf(t) <= to BY <2>1 DEF DayOf
  <2> QED BY <1>1, <2>2 DEF Row
<1> QED BY <1>2, <1>3

\* What route_to_vendor may be told by a vendor: an outcome that is not its
\* own verdict and whose rows, if there are any, are good.
Answer(cl, v, o) ==
  /\ o \in Outcomes /\ o.kind \in KindsTold
  /\ o.kind = "told" => Good(cl, v, o.rows)

\* What is not an answer is never bad.
LEMMA PlainOutcomes ==
  ASSUME NEW cl, NEW v
  PROVE  \A o \in {Text, NoData, Failed, Unknown, NotConfigured, RateLimited} : Answer(cl, v, o)
BY DEF Answer, Outcomes, KindsTold, Text, NoData, Failed, Unknown, NotConfigured, RateLimited, Outcome

LEMMA ToldIsAnswer ==
  ASSUME NEW cl, NEW v, NEW rows \in SUBSET Row, Good(cl, v, rows)
  PROVE  Answer(cl, v, Told(rows))
BY DEF Answer, Outcomes, KindsTold, Told

-----------------------------------------------------------------------------
(* What becomes of a call.                                                 *)

LEMMA VerdictIsTrue ==
  ASSUME NEW m, NEW tried \in Seq(KindsTold)
  PROVE  /\ Verdict(m, tried) \in Outcomes /\ Verdict(m, tried).kind # "told"
         /\ Verdict(m, tried).kind = "NO_DATA_AVAILABLE" => "no_data" \in ToSet(tried)
<1> DEFINE first == KeepOnly(tried, {"failed", "unknown", "not_configured"})
           optional == GetCategoryForMethod(m) \in OptionalCategories
<1>1. Verdict(m, tried) =
        IF "no_data" \in ToSet(tried) THEN Outcome("NO_DATA_AVAILABLE")
        ELSE IF first = <<>> THEN Outcome("raised")
        ELSE IF optional THEN Outcome("DATA_UNAVAILABLE")
        ELSE IF m = "get_indicators" /\ first[1] \in {"unknown", "not_configured"} THEN Text
        ELSE Outcome("raised")
  BY DEF Verdict
<1> HIDE DEF first, optional
<1> QED BY <1>1 DEF Outcome, Text, Outcomes, KindsTold

\* An answer from the vendor whose turn it is leaves the call in order.
LEMMA ReceiveKeeps ==
  ASSUME today \in Nat, NEW cl \in Calls, CallInv(cl), cl.pc = "try",
         NEW o, Answer(cl, NextVendor(cl), o)
  PROVE  Receive(cl, o) \in Calls /\ CallInv(Receive(cl, o))
<1> DEFINE tried == Append(cl.tried, o.kind)
           n == Len(cl.tried)
<1>1. o \in Outcomes /\ o.kind \in KindsTold BY DEF Answer
<1>2. /\ tried \in Seq(KindsTold) /\ Len(tried) = n + 1
      /\ cl.tried \in Seq(KindsTold) /\ cl.chain \in Seq(Vendors)
      /\ n \in Nat /\ Len(cl.chain) \in Nat /\ n < Len(cl.chain)
  BY <1>1 DEF Calls, CallInv
<1> HIDE DEF tried, n
<1>3. CASE o.kind \in Answers
  <2> DEFINE next == [cl EXCEPT !.tried = tried, !.pc = "done", !.reply = o]
  <2>1. Receive(cl, o) = next BY <1>3 DEF Receive, tried
  <2>2. next \in Calls BY <1>1, <1>2 DEF Calls
  <2>3. o.kind = "told" => Good(next, next.chain[n + 1], next.reply.rows)
    BY DEF Answer, NextVendor, n, Calls, Good, Past, Cut, Fresh
  <2>4. o.kind # "NO_DATA_AVAILABLE" BY DEF Answer, KindsTold
  <2>5. /\ next.pc = "done" /\ next.tried = tried /\ next.reply = o
        /\ next.method = cl.method /\ next.chain = cl.chain /\ next.chosen = cl.chosen
        /\ next.began = cl.began /\ next.date = cl.date /\ next.day = cl.day
        /\ next.got = cl.got
    BY DEF Calls
  <2>6. CallInv(next)
    <3> HIDE DEF next
    <3> QED BY <1>2, <2>3, <2>4, <2>5 DEF CallInv
  <2> QED BY <2>1, <2>2, <2>6
<1>4. CASE o.kind \notin Answers /\ cl.method = Verified
  <2> DEFINE next == [cl EXCEPT !.tried = tried, !.pc = "done", !.reply = Outcome("raised")]
  <2>1. Receive(cl, o) = next BY <1>4 DEF Receive, tried, Verified
  <2>2. next \in Calls
    <3>1. Outcome("raised") \in Outcomes BY DEF Outcome, Outcomes
    <3> QED BY <1>2, <3>1, ZenonT(60) DEF Calls
  <2>3. CallInv(next) BY <1>2 DEF Calls, CallInv, Outcome
  <2> QED BY <2>1, <2>2, <2>3
<1>5. CASE o.kind \notin Answers /\ cl.method # Verified /\ n + 1 = Len(cl.chain)
  <2> DEFINE end == Verdict(cl.method, tried)
             next == [cl EXCEPT !.tried = tried, !.pc = "done", !.reply = end]
  <2>1. Receive(cl, o) = next BY <1>2, <1>5 DEF Receive, tried, Verified
  <2>2. /\ end \in Outcomes /\ end.kind # "told"
        /\ end.kind = "NO_DATA_AVAILABLE" => "no_data" \in ToSet(tried)
    BY <1>2, VerdictIsTrue
  <2> HIDE DEF end
  <2>3. next \in Calls BY <1>2, <2>2, ZenonT(60) DEF Calls
  <2>4. CallInv(next) BY <1>2, <1>5, <2>2 DEF Calls, CallInv
  <2> QED BY <2>1, <2>3, <2>4
<1>6. CASE o.kind \notin Answers /\ cl.method # Verified /\ n + 1 # Len(cl.chain)
  <2> DEFINE next == [cl EXCEPT !.tried = tried, !.pc = "try", !.again = FALSE]
  <2>1. Receive(cl, o) = next BY <1>2, <1>6 DEF Receive, tried, Verified
  <2>2. next \in Calls BY <1>2 DEF Calls
  <2>3. CallInv(next) BY <1>2, <1>6 DEF Calls, CallInv
  <2> QED BY <2>1, <2>2, <2>3
<1> QED BY <1>3, <1>4, <1>5, <1>6

-----------------------------------------------------------------------------
(* What each vendor answers is good.                                       *)

\* The rows of an interval that ends at the date are past.
LEMMA IntervalIsPast ==
  ASSUME today \in Nat, NEW cl \in Calls, NEW v, v # "yfinance", NEW days \in SUBSET Nat,
         NEW from \in Int
  PROVE  Answer(cl, v, RowsOrText(Between(days, from, cl.date, today)))
<1> DEFINE rows == Between(days, from, cl.date, today)
<1>1. cl.date \in Int BY DEF Calls
<1>2. rows \in SUBSET Row /\ \A r \in rows : r.day <= cl.date
  BY <1>1, RowsBetween
<1>3. \A r \in rows : r.day >= 0 BY DEF Between
<1>4. Good(cl, v, rows) BY <1>2, <1>3 DEF Good, Past, Cut, Row
<1> HIDE DEF rows
<1> QED BY <1>2, <1>4, ToldIsAnswer, PlainOutcomes DEF RowsOrText, rows

\* Methods without a date may be answered with any rows.
LEMMA UndatedIsGood ==
  ASSUME NEW cl, cl.method \in WithoutDate, NEW v, NEW rows \in SUBSET Row
  PROVE  Answer(cl, v, Told(rows))
<1>1. Good(cl, v, rows) BY DEF Good, Past, Cut, Fresh, WithoutDate, PriceMethods
<1> QED BY <1>1, ToldIsAnswer

\* One row of today.
LEMMA RowOfToday == ASSUME today \in Nat PROVE {[day |-> today, on |-> today]} \in SUBSET Row
BY DEF Row

\* Yahoo's prices, statements and news.
LEMMA YahooIsGood ==
  ASSUME today \in Nat, NEW cl \in Calls, cl.began <= today, NEW tries,
         NEW now \in {2 * today, 2 * today + 1},
         cl.method \in {"get_stock_data", "get_fundamentals", "get_statement", "get_news",
                        "get_insider_transactions"}
  PROVE  Answer(cl, "yfinance", YahooOutcome(cl, now, tries))
<1> DEFINE s == cl.symbol
           d == cl.date
<1>1. s \in Symbols /\ d \in Nat /\ cl.began \in Nat BY DEF Calls
<1>2. /\ Trades[s] \subseteq Nat /\ Reports[s] \subseteq Nat
      /\ Articles[s] \subseteq Nat \X (Nat \ {0})
  BY <1>1, DaysAreNumbers
<1>3. d - LookBack \in Int /\ MaxStale \in Nat BY <1>1, AdaptersAssumption
<1>4. ASSUME cl.method = "get_stock_data"
      PROVE  Answer(cl, "yfinance", GetYFinDataOnline(s, d, today, tries))
  <2> DEFINE rows == Between(Trades[s], d - LookBack, d, today)
  <2>1. /\ rows \in SUBSET Row /\ rows \subseteq RowsOn(today)
        /\ \A r \in rows : r.day <= d
    BY <1>1, <1>2, <1>3, RowsBetween
  <2> HIDE DEF rows
  <2>2. ASSUME rows # {}, ~Stale(rows, d) PROVE Good(cl, "yfinance", rows)
    <3>1. PICK r \in rows : ~(d - r.day > MaxStale) BY <2>2 DEF Stale
    <3>2. d - r.day <= MaxStale BY <1>1, <1>3, <2>1, <3>1 DEF Row
    <3>3. Fresh(cl, rows) BY <1>1, <2>1, <3>2 DEF Fresh, RowsOn
    <3>4. Past(cl, "yfinance", rows) BY <1>1, <2>1 DEF Past, RowsOn
    <3> QED BY <3>3, <3>4 DEF Good
  <2> QED BY <2>1, <2>2, ToldIsAnswer, PlainOutcomes DEF GetYFinDataOnline, RowsOrNoData, rows
<1>5. ASSUME cl.method = "get_fundamentals"
      PROVE  Answer(cl, "yfinance", GetFundamentals(s, today, tries))
  BY <1>5, UndatedIsGood, RowOfToday, PlainOutcomes DEF GetFundamentals, WithoutDate
<1>6. ASSUME cl.method = "get_statement"
      PROVE  Answer(cl, "yfinance", GetStatement(s, d, cl.dated, today, tries))
  <2> DEFINE rows == FilterFinancialsByDate(Between(Reports[s], 0, today, today), d, cl.dated)
  <2>1. rows \in SUBSET Row /\ \A r \in rows : 0 <= r.day /\ (cl.dated => r.day <= d)
    BY <1>1, <1>2, RowsBetween DEF FilterFinancialsByDate
  <2> HIDE DEF rows
  <2>2. Good(cl, "yfinance", rows)
    BY <1>1, <1>6, <2>1 DEF Good, Past, Cut, Fresh, PriceMethods, Row
  <2> QED BY <2>1, <2>2, ToldIsAnswer, PlainOutcomes DEF GetStatement, RowsOrNoData, rows
<1>7. ASSUME cl.method = "get_news"
      PROVE  Answer(cl, "yfinance", GetNewsYFinance(s, d, now, tries))
  <2> DEFINE times == {a[2] : a \in {a \in Articles[s] : a[1] <= now}} \cup {NoTime}
             kept == {t \in times : InNewsWindow(t, d - LookBack, d, now)}
             rows == RowsAt(kept, now)
  <2>1. times \subseteq Nat \cup {NoTime} /\ 0 \notin times BY <1>2 DEF NoTime
  <2>2. \A t \in kept : IF t # NoTime THEN t <= 2 * (d + 1) ELSE 2 * d >= now - 2
    BY DEF InNewsWindow
  <2>3. Kept(kept, d, now) BY <2>1, <2>2 DEF Kept
  <2> HIDE DEF kept
  <2>4. \A r \in rows : r \in Row /\ r.day <= d /\ (r.day < 0 => d >= r.on - 1)
    BY <1>1, <2>3, RowsOfNews
  <2> HIDE DEF rows
  <2>5. rows \in SUBSET Row BY <2>4
  <2>6. Good(cl, "yfinance", rows) BY <1>7, <2>4 DEF Good, Past, Cut, Fresh, PriceMethods
  <2> QED BY <2>5, <2>6, ToldIsAnswer, PlainOutcomes 
          DEF GetNewsYFinance, RowsOrText, RowsAt, rows, kept
<1>8. ASSUME cl.method = "get_insider_transactions"
      PROVE  Answer(cl, "yfinance", GetInsiderTransactions(s, today, tries))
  <2>1. Between(Reports[s], 0, today, today) \in SUBSET Row BY <1>2, RowsBetween
  <2> QED BY <1>8, <2>1, UndatedIsGood, PlainOutcomes
          DEF GetInsiderTransactions, RowsOrText, WithoutDate
<1> QED BY <1>4, <1>5, <1>6, <1>7, <1>8 DEF YahooOutcome

\* A request ends in one of four ways.
LEMMA RequestEnds ==
  ASSUME NEW vendor, NEW tries \in Tries
  PROVE  ApiRequest(vendor, tries) \in {Told({}), RateLimited, Failed, NotConfigured}
<1>1. 1 \in 1 .. MaxRetries + 1 BY AdaptersAssumption
<1>2. tries[1] \in Ends BY <1>1 DEF Tries
<1> QED BY <1>2 DEF ApiRequest, Ends

\* Alpha Vantage answers with the rows asked for, or else with a plain outcome.
LEMMA AlphaAnswers ==
  ASSUME NEW cl, NEW v, NEW tries \in Tries, NEW rows, Answer(cl, v, RowsOrText(rows))
  PROVE  Answer(cl, v, AlphaVantage(tries, rows))
<1>1. ApiRequest("alpha_vantage", tries) \in {Told({}), RateLimited, Failed, NotConfigured}
  BY RequestEnds
<1> QED BY <1>1, PlainOutcomes DEF AlphaVantage, Told, RateLimited, Failed, NotConfigured, Outcome

LEMMA AlphaIsGood ==
  ASSUME today \in Nat, NEW cl \in Calls, cl.method \in Methods, NEW tries \in Tries,
         NEW now \in {2 * today, 2 * today + 1},
         "alpha_vantage" \in ToSet(VendorMethods(cl.method))
  PROVE  Answer(cl, "alpha_vantage", AlphaOutcome(cl, now, tries))
<1> DEFINE s == cl.symbol
           d == cl.date
           Alpha(o) == Answer(cl, "alpha_vantage", o)
<1>1. s \in Symbols /\ d \in Nat BY DEF Calls
<1>2. /\ Trades[s] \subseteq Nat /\ Reports[s] \subseteq Nat
      /\ Articles[s] \subseteq Nat \X (Nat \ {0})
  BY <1>1, DaysAreNumbers
<1>3. d - LookBack \in Int BY <1>1, AdaptersAssumption
<1>4. ASSUME cl.method = "get_stock_data" PROVE Alpha(GetStock(s, d, cl.parsed, today, tries))
  <2>1. CASE cl.parsed BY <1>2, <1>3, <2>1, IntervalIsPast, AlphaAnswers DEF GetStock
  <2>2. CASE ~cl.parsed
    <3> DEFINE rows == Between(Trades[s], 0, today, today)
    <3>1. rows \in SUBSET Row BY <1>2, RowsBetween
    <3> HIDE DEF rows
    <3>2. Good(cl, "alpha_vantage", rows) BY <1>4, <2>2 DEF Good, Past, Cut, FiltersItself
    <3>3. Alpha(RowsOrText(rows)) BY <3>1, <3>2, ToldIsAnswer, PlainOutcomes DEF RowsOrText
    <3> QED BY <2>2, <3>3, AlphaAnswers DEF GetStock, rows
  <2> QED BY <2>1, <2>2
<1>5. Alpha(GetIndicator(s, d, today, tries))
  <2>1. Alpha(AlphaVantage(tries, Between(Trades[s], d - LookBack, d, today)))
    BY <1>2, <1>3, IntervalIsPast, AlphaAnswers
  <2> QED BY <2>1, PlainOutcomes DEF GetIndicator
<1>6. ASSUME cl.method = "get_fundamentals" PROVE Alpha(GetOverview(today, tries))
  <2> DEFINE rows == {[day |-> today, on |-> today]}
  <2>1. Alpha(RowsOrText(rows))
    BY <1>6, UndatedIsGood, RowOfToday, PlainOutcomes DEF RowsOrText, WithoutDate
  <2> QED BY <2>1, AlphaAnswers DEF GetOverview
<1>7. ASSUME cl.method = "get_statement" PROVE Alpha(GetReports(s, d, cl.dated, cl.parsed, today, tries))
  <2> DEFINE rows == FilterReportsByDate(Between(Reports[s], 0, today, today), d, cl.dated, cl.parsed)
  <2>1. rows \in SUBSET Row /\ \A r \in rows : 0 <= r.day /\ (cl.dated /\ cl.parsed => r.day <= d)
    BY <1>1, <1>2, RowsBetween DEF FilterReportsByDate
  <2> HIDE DEF rows
  <2>2. Good(cl, "alpha_vantage", rows)
    BY <1>1, <1>7, <2>1 DEF Good, Past, Cut, FiltersItself, Row
  <2>3. Alpha(RowsOrText(rows)) BY <2>1, <2>2, ToldIsAnswer, PlainOutcomes DEF RowsOrText
  <2> QED BY <2>3, AlphaAnswers DEF GetReports, rows
<1>8. Alpha(GetAlphaNews(s, d, now, tries))
  <2> DEFINE times == {a[2] : a \in {a \in Articles[s] : a[1] <= now}}
             kept == {t \in times : 2 * (d - LookBack) <= t /\ t <= 2 * d}
             rows == RowsAt(kept, now)
  <2>1. times \subseteq Nat \ {0} BY <1>2
  <2>2. \A t \in kept : t \in Nat /\ t # 0 /\ t # NoTime /\ t <= 2 * (d + 1)
    BY <1>1, <2>1 DEF NoTime
  <2>3. Kept(kept, d, now) BY <2>2 DEF Kept
  <2> HIDE DEF kept
  <2>4. \A r \in rows : r \in Row /\ r.day <= d /\ (r.day < 0 => d >= r.on - 1)
    BY <1>1, <2>3, RowsOfNews
  <2> HIDE DEF rows
  <2>5. rows \in SUBSET Row BY <2>4
  <2>6. Good(cl, "alpha_vantage", rows) BY <2>4 DEF Good, Past
  <2>7. Alpha(RowsOrText(rows)) BY <2>5, <2>6, ToldIsAnswer, PlainOutcomes DEF RowsOrText
  <2> QED BY <2>7, AlphaAnswers DEF GetAlphaNews, RowsAt, rows, kept
<1>9. ASSUME cl.method = "get_insider_transactions" PROVE Alpha(GetAlphaInsiders(s, today, tries))
  <2>1. Between(Reports[s], 0, today, today) \in SUBSET Row BY <1>2, RowsBetween
  <2>2. Alpha(RowsOrText(Between(Reports[s], 0, today, today)))
    BY <1>9, <2>1, UndatedIsGood, PlainOutcomes DEF RowsOrText, WithoutDate
  <2> QED BY <2>2, AlphaAnswers DEF GetAlphaInsiders
<1>10. cl.method \in {"get_stock_data", "get_indicators", "get_fundamentals", "get_statement",
                      "get_news", "get_insider_transactions"}
  BY DEF Methods, VendorMethods, ToSet
<1>11. Alpha(Unknown) BY PlainOutcomes
<1> HIDE DEF Alpha
<1> QED BY <1>4, <1>5, <1>6, <1>7, <1>8, <1>9, <1>10, <1>11 DEF AlphaOutcome, Alpha

LEMMA FredIsGood ==
  ASSUME today \in Nat, NEW cl \in Calls, NEW tries \in Tries
  PROVE  Answer(cl, "fred", GetMacroData(cl.known, cl.symbol, cl.date, today, tries))
<1> DEFINE rows == Between(Reports[cl.symbol], cl.date - LookBack, cl.date, today)
<1>1. cl.symbol \in Symbols /\ cl.date \in Nat BY DEF Calls
<1>2. Reports[cl.symbol] \subseteq Nat /\ cl.date - LookBack \in Int
  BY <1>1, DaysAreNumbers, AdaptersAssumption
<1>3. Answer(cl, "fred", RowsOrText(rows)) BY <1>2, IntervalIsPast
<1>4. ApiRequest("fred", tries) \in {Told({}), RateLimited, Failed, NotConfigured} BY RequestEnds
<1> HIDE DEF rows
<1> QED BY <1>3, <1>4, PlainOutcomes
        DEF GetMacroData, Told, RateLimited, Failed, NotConfigured, Outcome, rows

\* What TryVendor receives is an answer of the vendor whose turn it is.
LEMMA OutcomeIsGood ==
  ASSUME today \in Nat, NEW cl \in Calls, CallInv(cl), cl.pc = "try", NEW tries \in Tries,
         NEW now \in {2 * today, 2 * today + 1},
         ~(NextVendor(cl) = "yfinance" /\ cl.method \in {"get_indicators", Verified})
  PROVE  Answer(cl, NextVendor(cl), OutcomeOf(NextVendor(cl), cl, now, tries))
<1> DEFINE v == NextVendor(cl)
           m == cl.method
<1>1. Len(cl.tried) + 1 \in DOMAIN cl.chain BY DEF CallInv, Calls
<1>2. m \in Methods
  <2>1. m # Verified
    <3> SUFFICES ASSUME m = Verified PROVE FALSE OBVIOUS
    <3>1. cl.chain = <<"yfinance">> BY DEF CallInv
    <3>2. v = "yfinance" BY <1>1, <3>1 DEF NextVendor
    <3> QED BY <3>2
  <2> QED BY <2>1 DEF Calls
<1>3. v \in ToSet(VendorMethods(m))
  <2>1. ToSet(cl.chain) \subseteq ToSet(VendorMethods(m)) BY <1>2 DEF CallInv, Methods, Verified
  <2> QED BY <1>1, <2>1 DEF ToSet, NextVendor
<1> HIDE DEF v
<1>4. CASE v = "yfinance"
  <2>1. m \in {"get_stock_data", "get_fundamentals", "get_statement", "get_news",
               "get_insider_transactions"}
    BY <1>2, <1>3, <1>4 DEF Methods, VendorMethods, ToSet, v
  <2>2. cl.began <= today BY DEF CallInv
  <2> QED BY <1>4, <2>1, <2>2, YahooIsGood DEF OutcomeOf, v
<1>5. CASE v = "alpha_vantage" BY <1>2, <1>3, <1>5, AlphaIsGood DEF OutcomeOf, v
<1>6. CASE v = "fred" BY <1>6, FredIsGood DEF OutcomeOf, v
<1>7. CASE v = "polymarket"
  <2>1. m \in WithoutDate BY <1>2, <1>3, <1>7 DEF Methods, VendorMethods, ToSet, WithoutDate
  <2> QED BY <1>7, <2>1, UndatedIsGood, RowOfToday, PlainOutcomes
          DEF OutcomeOf, GetPredictionMarkets, v
<1>8. CASE v = "akshare" BY <1>8, PlainOutcomes DEF OutcomeOf, GetAshareFundamentals, v
<1>9. v \in Vendors BY <1>1 DEF v, NextVendor, Calls
<1> QED BY <1>4, <1>5, <1>6, <1>7, <1>8, <1>9 DEF Vendors

-----------------------------------------------------------------------------
(* The files.                                                              *)

\* What load_ohlcv may give a call, as of a date: an error, or rows of one day
\* not before the call, cut at that date and not stale.
Loaded(cl, date, loaded) ==
  \/ loaded \in {NoData, Failed}
  \/ \E rows \in SUBSET Row :
       /\ loaded = Told(rows)
       /\ \A r \in rows : r.day \in Nat /\ r.day <= date /\ r.on >= cl.began
       /\ rows # {} => \E r \in rows : date - r.day <= MaxStale

\* The rows of a download are cut and checked.
LEMMA FrameIsLoaded ==
  ASSUME NEW cl, NEW began \in Nat, cl.began = began, NEW date \in Int, NEW day \in Nat, began <= day,
         NEW frame \in SUBSET RowsOn(day)
  PROVE  Loaded(cl, date, FrameUntil(frame, date))
<1> DEFINE rows == {r \in frame : r.day <= date}
<1>1. MaxStale \in Nat BY AdaptersAssumption
<1>2. FrameUntil(frame, date) = IF Stale(rows, date) THEN NoData ELSE Told(rows)
  BY DEF FrameUntil
<1>3. rows \in SUBSET Row /\ \A r \in rows : r.day \in Nat /\ r.day <= date /\ r.on >= cl.began
  BY <1>1 DEF RowsOn, Row
<1> HIDE DEF rows
<1>4. ASSUME ~Stale(rows, date), rows # {} PROVE \E r \in rows : date - r.day <= MaxStale
  <2>1. PICK r \in rows : ~(date - r.day > MaxStale) BY <1>4 DEF Stale
  <2> QED BY <1>1, <1>3, <2>1
<1> QED BY <1>2, <1>3, <1>4 DEF Loaded

\* Rows that were loaded are good for Yahoo, and so is the window of them.
LEMMA LoadedIsGood ==
  ASSUME NEW cl \in Calls, NEW rows \in SUBSET Row, rows # {},
         \A r \in rows : r.day \in Nat /\ r.day <= cl.date /\ r.on >= cl.began,
         cl.again \/ \E r \in rows : cl.date - r.day <= MaxStale
  PROVE  Good(cl, "yfinance", rows)
BY DEF Good, Past, Cut, Fresh

LEMMA WindowIsGood ==
  ASSUME NEW cl \in Calls, NEW loaded, Loaded(cl, cl.date, loaded)
  PROVE  Answer(cl, "yfinance", IndicatorsWindow(loaded, cl.date))
<1>1. CASE loaded \in {NoData, Failed}
  BY <1>1, PlainOutcomes DEF IndicatorsWindow, NoData, Failed, Outcome
<1>2. CASE loaded \notin {NoData, Failed}
  <2>1. PICK rows \in SUBSET Row :
          /\ loaded = Told(rows)
          /\ \A r \in rows : r.day \in Nat /\ r.day <= cl.date /\ r.on >= cl.began
          /\ rows # {} => \E r \in rows : cl.date - r.day <= MaxStale
    BY <1>2 DEF Loaded
  <2> DEFINE window == {r \in rows : cl.date - LookBack <= r.day}
  <2>2. IndicatorsWindow(loaded, cl.date) = RowsOrText(window)
    BY <2>1 DEF IndicatorsWindow, Told
  <2>3. cl.date \in Nat /\ LookBack \in Nat /\ MaxStale \in Nat BY AdaptersAssumption DEF Calls
  <2>4. ASSUME window # {} PROVE \E r \in window : cl.date - r.day <= MaxStale
    <3>1. PICK new \in rows : cl.date - new.day <= MaxStale BY <2>1, <2>4
    <3>2. PICK old \in window : TRUE BY <2>4
    <3>3. CASE cl.date - LookBack <= new.day BY <3>1, <3>3
    <3>4. CASE ~(cl.date - LookBack <= new.day) BY <2>1, <2>3, <3>1, <3>2, <3>4
    <3> QED BY <3>3, <3>4
  <2>5. window \in SUBSET Row /\ \A r \in window : r \in rows OBVIOUS
  <2> HIDE DEF window
  <2>6. window # {} => Good(cl, "yfinance", window) BY <2>1, <2>4, <2>5, LoadedIsGood
  <2> QED BY <2>2, <2>5, <2>6, ToldIsAnswer, PlainOutcomes DEF RowsOrText
<1> QED BY <1>1, <1>2

\* One more date of the fallback leaves the call in order.
LEMMA NextDateKeeps ==
  ASSUME today \in Nat, NEW cl \in Calls, CallInv(cl), cl.pc = "try", cl.again,
         NextVendor(cl) = "yfinance", NEW loaded, Loaded(cl, cl.day, loaded)
  PROVE  NextDate(cl, loaded) \in Calls /\ CallInv(NextDate(cl, loaded))
<1> DEFINE got == cl.got \cup GetStockstatsIndicator(loaded, cl.day)
           end == [cl EXCEPT !.day = cl.date, !.got = {}]
           next == [cl EXCEPT !.day = cl.day - 1, !.got = got]
<1>1. cl.date \in Nat /\ cl.day \in Int /\ cl.day <= cl.date /\ cl.began \in Nat
  BY DEF Calls, CallInv
<1>2. got \in SUBSET Row /\ \A r \in got : r.day \in 0 .. cl.date /\ r.on >= cl.began
  <2>1. cl.got \in SUBSET Row /\ \A r \in cl.got : r.day \in 0 .. cl.date /\ r.on >= cl.began
    BY DEF Calls, CallInv
  <2>2. CASE loaded \in {NoData, Failed}
    BY <2>1, <2>2 DEF GetStockstatsIndicator, NoData, Failed, Outcome
  <2>3. CASE loaded \notin {NoData, Failed}
    <3>1. PICK rows \in SUBSET Row :
            /\ loaded = Told(rows)
            /\ \A r \in rows : r.day \in Nat /\ r.day <= cl.day /\ r.on >= cl.began
      BY <2>3 DEF Loaded
    <3>2. GetStockstatsIndicator(loaded, cl.day) = {r \in rows : r.day = cl.day}
      BY <3>1 DEF GetStockstatsIndicator, Told
    <3> QED BY <1>1, <2>1, <3>1, <3>2
  <2> QED BY <2>2, <2>3
<1> HIDE DEF got
<1>3. end \in Calls /\ CallInv(end) /\ end.pc = "try" /\ NextVendor(end) = "yfinance"
      /\ end.again /\ end.date = cl.date /\ end.began = cl.began
  <2>1. /\ end.pc = cl.pc /\ end.method = cl.method /\ end.date = cl.date /\ end.began = cl.began
        /\ end.chosen = cl.chosen /\ end.chain = cl.chain /\ end.tried = cl.tried
        /\ end.again = cl.again /\ end.day = cl.date /\ end.got = {}
    BY DEF Calls
  <2>2. cl.date \in Int /\ {} \in SUBSET Row BY <1>1
  <2>3. end \in Calls BY <2>2, ZenonT(60) DEF Calls
  <2> HIDE DEF end
  <2>4. CallInv(end) BY <1>1, <2>1 DEF CallInv
  <2> QED BY <2>1, <2>3, <2>4 DEF NextVendor
<1> HIDE DEF end
<1>4. CASE loaded.kind = "no_data"
  <2>1. loaded = NoData BY <1>4 DEF Loaded, Told, Failed, Outcome
  <2>2. NextDate(cl, loaded) = Receive(end, NoData) BY <1>4, <2>1 DEF NextDate, end
  <2> QED BY <1>3, <2>2, PlainOutcomes, ReceiveKeeps
<1>5. CASE loaded.kind # "no_data" /\ cl.day = cl.date - LookBack
  <2>1. NextDate(cl, loaded) = Receive(end, RowsOrText(got)) BY <1>5 DEF NextDate, end, got
  <2>2. Good(end, "yfinance", got) BY <1>1, <1>2, <1>3 DEF Good, Past, Fresh, Row
  <2>3. Answer(end, "yfinance", RowsOrText(got))
    BY <1>2, <2>2, ToldIsAnswer, PlainOutcomes DEF RowsOrText
  <2> QED BY <1>3, <2>1, <2>3, ReceiveKeeps
<1>6. CASE loaded.kind # "no_data" /\ cl.day # cl.date - LookBack
  <2>1. NextDate(cl, loaded) = next BY <1>6 DEF NextDate, got
  <2>2. cl.day - 1 \in Int /\ cl.day - 1 <= cl.date /\ got \in SUBSET Row BY <1>1, <1>2
  <2>3. next \in Calls BY <2>2, ZenonT(60) DEF Calls
  <2>4. /\ next.pc = cl.pc /\ next.method = cl.method /\ next.date = cl.date /\ next.began = cl.began
        /\ next.chosen = cl.chosen /\ next.chain = cl.chain /\ next.tried = cl.tried
        /\ next.day = cl.day - 1 /\ next.got = got
    BY DEF Calls
  <2>5. CallInv(next)
    <3> HIDE DEF next
    <3> QED BY <1>2, <2>2, <2>4 DEF CallInv
  <2> QED BY <2>1, <2>3, <2>5
<1> QED BY <1>4, <1>5, <1>6

\* What a call makes of what was loaded leaves it in order.
LEMMA ReadKeeps ==
  ASSUME today \in Nat, NEW cl \in Calls, CallInv(cl), cl.pc = "try",
         NextVendor(cl) = "yfinance", NEW loaded, Loaded(cl, CurrDate(cl), loaded)
  PROVE  Read(cl, loaded) \in Calls /\ CallInv(Read(cl, loaded))
<1>0. CurrDate(cl) \in Int /\ CurrDate(cl) <= cl.date /\ cl.date \in Nat /\ MaxStale \in Nat
  BY AdaptersAssumption DEF CurrDate, Calls, CallInv
<1>1. CASE cl.method = Verified
  <2> DEFINE o == IF loaded = Told({}) THEN Failed ELSE loaded
  <2>1. Answer(cl, "yfinance", o)
    <3>1. CASE loaded \in {NoData, Failed}
      BY <3>1, PlainOutcomes DEF NoData, Failed, Told, Outcome
    <3>2. CASE loaded \notin {NoData, Failed}
      <4>1. PICK rows \in SUBSET Row :
              /\ loaded = Told(rows)
              /\ \A r \in rows : r.day \in Nat /\ r.day <= CurrDate(cl) /\ r.on >= cl.began
              /\ rows # {} => \E r \in rows : CurrDate(cl) - r.day <= MaxStale
        BY <3>2 DEF Loaded
      <4>2. CASE rows = {} BY <4>1, <4>2, PlainOutcomes
      <4>3. CASE rows # {}
        <5>1. \A r \in rows : r.day \in Nat /\ r.day <= cl.date /\ r.on >= cl.began
          BY <1>0, <4>1
        <5>2. cl.again \/ \E r \in rows : cl.date - r.day <= MaxStale
          BY <4>1, <4>3 DEF CurrDate
        <5>3. Good(cl, "yfinance", rows) BY <4>3, <5>1, <5>2, LoadedIsGood
        <5>4. loaded # Told({}) BY <4>1, <4>3 DEF Told
        <5> QED BY <4>1, <5>3, <5>4, ToldIsAnswer
      <4> QED BY <4>2, <4>3
    <3> QED BY <3>1, <3>2
  <2>2. Read(cl, loaded) = Receive(cl, o) BY <1>1 DEF Read, Verified
  <2> HIDE DEF o
  <2> QED BY <2>1, <2>2, ReceiveKeeps
<1>2. CASE cl.method # Verified /\ cl.again
  <2>1. Read(cl, loaded) = NextDate(cl, loaded) BY <1>2 DEF Read, Verified
  <2>2. Loaded(cl, cl.day, loaded) BY <1>2 DEF CurrDate
  <2> QED BY <1>2, <2>1, <2>2, NextDateKeeps
<1>3. CASE cl.method # Verified /\ ~cl.again /\ loaded.kind = "failed"
  <2> DEFINE next == [cl EXCEPT !.again = TRUE]
  <2>1. Read(cl, loaded) = next BY <1>3 DEF Read, Verified
  <2>2. next \in Calls BY DEF Calls
  <2>3. CallInv(next) BY DEF Calls, CallInv
  <2> QED BY <2>1, <2>2, <2>3
<1>4. CASE cl.method # Verified /\ ~cl.again /\ loaded.kind # "failed"
  <2>1. Loaded(cl, cl.date, loaded) BY <1>4 DEF CurrDate
  <2>2. Answer(cl, "yfinance", IndicatorsWindow(loaded, cl.date)) BY <2>1, WindowIsGood
  <2>3. Read(cl, loaded) = Receive(cl, IndicatorsWindow(loaded, cl.date))
    BY <1>4 DEF Read, Verified
  <2> QED BY <2>2, <2>3, ReceiveKeeps
<1> QED BY <1>1, <1>2, <1>3, <1>4

-----------------------------------------------------------------------------
(* The invariant.                                                          *)

LEMMA InitIInv == Init => IInv
<1> SUFFICES ASSUME Init PROVE IInv OBVIOUS
<1>1. today \in Nat BY DataFlowAssumption DEF Init
<1>2. ConfigInv BY ConfigsAssumption DEF Init, ConfigInv
<1>3. FilesInv BY DEF Init, FilesInv
<1>4. call \in [Callers -> Calls \cup {Idle}] /\ \A c \in Callers : call[c] = Idle BY DEF Init
<1> QED BY <1>1, <1>2, <1>3, <1>4 DEF IInv

\* The call of a caller whose program counter is not idle.
LEMMA InACall ==
  ASSUME IInv, NEW c \in Callers, ~At(c, "idle")
  PROVE  call[c] \in Calls /\ CallInv(call[c])
<1>1. call[c] # Idle BY DEF At, Idle
<1> QED BY <1>1 DEF IInv

\* A call that stays what it was stays in order, on any day from its own on.
LEMMA SameCall ==
  ASSUME NEW c, CallInv(call[c]), call'[c] = call[c], call[c].began <= today'
  PROVE  CallInv(call[c])'
BY ZenonT(60) DEF CallInv, Good, Past, Cut, Fresh, NextVendor

\* So does a call that becomes one in order.
LEMMA NewCall ==
  ASSUME NEW c, NEW cl, CallInv(cl), call'[c] = cl, today' = today
  PROVE  CallInv(call[c])'
BY ZenonT(60) DEF CallInv, Good, Past, Cut, Fresh, NextVendor

\* One call changes, and stays in order.
LEMMA CallChanges ==
  ASSUME IInv, NEW c \in Callers, NEW new \in Calls, CallInv(new),
         call' = [call EXCEPT ![c] = new], today' = today, ConfigInv', FilesInv'
  PROVE  IInv'
<1>1. call' \in [Callers -> Calls \cup {Idle}] BY DEF IInv
<1>2. ASSUME NEW d \in Callers, call'[d] # Idle PROVE CallInv(call[d])'
  <2>1. CASE d = c
    <3>1. call'[d] = new BY <2>1 DEF IInv
    <3> QED BY <3>1, NewCall
  <2>2. CASE d # c
    <3>1. call'[d] = call[d] BY <2>2 DEF IInv
    <3>2. CallInv(call[d]) BY <1>2, <3>1 DEF IInv
    <3> QED BY <3>1, <3>2, NewCall
  <2> QED BY <2>1, <2>2
<1> QED BY <1>1, <1>2 DEF IInv

LEMMA ConfigStays == ASSUME ConfigInv, UNCHANGED config PROVE ConfigInv'
BY DEF ConfigInv
LEMMA FilesStay == ASSUME FilesInv, UNCHANGED <<yahoo, akshare>> PROVE FilesInv'
BY DEF FilesInv

\* A new configuration gives sequences of names again.
LEMMA StepSetConfig ==
  ASSUME IInv, NEW update \in Configs, SetConfig(update)
  PROVE  IInv'
<1>1. ConfigInv BY DEF IInv
<1>2. ConfigInv'
  <2>1. /\ config'.data = Over(config.data, update.data)
        /\ config'.tools = Over(config.tools, update.tools)
    BY DEF SetConfig
  <2>2. \A k \in DOMAIN Over(config.data, update.data) :
          Over(config.data, update.data)[k] \in Seq(STRING)
    BY <1>1, ConfigsAssumption DEF ConfigInv, Over
  <2>3. \A k \in DOMAIN Over(config.tools, update.tools) :
          Over(config.tools, update.tools)[k] \in Seq(STRING)
    BY <1>1, ConfigsAssumption DEF ConfigInv, Over
  <2> QED BY <2>1, <2>2, <2>3 DEF ConfigInv
<1>3. FilesInv' BY FilesStay DEF SetConfig, IInv
<1>4. today' = today /\ call' = call BY DEF SetConfig
<1>5. \A c \in Callers : call'[c] # Idle => CallInv(call[c])' BY <1>4, NewCall DEF IInv
<1> QED BY <1>2, <1>3, <1>4, <1>5 DEF IInv

\* A call that starts is in order.
LEMMA StartIsGood ==
  ASSUME today \in Nat, NEW m \in Methods \cup {Verified}, NEW s \in Symbols, NEW d \in Nat,
         NEW chosen \in Seq(STRING), NEW chain \in Seq(Vendors),
         NEW reply \in {Unknown, Outcome("none")}, NEW pc \in {"try", "done"},
         pc = "try" => chain # <<>>,
         m # Verified => ToSet(chain) \subseteq ToSet(VendorMethods(m)),
         m # Verified /\ chosen # <<>> => ToSet(chain) \subseteq ToSet(chosen),
         m = Verified => chain = <<"yfinance">>,
         NEW known \in BOOLEAN, NEW dated \in BOOLEAN
  PROVE  LET new == Start(pc, m, s, d, known, dated, chosen, chain, reply)
         IN  new \in Calls /\ CallInv(new)
<1> DEFINE new == [pc |-> pc, method |-> m, symbol |-> s, date |-> d, known |-> known,
                   dated |-> dated, chosen |-> chosen, chain |-> chain, began |-> today,
                   tried |-> <<>>, parsed |-> TRUE, again |-> FALSE, day |-> d, got |-> {},
                   frame |-> {}, file |-> <<>>, reply |-> reply]
<1>1. reply \in Outcomes /\ reply.kind \notin {"told", "NO_DATA_AVAILABLE"}
  BY DEF Unknown, Outcome, Outcomes, KindsTold
<1>2. <<>> \in Seq(KindsTold) /\ Len(chain) \in Nat OBVIOUS
<1>3. new = Start(pc, m, s, d, known, dated, chosen, chain, reply) BY DEF Start
<1>4. new \in Calls BY <1>1, <1>2 DEF Calls
<1>5. chain # <<>> => Len(chain) > 0 BY <1>2
<1>6. /\ new.pc = pc /\ new.method = m /\ new.date = d /\ new.chosen = chosen /\ new.chain = chain
      /\ new.began = today /\ new.tried = <<>> /\ new.day = d /\ new.got = {} /\ new.reply = reply
  OBVIOUS
<1> HIDE DEF new
<1>7. CallInv(new) BY <1>1, <1>2, <1>5, <1>6 DEF CallInv
<1> QED BY <1>3, <1>4, <1>7

LEMMA StepRouteToVendor ==
  ASSUME IInv, NEW c \in Callers, NEW m \in Asked, NEW s \in Symbols, NEW d \in Dates,
         NEW known \in BOOLEAN, NEW dated \in BOOLEAN, RouteToVendor(c, m, s, d, known, dated)
  PROVE  IInv'
<1> DEFINE chain == VendorChain(m)
           chosen == GetVendor(m)
           pc == IF chain = <<>> THEN "done" ELSE "try"
           reply == IF chain = <<>> THEN Unknown ELSE Outcome("none")
           new == Start(pc, m, s, d, known, dated, chosen, chain, reply)
<1>1. m \in Methods /\ d \in Nat /\ today \in Nat BY AskedAreMethods, DataFlowAssumption DEF IInv
<1>2. /\ chain \in Seq(Vendors) /\ chosen \in Seq(STRING)
      /\ ToSet(chain) \subseteq ToSet(VendorMethods(m))
      /\ chosen # <<>> => ToSet(chain) \subseteq ToSet(chosen)
  BY <1>1, ChainIsChosen, ChosenType DEF IInv
<1>3. call' = [call EXCEPT ![c] = new] /\ UNCHANGED <<config, today, yahoo, akshare>>
  BY DEF RouteToVendor
<1> HIDE DEF chain, chosen
<1>4. m # Verified BY <1>1 DEF Methods, Verified
<1>5. /\ pc \in {"try", "done"} /\ reply \in {Unknown, Outcome("none")}
      /\ pc = "try" => chain # <<>>
  OBVIOUS
<1> HIDE DEF pc, reply
<1>6. new \in Calls /\ CallInv(new) BY <1>1, <1>2, <1>4, <1>5, StartIsGood
<1> HIDE DEF new
<1> QED BY <1>3, <1>6, CallChanges, ConfigStays, FilesStay DEF IInv

LEMMA StepBuildVerifiedMarketSnapshot ==
  ASSUME IInv, NEW c \in Callers, NEW s \in Symbols, NEW d \in Dates,
         BuildVerifiedMarketSnapshot(c, s, d)
  PROVE  IInv'
<1> DEFINE chosen == GetVendor("get_stock_data")
           pc == "try"
           chain == <<"yfinance">>
           reply == Outcome("none")
           new == Start(pc, Verified, s, d, TRUE, TRUE, chosen, chain, reply)
<1>1. d \in Nat /\ today \in Nat /\ chosen \in Seq(STRING)
  BY DataFlowAssumption, ChosenType DEF IInv
<1>2. call' = [call EXCEPT ![c] = new] /\ UNCHANGED <<config, today, yahoo, akshare>>
  BY DEF BuildVerifiedMarketSnapshot, Verified
<1> HIDE DEF chosen
<1>3. /\ chain \in Seq(Vendors) /\ chain # <<>> /\ chain = <<"yfinance">>
      /\ pc \in {"try", "done"} /\ reply \in {Unknown, Outcome("none")}
      /\ Verified \in Methods \cup {Verified}
  BY DEF Vendors
<1> HIDE DEF pc, chain, reply
<1>4. new \in Calls /\ CallInv(new) BY <1>1, <1>3, StartIsGood
<1> HIDE DEF new
<1> QED BY <1>2, <1>4, CallChanges, ConfigStays, FilesStay DEF IInv

LEMMA StepTryVendor ==
  ASSUME IInv, NEW c \in Callers, TryVendor(c)
  PROVE  IInv'
<1>1. PICK tries \in Tries, now \in {2 * today, 2 * today + 1}, parsed \in BOOLEAN :
        LET cl == [call[c] EXCEPT !.parsed = parsed]
        IN  call' = [call EXCEPT ![c] = Receive(cl, OutcomeOf(Vendor(c), cl, now, tries))]
  BY DEF TryVendor
<1> DEFINE cl == [call[c] EXCEPT !.parsed = parsed]
           new == Receive(cl, OutcomeOf(Vendor(c), cl, now, tries))
<1>2. call[c] \in Calls /\ CallInv(call[c]) /\ call[c].pc = "try" /\ today \in Nat
  BY InACall DEF TryVendor, At, IInv
<1>3. Vendor(c) = NextVendor(call[c]) BY DEF Vendor, NextVendor
<1>4. ~(NextVendor(call[c]) = "yfinance" /\ call[c].method \in {"get_indicators", Verified})
  BY <1>3 DEF TryVendor, ReadsYahooFile, Verified
<1>5. /\ cl \in Calls /\ CallInv(cl) /\ cl.pc = "try" /\ NextVendor(cl) = NextVendor(call[c])
      /\ cl.method = call[c].method
  BY <1>2 DEF Calls, CallInv, NextVendor
<1>6. call' = [call EXCEPT ![c] = new] BY <1>1
<1>7. UNCHANGED <<config, today, yahoo, akshare>> BY DEF TryVendor
<1> HIDE DEF cl
<1>8. Answer(cl, NextVendor(cl), OutcomeOf(NextVendor(cl), cl, now, tries))
  BY <1>2, <1>4, <1>5, OutcomeIsGood
<1>9. new \in Calls /\ CallInv(new) BY <1>2, <1>3, <1>5, <1>8, ReceiveKeeps
<1> HIDE DEF new
<1> QED BY <1>6, <1>7, <1>9, CallChanges, ConfigStays, FilesStay DEF IInv

\* A call that reads Yahoo's files, when it is its turn.
LEMMA ReadsYahoo ==
  ASSUME IInv, NEW c \in Callers, At(c, "try"), ReadsYahooFile(c)
  PROVE  /\ call[c] \in Calls /\ CallInv(call[c]) /\ call[c].pc = "try"
         /\ NextVendor(call[c]) = "yfinance" /\ call[c].method \in {"get_indicators", Verified}
         /\ call[c].symbol \in Symbols /\ call[c].began \in Nat /\ call[c].began <= today
<1>1. call[c] \in Calls /\ CallInv(call[c]) BY InACall DEF At
<1>2. NextVendor(call[c]) = "yfinance" /\ call[c].method \in {"get_indicators", Verified}
  BY DEF ReadsYahooFile, Vendor, NextVendor, Verified
<1> QED BY <1>1, <1>2 DEF At, Calls, CallInv

\* A call reads as of a day.
LEMMA CurrDateType == ASSUME NEW cl \in Calls PROVE CurrDate(cl) \in Int
BY DEF CurrDate, Calls

LEMMA StepLoadOhlcv ==
  ASSUME IInv, NEW c \in Callers, LoadOhlcv(c)
  PROVE  IInv'
<1> DEFINE cl == call[c]
           key == YahooKey(cl.symbol)
           new == Read(cl, FrameUntil(yahoo[key], CurrDate(cl)))
<1>1. At(c, "try") /\ ReadsYahooFile(c) /\ today \in Nat BY DEF LoadOhlcv, IInv
<1>2. /\ cl \in Calls /\ CallInv(cl) /\ cl.pc = "try" /\ NextVendor(cl) = "yfinance"
      /\ cl.began \in Nat /\ cl.began <= today
  BY <1>1, ReadsYahoo
<1>3. key \in DOMAIN yahoo /\ key[2] = today BY DEF LoadOhlcv, YahooKey
<1>4. yahoo[key] \in SUBSET RowsOn(today) BY <1>3 DEF IInv, FilesInv
<1>5. Loaded(cl, CurrDate(cl), FrameUntil(yahoo[key], CurrDate(cl)))
  BY <1>1, <1>2, <1>4, CurrDateType, FrameIsLoaded
<1>6. new \in Calls /\ CallInv(new) BY <1>1, <1>2, <1>5, ReadKeeps
<1>7. call' = [call EXCEPT ![c] = new] /\ UNCHANGED <<config, today, yahoo, akshare>>
  BY DEF LoadOhlcv
<1> HIDE DEF new
<1> QED BY <1>6, <1>7, CallChanges, ConfigStays, FilesStay DEF IInv

LEMMA StepReadTruncated ==
  ASSUME IInv, NEW c \in Callers, ReadTruncated(c)
  PROVE  IInv'
<1> DEFINE new == Read(call[c], Failed)
<1>1. At(c, "try") /\ ReadsYahooFile(c) /\ today \in Nat BY DEF ReadTruncated, IInv
<1>2. /\ call[c] \in Calls /\ CallInv(call[c]) /\ call[c].pc = "try"
      /\ NextVendor(call[c]) = "yfinance"
  BY <1>1, ReadsYahoo
<1>3. Loaded(call[c], CurrDate(call[c]), Failed) BY DEF Loaded
<1>4. new \in Calls /\ CallInv(new) BY <1>1, <1>2, <1>3, ReadKeeps
<1>5. call' = [call EXCEPT ![c] = new] /\ UNCHANGED <<config, today, yahoo, akshare>>
  BY DEF ReadTruncated
<1> HIDE DEF new
<1> QED BY <1>4, <1>5, CallChanges, ConfigStays, FilesStay DEF IInv

LEMMA StepRejectIndicator ==
  ASSUME IInv, NEW c \in Callers, RejectIndicator(c)
  PROVE  IInv'
<1> DEFINE new == Receive(call[c], Unknown)
<1>1. At(c, "try") /\ ReadsYahooFile(c) /\ today \in Nat BY DEF RejectIndicator, IInv
<1>2. call[c] \in Calls /\ CallInv(call[c]) /\ call[c].pc = "try" BY <1>1, ReadsYahoo
<1>3. new \in Calls /\ CallInv(new) BY <1>1, <1>2, PlainOutcomes, ReceiveKeeps
<1>4. call' = [call EXCEPT ![c] = new] /\ UNCHANGED <<config, today, yahoo, akshare>>
  BY DEF RejectIndicator
<1> HIDE DEF new
<1> QED BY <1>3, <1>4, CallChanges, ConfigStays, FilesStay DEF IInv

\* A file with the rows of a day under the key of that day.
LEMMA FileOfADay ==
  ASSUME FilesInv, NEW key, NEW rows \in SUBSET RowsOn(key[2]), UNCHANGED akshare,
         yahoo' = Over(yahoo, [k \in {key} |-> rows]) \/ yahoo' = [yahoo EXCEPT ![key] = rows]
  PROVE  FilesInv'
<1>1. ASSUME NEW k \in DOMAIN yahoo' PROVE yahoo'[k] \subseteq RowsOn(k[2])
  <2>1. CASE yahoo' = Over(yahoo, [x \in {key} |-> rows])
    BY <1>1, <2>1 DEF FilesInv, Over
  <2>2. CASE yahoo' = [yahoo EXCEPT ![key] = rows]
    BY <1>1, <2>2 DEF FilesInv
  <2> QED BY <2>1, <2>2
<1> QED BY <1>1 DEF FilesInv

LEMMA StepDownloadOhlcv ==
  ASSUME IInv, NEW c \in Callers, DownloadOhlcv(c)
  PROVE  IInv'
<1> DEFINE cl == call[c]
           key == YahooKey(cl.symbol)
           rows == Between(Trades[cl.symbol], today - CacheYears, today, today)
<1>1. At(c, "try") /\ ReadsYahooFile(c) /\ today \in Nat BY DEF DownloadOhlcv, IInv
<1>2. /\ cl \in Calls /\ CallInv(cl) /\ cl.pc = "try" /\ NextVendor(cl) = "yfinance"
      /\ cl.method \in {"get_indicators", Verified} /\ cl.symbol \in Symbols
      /\ cl.began \in Nat /\ cl.began <= today
  BY <1>1, ReadsYahoo
<1>3. UNCHANGED <<config, today, akshare>> BY DEF DownloadOhlcv
<1>4. rows \subseteq RowsOn(today) /\ rows \subseteq Row
  <2>1. Trades[cl.symbol] \subseteq Nat /\ today - CacheYears \in Int
    BY <1>1, <1>2, DaysAreNumbers, AdaptersAssumption
  <2> QED BY <1>1, <2>1, RowsBetween
<1>5. key \in Symbols \X Nat /\ key[2] = today BY <1>1, <1>2 DEF YahooKey
<1> DEFINE Ended == /\ \E loaded \in {NoData, Failed} : call' = [call EXCEPT ![c] = Read(cl, loaded)]
                    /\ UNCHANGED yahoo
           Begun == /\ \E last \in {-1} \cup {r.day : r \in rows} :
                         yahoo' = Over(yahoo, [k \in {key} |-> {r \in rows : r.day <= last}])
                    /\ call' = [call EXCEPT ![c].pc = "writing", ![c].frame = rows, ![c].file = key]
<1>6. Ended \/ Begun BY DEF DownloadOhlcv
<1> HIDE DEF rows, key
<1>7. CASE Ended
  <2>1. PICK loaded \in {NoData, Failed} : call' = [call EXCEPT ![c] = Read(cl, loaded)] BY <1>7
  <2> DEFINE new == Read(cl, loaded)
  <2>2. Loaded(cl, CurrDate(cl), loaded) BY DEF Loaded
  <2>3. new \in Calls /\ CallInv(new) BY <1>1, <1>2, <2>2, ReadKeeps
  <2>4. call' = [call EXCEPT ![c] = new] /\ UNCHANGED yahoo BY <1>7, <2>1
  <2> HIDE DEF new
  <2> QED BY <1>3, <2>3, <2>4, CallChanges, ConfigStays, FilesStay DEF IInv
<1>8. CASE Begun
  <2> DEFINE new == [cl EXCEPT !.pc = "writing", !.frame = rows, !.file = key]
  <2>1. PICK last : yahoo' = Over(yahoo, [k \in {key} |-> {r \in rows : r.day <= last}])
    BY <1>8
  <2>2. call' = [call EXCEPT ![c] = new] BY <1>8
  <2>3. new \in Calls BY <1>2, <1>4, <1>5 DEF Calls
  <2>4. CallInv(new)
    <3>1. /\ new.pc = "writing" /\ new.method = cl.method /\ NextVendor(new) = NextVendor(cl)
          /\ new.file = key /\ new.frame = rows /\ new.began = cl.began
          /\ new.chosen = cl.chosen /\ new.chain = cl.chain /\ new.tried = cl.tried
          /\ new.date = cl.date /\ new.day = cl.day /\ new.got = cl.got
      BY <1>2 DEF Calls, NextVendor
    <3> HIDE DEF new
    <3> QED BY <1>2, <1>4, <1>5, <3>1 DEF CallInv
  <2>5. FilesInv'
    <3>1. {r \in rows : r.day <= last} \in SUBSET RowsOn(key[2]) BY <1>4, <1>5
    <3> QED BY <1>3, <2>1, <3>1, FileOfADay DEF IInv
  <2> HIDE DEF new
  <2> QED BY <1>3, <2>2, <2>3, <2>4, <2>5, CallChanges, ConfigStays DEF IInv
<1> QED BY <1>6, <1>7, <1>8

LEMMA StepWriteOhlcv ==
  ASSUME IInv, NEW c \in Callers, WriteOhlcv(c)
  PROVE  IInv'
<1> DEFINE cl == call[c]
           back == [cl EXCEPT !.pc = "try", !.frame = {}, !.file = <<>>]
           new == Read(back, FrameUntil(cl.frame, CurrDate(cl)))
<1>1. cl \in Calls /\ CallInv(cl) /\ cl.pc = "writing" /\ today \in Nat
  BY InACall DEF WriteOhlcv, At, IInv
<1>2. /\ NextVendor(cl) = "yfinance" /\ cl.file \in Symbols \X Nat /\ cl.began <= cl.file[2]
      /\ cl.frame \in SUBSET RowsOn(cl.file[2]) /\ cl.file[2] \in Nat
  BY <1>1 DEF CallInv
<1>3. /\ back \in Calls /\ CallInv(back) /\ back.pc = "try" /\ NextVendor(back) = "yfinance"
      /\ back.began = cl.began /\ back.began \in Nat /\ CurrDate(back) = CurrDate(cl)
  <2>1. back \in Calls
    <3>1. {} \in SUBSET Row /\ <<>> \in (Symbols \X Nat) \cup {<<>>} OBVIOUS
    <3> QED BY <1>1, <3>1, ZenonT(60) DEF Calls
  <2>2. /\ back.pc = "try" /\ back.method = cl.method /\ back.date = cl.date
        /\ back.began = cl.began /\ back.chosen = cl.chosen /\ back.chain = cl.chain
        /\ back.tried = cl.tried /\ back.again = cl.again /\ back.day = cl.day
        /\ back.got = cl.got /\ cl.began \in Nat
    BY <1>1 DEF Calls
  <2> HIDE DEF back
  <2>3. CallInv(back) BY <1>1, <2>2 DEF CallInv
  <2> QED BY <1>2, <2>1, <2>2, <2>3 DEF NextVendor, CurrDate
<1> HIDE DEF back
<1>4. Loaded(back, CurrDate(back), FrameUntil(cl.frame, CurrDate(back)))
  BY <1>2, <1>3, CurrDateType, FrameIsLoaded
<1>5. new \in Calls /\ CallInv(new) BY <1>1, <1>3, <1>4, ReadKeeps
<1>6. call' = [call EXCEPT ![c] = new] /\ UNCHANGED <<config, today, akshare>>
  BY DEF WriteOhlcv, back
<1>7. FilesInv' BY <1>2, <1>6, FileOfADay DEF WriteOhlcv, IInv
<1> HIDE DEF new
<1> QED BY <1>5, <1>6, <1>7, CallChanges, ConfigStays DEF IInv

LEMMA StepLoadOhlcvDf ==
  ASSUME IInv, NEW c \in Callers, LoadOhlcvDf(c)
  PROVE  IInv'
<1> DEFINE cl == call[c]
           s == cl.symbol
           d == cl.date
           key == <<s, d - LookBack, d>>
           cached == key \in DOMAIN akshare
           frame == IF cached THEN akshare[key] ELSE Between(Trades[s], d - LookBack, d, today)
<1>1. /\ cl \in Calls /\ CallInv(cl) /\ cl.pc = "try" /\ NextVendor(cl) = "akshare"
      /\ today \in Nat /\ s \in Symbols /\ d \in Nat /\ d - LookBack \in Int
  <2>1. cl \in Calls /\ CallInv(cl) BY InACall DEF LoadOhlcvDf, At
  <2> QED BY <2>1, AdaptersAssumption
          DEF LoadOhlcvDf, At, ReadsAkshareFile, Vendor, NextVendor, Calls, IInv
<1>2. frame \in SUBSET Row /\ \A r \in frame : 0 <= r.day /\ r.day <= d
  <2>1. CASE cached
    <3>1. key[3] = d OBVIOUS
    <3> HIDE DEF key
    <3> QED BY <2>1, <3>1 DEF IInv, FilesInv
  <2>2. CASE ~cached
    <3>1. Trades[s] \in SUBSET Nat BY <1>1, DaysAreNumbers
    <3>2. \A r \in Between(Trades[s], d - LookBack, d, today) : r.day \in Nat
      BY <3>1 DEF Between
    <3> QED BY <1>1, <2>2, <3>1, <3>2, RowsBetween
  <2> QED BY <2>1, <2>2
<1>3. Good(cl, "akshare", frame) BY <1>1, <1>2 DEF Good, Past, Cut, Row
<1>4. PICK prices \in Tries, calendar \in Tries :
        LET got == cached \/ WithRetry(prices) = "ok"
            dated == <<d - LookBack, d>> \in calendars \/ WithRetry(calendar) = "ok"
        IN  /\ akshare' = IF got /\ frame # {} THEN Over(akshare, [k \in {key} |-> frame]) ELSE akshare
            /\ call' = [call EXCEPT ![c] =
                 Receive(cl, IF ~got THEN Failed
                             ELSE IF frame = {} THEN NoData
                             ELSE IF ~dated THEN Failed
                             ELSE IF ~cl.known THEN Failed ELSE Told(frame))]
  BY DEF LoadOhlcvDf
<1>5. UNCHANGED <<config, today, yahoo>> BY DEF LoadOhlcvDf
<1>6. key[3] = d OBVIOUS
<1> DEFINE got == cached \/ WithRetry(prices) = "ok"
           dated == <<d - LookBack, d>> \in calendars \/ WithRetry(calendar) = "ok"
           o == IF ~got THEN Failed
                ELSE IF frame = {} THEN NoData
                ELSE IF ~dated THEN Failed
                ELSE IF ~cl.known THEN Failed ELSE Told(frame)
           new == Receive(cl, o)
<1>7. call' = [call EXCEPT ![c] = new] BY <1>4
<1>8. akshare' \in {akshare, Over(akshare, [k \in {key} |-> frame])} BY <1>4
<1> HIDE DEF frame, key, got, dated
<1>9. Answer(cl, "akshare", o) BY <1>2, <1>3, ToldIsAnswer, PlainOutcomes
<1> HIDE DEF o
<1>10. new \in Calls /\ CallInv(new) BY <1>1, <1>9, ReceiveKeeps
<1>11. FilesInv'
  <2>1. \A k \in DOMAIN akshare' :
          akshare'[k] \subseteq Row /\ \A r \in akshare'[k] : 0 <= r.day /\ r.day <= k[3]
    BY <1>2, <1>6, <1>8 DEF IInv, FilesInv, Over
  <2> QED BY <1>5, <2>1 DEF IInv, FilesInv
<1> HIDE DEF new
<1> QED BY <1>5, <1>7, <1>10, <1>11, CallChanges, ConfigStays DEF IInv

LEMMA StepReturn ==
  ASSUME IInv, NEW c \in Callers, Return(c)
  PROVE  IInv'
<1>1. call' = [call EXCEPT ![c] = Idle] /\ UNCHANGED <<config, today, yahoo, akshare>>
  BY DEF Return
<1>2. call' \in [Callers -> Calls \cup {Idle}] BY <1>1 DEF IInv
<1>3. \A d \in Callers : call'[d] # Idle => call'[d] = call[d] BY <1>1 DEF IInv
<1>4. ConfigInv' /\ FilesInv' BY <1>1, ConfigStays, FilesStay DEF IInv
<1>5. \A d \in Callers : call'[d] # Idle => CallInv(call[d])' BY <1>1, <1>3, NewCall DEF IInv
<1> QED BY <1>1, <1>2, <1>4, <1>5 DEF IInv

LEMMA StepDie == ASSUME IInv, Die PROVE IInv'
<1>1. /\ call' = [c \in Callers |-> Idle] /\ UNCHANGED <<config, today, yahoo, akshare>>
      /\ ConfigInv' /\ FilesInv'
  BY ConfigStays, FilesStay DEF Die, IInv
<1> QED BY <1>1 DEF IInv

LEMMA StepNewDay == ASSUME IInv, NewDay PROVE IInv'
<1>1. today' = today + 1 /\ call' = call /\ UNCHANGED <<config, yahoo, akshare>> BY DEF NewDay
<1>2. today \in Nat /\ today' \in Nat BY <1>1 DEF IInv
<1>3. ConfigInv' /\ FilesInv' BY <1>1, ConfigStays, FilesStay DEF IInv
<1>4. ASSUME NEW c \in Callers, call'[c] # Idle PROVE CallInv(call[c])'
  <2>1. CallInv(call[c]) /\ call[c].began \in Nat BY <1>1, <1>4 DEF IInv, Calls
  <2>2. call[c].began <= today' BY <1>1, <1>2, <2>1 DEF CallInv
  <2> QED BY <1>1, <2>1, <2>2, SameCall
<1> QED BY <1>1, <1>2, <1>3, <1>4 DEF IInv

\* The invariant holds in every state the process can be in.
THEOREM Inductive == Spec => []IInv
<1>1. IInv /\ [Next]_vars => IInv'
  <2> SUFFICES ASSUME IInv, [Next]_vars PROVE IInv' OBVIOUS
  <2>1. CASE NewDay BY <2>1, StepNewDay
  <2>2. CASE Die BY <2>2, StepDie
  <2>3. ASSUME NEW update \in Configs, SetConfig(update) PROVE IInv' BY <2>3, StepSetConfig
  <2>4. ASSUME NEW c \in Callers, NEW m \in Asked, NEW s \in Symbols, NEW d \in Dates,
               NEW known \in BOOLEAN, NEW dated \in BOOLEAN,
               RouteToVendor(c, m, s, d, known, dated)
        PROVE  IInv'
    BY <2>4, StepRouteToVendor
  <2>5. ASSUME NEW c \in Callers, NEW s \in Symbols, NEW d \in Dates,
               BuildVerifiedMarketSnapshot(c, s, d)
        PROVE  IInv'
    BY <2>5, StepBuildVerifiedMarketSnapshot
  <2>6. ASSUME NEW c \in Callers, TryVendor(c) PROVE IInv' BY <2>6, StepTryVendor
  <2>7. ASSUME NEW c \in Callers, LoadOhlcv(c) PROVE IInv' BY <2>7, StepLoadOhlcv
  <2>8. ASSUME NEW c \in Callers, RejectIndicator(c) PROVE IInv' BY <2>8, StepRejectIndicator
  <2>9. ASSUME NEW c \in Callers, DownloadOhlcv(c) PROVE IInv' BY <2>9, StepDownloadOhlcv
  <2>10. ASSUME NEW c \in Callers, WriteOhlcv(c) PROVE IInv' BY <2>10, StepWriteOhlcv
  <2>11. ASSUME NEW c \in Callers, LoadOhlcvDf(c) PROVE IInv' BY <2>11, StepLoadOhlcvDf
  <2>12. ASSUME NEW c \in Callers, Return(c) PROVE IInv' BY <2>12, StepReturn
  <2>13. ASSUME NEW c \in Callers, ReadTruncated(c) PROVE IInv' BY <2>13, StepReadTruncated
  <2>14. CASE UNCHANGED vars
    <3>1. UNCHANGED <<config, today, yahoo, akshare, call>> BY <2>14 DEF vars
    <3>2. ConfigInv' /\ FilesInv' BY <3>1, ConfigStays, FilesStay DEF IInv
    <3>3. \A c \in Callers : call'[c] # Idle => CallInv(call[c])' BY <3>1, NewCall DEF IInv
    <3> QED BY <3>1, <3>2, <3>3 DEF IInv
  <2> HIDE DEF IInv
  <2> QED BY <2>1, <2>2, <2>3, <2>4, <2>5, <2>6, <2>7, <2>8, <2>9, <2>10, <2>11, <2>12, <2>13,
          <2>14
          DEF Next
<1> QED BY <1>1, InitIInv, PTL DEF Spec

-----------------------------------------------------------------------------
(* The properties.                                                         *)

LEMMA DoneCall ==
  ASSUME IInv, NEW c \in Callers, Answered(c)
  PROVE  /\ call[c] \in Calls /\ Len(call[c].tried) \in DOMAIN call[c].chain
         /\ Good(call[c], By(c), call[c].reply.rows)
<1>1. call[c] \in Calls /\ CallInv(call[c]) BY InACall DEF Answered, At
<1> QED BY <1>1 DEF Answered, At, By, Calls, CallInv

\* Backtests never see the future: whatever vendor, file or fallback it comes
\* from (route_to_vendor, load_ohlcv, load_ohlcv_df and the filters of the
\* vendor functions), an answer of prices, indicators, a snapshot, statements,
\* macro data or news to a call that gives its date has nothing about a day
\* after it, if the prices and statements of Alpha Vantage could be parsed.
THEOREM NeverTheFuture == Spec => []NothingFromTheFuture
<1>1. IInv => NothingFromTheFuture
  <2> SUFFICES ASSUME IInv, NEW c \in Callers, Answered(c), call[c].method \notin WithoutDate,
                      call[c].dated, ~Unparsed(c), NEW r \in call[c].reply.rows
               PROVE  r.day <= call[c].date /\ (r.day < 0 => call[c].date >= r.on - 1)
    BY DEF NothingFromTheFuture
  <2>1. Cut(call[c], By(c)) BY DEF Cut, Unparsed
  <2> QED BY <2>1, DoneCall DEF Good, Past
<1> QED BY <1>1, Inductive, PTL

\* _assert_ohlcv_not_stale does its work, with LookBack and MaxStale whatever
\* they are, files left half written and downloads that overlap: what Yahoo's
\* prices are answered with ends near the date, unless it was put together date
\* by date, and is no older than the call.
THEOREM PricesAreFresh == Spec => []YahooPricesAreFresh
<1>1. IInv => YahooPricesAreFresh
  <2> SUFFICES ASSUME IInv, NEW c \in Callers, Answered(c), By(c) = "yfinance",
                      call[c].method \in PriceMethods
               PROVE  /\ call[c].again \/ \E r \in call[c].reply.rows : call[c].date - r.day <= MaxStale
                      /\ \A r \in call[c].reply.rows : r.on >= call[c].began
    BY DEF YahooPricesAreFresh
  <2> QED BY DoneCall DEF Good, Fresh
<1> QED BY <1>1, Inductive, PTL

\* No silent fallback (route_to_vendor): every vendor the router asked is one
\* the configuration named when the call was made, even if a second graph sets
\* another one meanwhile, and "no data" is the word of a vendor.
THEOREM OnlyTheChosenAreAsked == Spec => []OnlyChosenVendors
<1>1. IInv => OnlyChosenVendors
  <2> SUFFICES ASSUME IInv, NEW c \in Callers, ~At(c, "idle")
               PROVE  /\ call[c].method # Verified /\ call[c].chosen # <<>> /\ call[c].tried # <<>> =>
                           By(c) \in ToSet(call[c].chosen)
                      /\ At(c, "done") /\ call[c].reply.kind = "NO_DATA_AVAILABLE" =>
                           Len(call[c].tried) = Len(call[c].chain) /\ "no_data" \in Kinds(c)
    BY DEF OnlyChosenVendors, At, Verified
  <2>1. call[c] \in Calls /\ CallInv(call[c]) BY InACall
  <2>2. ASSUME call[c].method # Verified, call[c].chosen # <<>>, call[c].tried # <<>>
        PROVE  By(c) \in ToSet(call[c].chosen)
    <3>1. Len(call[c].tried) \in DOMAIN call[c].chain BY <2>1, <2>2 DEF Calls, CallInv
    <3>2. By(c) \in ToSet(call[c].chain) BY <3>1 DEF By, ToSet
    <3> QED BY <2>1, <2>2, <3>2 DEF CallInv
  <2> QED BY <2>1, <2>2 DEF CallInv, At, Kinds, ToSet
<1> QED BY <1>1, Inductive, PTL
=============================================================================
