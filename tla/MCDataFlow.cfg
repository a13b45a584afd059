SPECIFICATION Spec
CONSTANTS
  s0 = s0
  Symbols = {s0}
  Trades <- MCTrades
  Reports <- MCReports
  Articles <- MCArticles
  Keys = {"alpha_vantage"}
  LookBack = 2  CacheYears = 4  MaxStale = 1  MaxRetries = 1
  Callers = {c1, c2}
  Configs <- MCConfigs
  Asked <- MCAsked
  Dates <- MCDates
  MaxCalls = 2
  FirstDay = 5
  LastDay = 6
INVARIANTS NothingFromTheFuture YahooPricesAreFresh OnlyChosenVendors
SYMMETRY Alike
CHECK_DEADLOCK FALSE
