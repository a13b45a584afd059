SPECIFICATION Spec
CONSTANTS
  MaxEntries = 2  NSame = 1  NCross = 1
  Procs = {p1}
  Tickers = {a, b}
  Dates <- MCDates
  Shapes = {s1, s2}
  GraphNodes = 2
  HoldingDays = 2
  CheckpointEnabled = TRUE
  Logs <- MCLogs
  ContextDates = {1}
  MaxRuns = 3
  FirstDay = 1
  LastDay = 2
PROPERTIES CompletedNodesAreNotRepeated
CHECK_DEADLOCK FALSE
