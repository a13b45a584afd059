SPECIFICATION FairSpec
CONSTANTS
  e1 = e1  e2 = e2  t1 = t1  t2 = t2  t3 = t3
  Exchanges = {e1}
  Traders = {t1, t2}
  Responders = {t1}
  Requests <- BridgeRequests
  NumTicks = 2
  MayFail = FALSE
  LateStart = FALSE
PROPERTIES LoopReachesTheEnd
CHECK_DEADLOCK FALSE
