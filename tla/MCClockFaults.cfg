SPECIFICATION Spec
CONSTANTS
  e1 = e1  e2 = e2  t1 = t1  t2 = t2  t3 = t3
  Exchanges = {e1, e2}
  Traders = {t1, t2}
  Responders = {t1}
  Requests <- AskingRequests
  NumTicks = 2
  MayFail = TRUE
  LateStart = TRUE
INVARIANTS ExchangesBeforeTraders DecisionsBeforeNextTick
CHECK_DEADLOCK FALSE
