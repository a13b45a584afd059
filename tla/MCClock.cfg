SPECIFICATION FairSpec
CONSTANTS
  e1 = e1  e2 = e2  t1 = t1  t2 = t2  t3 = t3
  Exchanges = {e1, e2}
  Traders = {t1, t2, t3}
  Responders = {t1, t2}
  Requests <- AskingRequests
  NumTicks = 3
  MayFail = FALSE
  LateStart = FALSE
INVARIANTS TypeOK NoDecisionOutstanding
PROPERTIES ImplementsLockStep Terminates
CHECK_DEADLOCK FALSE
