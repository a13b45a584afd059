SPECIFICATION Spec
CONSTANTS
  s1 = s1  s2 = s2
  Candles <- MCCandles
  Requests <- MCRequests
  Senders = {s1, s2}
  FirstSubscribers = {s1}
  Comers = {s2}
  NoGroup = NoGroup
  NoCandle = NoCandle
  MaxOrders = 3
  MaxTicks = 2
INVARIANTS FilledWithinPrice OneOfEachGroup NoTriggerMissed TicksAnswered
PROPERTIES FillsFollowThePath
CHECK_DEADLOCK FALSE
