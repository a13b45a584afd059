SPECIFICATION Spec
CONSTANTS
  Prices <- PricesValue
  Requests <- BookRequests
  Agents = {1}
  Groups = {0}
  MaxOrders = 4
  MaxTime = 2
INVARIANT TypeOK
INVARIANT BookHoldsOpenOrders
INVARIANT NotCrossed
INVARIANT TradesAddUp
PROPERTY PriceTimePriority
PROPERTY StopsSettled
PROPERTY EveryCallReturns
