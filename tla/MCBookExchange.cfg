SPECIFICATION ExchangeSpec
CONSTANTS
  Prices <- ThreePrices
  Requests <- AllRequests
  Agents = {"a", "b"}
  NoGroup = "single"
  FirstSubscribers = {"a"}
  Comers = {"b"}
  Groups = {"g", "single"}
  MaxOrders = 4
  MaxTime = 3
INVARIANT BookHoldsOpenOrders
INVARIANT TradesAddUp
PROPERTY PriceTimePriority
PROPERTY StopsSettled
INVARIANT NoDuplicateNotifications
INVARIANT TimelyTradesAreTold
INVARIANT SiblingsOfMarketOrdersAreCanceled
PROPERTY SiblingsWaitForTheFill
PROPERTY TicksAreAnswered
CONSTRAINT Unmixed
