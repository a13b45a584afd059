SPECIFICATION ExchangeSpec
CONSTANTS
  Prices <- PricesValue
  Requests <- LateRequests
  Agents = {"a", "b"}
  NoGroup = "single"
  FirstSubscribers = {"a"}
  Comers = {"b"}
  Groups = {"g", "single"}
  MaxOrders = 5
  MaxTime = 4
INVARIANT EveryTradeIsTold
CONSTRAINT EachOnce
