SPECIFICATION ExchangeSpec
CONSTANTS
  Prices <- PricesValue
  Requests <- ShortRequests
  Agents = {"a", "b"}
  NoGroup = "single"
  FirstSubscribers = {"a"}
  Comers = {"b"}
  Groups = {"g", "single"}
  MaxOrders = 2
  MaxTime = 3
INVARIANT ShortsAreToldAsShorts
