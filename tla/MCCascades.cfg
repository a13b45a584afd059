SPECIFICATION Spec
CONSTANTS
  Prices <- PricesValue
  Requests <- CascadeRequests
  Agents = {1}
  Groups = {0}
  MaxOrders = 6
  MaxTime = 2
PROPERTY CascadesComplete
CONSTRAINT EachOnce
