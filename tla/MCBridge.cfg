SPECIFICATION BridgeSpec
CONSTANTS
  MaxQty = 4
  Weights <- MCWeights
  Lot = 2
  MinTrade = 1
  MaxTick = 6
  DateOf <- TwoTicksPerDate
  NoOrder = NoOrder
  Configs <- Ablations
  Markets <- MCMarkets
  PeriodDays = 2
  ForceEvery = 2
  MaxDrawdown = 18
  MemoryBudget = 60
  PinDays = 5
INVARIANTS SoldOnlyFromEarlierDates LedgerMatchesAccount SalesCovered
INVARIANTS BuysStayWithinTheRegime DecisionsAreFresh CrisesAreRemembered
CHECK_DEADLOCK FALSE
