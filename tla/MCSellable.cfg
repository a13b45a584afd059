SPECIFICATION Spec
CONSTANTS
  MaxQty = 6
  Lot = 2
  MinTrade = 1
  MaxTick = 4
  DateOf <- OneTickPerDate
  NoOrder = NoOrder
INVARIANTS SellableOnTheNextDate
CHECK_DEADLOCK FALSE
