SPECIFICATION Spec
CONSTANTS
  Order = {o1, o2, o3}
  Variant = {v1}
  MaxQuantity = 2
  MaxOnHand = 3
  MaxCents = 1
  NoAllocation = NoAllocation
SYMMETRY Symmetry
INVARIANTS TypeOK StockInvariant ReservedIsHeld NoInventoryConflict FiguresAgreeWithGuards
PROPERTIES ChannelsIsolated RefundsOnlyGrow ImplementsStockPromises
CHECK_DEADLOCK FALSE
