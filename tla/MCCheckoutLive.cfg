SPECIFICATION UnattendedSpec
CONSTANTS
  Order = {o1, o2}
  Variant = {v1}
  MaxQuantity = 1
  MaxOnHand = 1
  MaxCents = 1
  Subtotal = 1
  Charge = 1
  NoAllocation = NoAllocation
  NoOrder = NoOrder
PROPERTIES AbandonedOrdersAreReleased
CHECK_DEADLOCK FALSE
