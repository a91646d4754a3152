SPECIFICATION CheckoutSpec
CONSTANTS
  Order = {o1, o2}
  Variant = {v1}
  MaxQuantity = 1
  MaxOnHand = 1
  MaxCents = 2
  Subtotal = 1
  Charge = 2
  NoAllocation = NoAllocation
  NoOrder = NoOrder
PROPERTIES ConfirmingIsNotCancelled
CHECK_DEADLOCK FALSE
