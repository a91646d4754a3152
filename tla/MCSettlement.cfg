SPECIFICATION Spec
CONSTANTS
  p1 = p1
  p2 = p2
  k1 = k1
  price = price
  ship = ship
  i1 = i1
  i2 = i2
  PO = {p1, p2}
  Importer = {i1, i2}
  NoFigure = NoFigure
  None = None
  Reports <- MCReports
  Payloads <- MCPayloads
  MaxCalls = 3
  MaxFaults = 1
INVARIANTS TypeOK LedgerHoldsTheReports ComparedGroupsAreExact
SYMMETRY MCSymmetry
CHECK_DEADLOCK FALSE
