SPECIFICATION Spec
CONSTANTS
  Order = {s1, s2, w1}
  WalmartOrder = {w1}
  Variant = {1, 2}
  MaxQuantity = 1
  Shelf = 2
  Transaction = {t1, t2, t3}
  Nobody = Nobody
SYMMETRY Symmetry
INVARIANTS TypeOK OnlyIngestsDeadlock
PROPERTIES CommitsAreAtomic
CHECK_DEADLOCK FALSE
