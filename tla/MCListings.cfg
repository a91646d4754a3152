SPECIFICATION Spec
CONSTANTS
  p1 = p1
  s1 = s1
  s2 = s2
  v1 = v1
  v2 = v2
  k1 = k1
  k2 = k2
  a1 = a1
  a2 = a2
  l1 = l1
  l2 = l2
  w1 = w1
  w2 = w2
  f1 = f1
  f2 = f2
  Product = {p1}
  Slug = {s1, s2}
  Variant = {v1, v2}
  Sku = {k1, k2}
  Admin = {a1, a2}
  None = None
  MaxEdits = 3
  MaxItems = 2
  Listing = {l1, l2}
  WalmartSku = {w1, w2}
  Feed = {f1, f2}
INVARIANTS TypeOK PublicUrlsAreLocked VerdictsAreBacked
SYMMETRY MCSymmetry
CHECK_DEADLOCK FALSE
