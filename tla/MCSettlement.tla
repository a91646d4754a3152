---------------------------- MODULE MCSettlement ----------------------------
(* An itemised sale with shipping, of which a unit was cancelled, and an   *)
(* order whose rows repeat an identity, lack one, or carry a commission.   *)
EXTENDS Settlement, TLC

Row(po, type, key, item, amount, fee) ==
  [po |-> po, type |-> type, key |-> key, item |-> item, amount |-> amount, fee |-> fee]

CONSTANTS p1, p2, k1, price, ship

Price == Row(p1, "Sale", None, price, 2, 0)
Ship == Row(p1, "Sale", None, ship, 1, 0)
Refund == Row(p1, "Refund", None, price, -2, 1)
Bare == Row(p2, "Sale", None, None, 1, 0)
Keyed == Row(p2, "Sale", k1, price, 2, 0)
Again == Row(p2, "Sale", k1, price, 1, 0)
Paid == Row(p2, "Sale", k1, ship, 1, 1)

MCReports == {[day |-> 1, rows |-> <<Price>>],
              [day |-> 1, rows |-> <<Price, Ship, Keyed>>],
              [day |-> 1, rows |-> <<Ship, Refund, Price>>],
              [day |-> 1, rows |-> <<Bare, Bare>>],
              [day |-> 2, rows |-> <<Keyed, Again>>],
              [day |-> 2, rows |-> <<Paid, Keyed>>]}

Line(ordered, cancelled, product, tax, shipping) ==
  [ordered |-> ordered, cancelled |-> cancelled, product |-> product, tax |-> tax, shipping |-> shipping]

MCPayloads == {NoFigure, <<Line(2, 1, 1, 1, 1), Line(1, 1, 1, 0, 0)>>}
MCSymmetry == Permutations(Importer)
=============================================================================
