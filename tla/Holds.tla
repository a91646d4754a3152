------------------------------- MODULE Holds -------------------------------
(***************************************************************************)
(* How many units of a variant a set of orders holds, counted unit by unit *)
(* from the order lines.  Orders keeps the same figure in a counter; this  *)
(* is what the counter is compared with.                                   *)
(***************************************************************************)
EXTENDS Integers, FiniteSets

CONSTANTS
  Order,        \* identities of the orders that may be placed
  Variant,      \* sellable variants
  MaxQuantity   \* bound on the quantity of one variant in one order

ASSUME HoldsAssumption == IsFiniteSet(Order) /\ MaxQuantity \in Nat

(* A quantity per variant: the lines of one order. *)
Quantities == [Variant -> 0..MaxQuantity]

(* One element per unit of v that the orders in who have lines for. *)
Units(who, q, v) == {u \in who \X (1..MaxQuantity) : u[2] <= q[u[1]][v]}

HoldCount(who, q, v) == Cardinality(Units(who, q, v))
=============================================================================
