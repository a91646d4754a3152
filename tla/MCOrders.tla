------------------------------ MODULE MCOrders ------------------------------
(***************************************************************************)
(* Orders for TLC: identities are model values, interchangeable because    *)
(* the specification only compares them.                                   *)
(***************************************************************************)
EXTENDS Orders, TLC

Symmetry == Permutations(Order) \cup Permutations(Variant)
=============================================================================
