----------------------------- MODULE MCCheckout -----------------------------
(***************************************************************************)
(* Checkout for TLC.                                                       *)
(***************************************************************************)
EXTENDS Checkout, TLC

Symmetry == Permutations(Order)
=============================================================================
