--------------------------- MODULE MCCheckoutLive ---------------------------
(***************************************************************************)
(* Checkout for TLC's liveness checking, without the help of               *)
(* administrators: all they can do to a pending order is cancel it sooner. *)
(***************************************************************************)
EXTENDS Checkout

UnattendedSpec ==
  CheckoutInit /\ [][CheckoutNext /\ UNCHANGED admin]_allVars /\ CheckoutFairness
=============================================================================
