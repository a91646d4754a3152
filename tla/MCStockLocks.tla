---------------------------- MODULE MCStockLocks ----------------------------
(***************************************************************************)
(* StockLocks for TLC: connections are interchangeable.                    *)
(***************************************************************************)
EXTENDS StockLocks, TLC

Symmetry == Permutations(Transaction)
=============================================================================
