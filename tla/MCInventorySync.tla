-------------------------- MODULE MCInventorySync --------------------------
(* Requests change the stock of a variant whose listing comes and goes,    *)
(* while the drain and the sweep push it and another, which Walmart always *)
(* refuses.                                                                *)
EXTENDS InventorySync

MCJobId == 1..3
MCFigure == 0..1
=============================================================================
