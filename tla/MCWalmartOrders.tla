-------------------------- MODULE MCWalmartOrders --------------------------
(* Purchase orders, one on a page, and a return of one of them that can be *)
(* ingested.                                                               *)
EXTENDS WalmartOrders

MCWork == {"ack", "ship", "cancel"} \X PO
MCJobId == 1..3
MCOf == [r \in Return |-> CHOOSE po \in PO \ Stuck : TRUE]
=============================================================================
