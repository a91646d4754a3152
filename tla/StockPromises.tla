--------------------------- MODULE StockPromises ---------------------------
(***************************************************************************)
(* What the stock bookkeeping of the service promises, without the         *)
(* bookkeeping: an order is promised units once, keeps the promise until   *)
(* it is settled, and the units promised to all orders together are always *)
(* in the building.  There is no reserved counter and no allocation here;  *)
(* module Orders implements this one with them.                            *)
(***************************************************************************)
EXTENDS Holds

VARIABLES
  stock,    \* units in the building, per variant
  life,     \* "new", "promised" or "settled", per order
  promise   \* the units of each order, per variant

vars == <<stock, life, promise>>

Life == {"new", "promised", "settled"}

(* The units of v promised to all orders together. *)
Promised == {o \in Order : life[o] = "promised"}

Committed(v) == HoldCount(Promised, promise, v)

Init ==
  /\ stock \in [Variant -> Nat]
  /\ life = [o \in Order |-> "new"]
  /\ promise = [o \in Order |-> [v \in Variant |-> 0]]

(* Units are promised to an order only out of those promised to nobody. *)
Promise(o, q) ==
  /\ life[o] = "new"
  /\ \A v \in Variant : q[v] > 0 => Committed(v) + q[v] <= stock[v]
  /\ life' = [life EXCEPT ![o] = "promised"]
  /\ promise' = [promise EXCEPT ![o] = q]
  /\ UNCHANGED stock

(* The promise is called off and the units stay. *)
CallOff(o) ==
  /\ life[o] = "promised"
  /\ life' = [life EXCEPT ![o] = "settled"]
  /\ UNCHANGED <<stock, promise>>

(* Exactly the promised units leave. *)
Ship(o) ==
  /\ life[o] = "promised"
  /\ life' = [life EXCEPT ![o] = "settled"]
  /\ stock' = [v \in Variant |-> stock[v] - promise[o][v]]
  /\ UNCHANGED promise

(* A stock count never goes below what is promised. *)
Count(v) ==
  /\ stock'[v] \in Nat
  /\ Committed(v) <= stock'[v]
  /\ stock' = [stock EXCEPT ![v] = stock'[v]]
  /\ UNCHANGED <<life, promise>>

Next ==
  \/ \E o \in Order :
       \/ \E q \in Quantities : Promise(o, q)
       \/ CallOff(o)
       \/ Ship(o)
  \/ \E v \in Variant : Count(v)

Spec == Init /\ [][Next]_vars

TypeOK ==
  /\ stock \in [Variant -> Nat]
  /\ life \in [Order -> Life]
  /\ promise \in [Order -> Quantities]

(* Every promise can be kept. *)
NoOversell == \A v \in Variant : Committed(v) <= stock[v]
=============================================================================
