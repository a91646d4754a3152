--------------------------- MODULE CheckoutProofs ---------------------------
(***************************************************************************)
(* What holds of Orders for any set of orders and variants and any bounds: *)
(* the types, the stock invariant of the schema, that the reserved counter *)
(* is what open orders hold, that inventory_conflict is never thrown, and  *)
(* that every step is one of StockPromises.                                *)
(*                                                                         *)
(* Whatever requests, webhooks, the sweep and administrators do, they do   *)
(* it to orders and stock by the transactions of Orders: all that is       *)
(* proved of Orders holds of Checkout.  And what Checkout does with money, *)
(* for any number of orders and any figures of Stripe's: payments are      *)
(* accounted for, refunds apply, paid orders keep their stock, and flags   *)
(* are respected.                                                          *)
(***************************************************************************)
EXTENDS Checkout, FiniteSetTheorems, TLAPS

-----------------------------------------------------------------------------
(* What HoldCount does when one order starts or stops holding units.       *)
(* These facts stand in for an induction over the set of orders: every     *)
(* transaction changes the holds of one order only.                        *)

(* A row of n units has n of them. *)
LEMMA RowOfUnits ==
  ASSUME NEW x, NEW n \in Nat
  PROVE  IsFiniteSet({x} \X (1..n)) /\ Cardinality({x} \X (1..n)) = n
<1>1. IsFiniteSet({x}) /\ Cardinality({x}) = 1
  BY FS_Singleton
<1>2. IsFiniteSet(1..n) /\ Cardinality(1..n) = IF 1 > n THEN 0 ELSE n - 1 + 1
  <2>1. 1 \in Int /\ n \in Int
    OBVIOUS
  <2>2. QED
    BY ONLY <2>1, FS_Interval
<1>3. Cardinality(1..n) = n
  BY <1>2
<1>4. /\ IsFiniteSet({x} \X (1..n))
      /\ Cardinality({x} \X (1..n)) = Cardinality({x}) * Cardinality(1..n)
  BY <1>1, <1>2, FS_Product
<1>5. Cardinality({x} \X (1..n)) = 1 * n
  BY <1>1, <1>3, <1>4, Zenon
<1>6. QED
  BY <1>4, <1>5

(* The units of one order are as many as its lines say. *)
LEMMA OneOrder ==
  ASSUME NEW o \in Order, NEW q \in [Order -> Quantities], NEW v \in Variant
  PROVE  /\ IsFiniteSet(Units({o}, q, v))
         /\ HoldCount({o}, q, v) = q[o][v]
<1>1. q[o][v] \in 0..MaxQuantity
  BY DEF Quantities
<1>2. q[o][v] \in Nat
  BY <1>1, HoldsAssumption
<1>3. Units({o}, q, v) = {o} \X (1..q[o][v])
  BY <1>1, HoldsAssumption DEF Units
<1>4. IsFiniteSet({o} \X (1..q[o][v])) /\ Cardinality({o} \X (1..q[o][v])) = q[o][v]
  BY <1>2, RowOfUnits
<1>5. QED
  BY <1>3, <1>4, Zenon DEF HoldCount

(* The units held by any set of orders can be counted. *)
LEMMA HoldsFinite ==
  ASSUME NEW who \in SUBSET Order, NEW q, NEW v
  PROVE  IsFiniteSet(Units(who, q, v)) /\ HoldCount(who, q, v) \in Nat
<1>1. IsFiniteSet(who)
  BY FS_Subset, HoldsAssumption
<1>2. IsFiniteSet(1..MaxQuantity)
  BY FS_Interval, HoldsAssumption
<1>3. IsFiniteSet(who \X (1..MaxQuantity))
  BY <1>1, <1>2, FS_Product
<1>4. Units(who, q, v) \in SUBSET (who \X (1..MaxQuantity))
  BY DEF Units
<1>5. QED
  BY <1>3, <1>4, FS_Subset, FS_CardinalityType DEF HoldCount

(* An order that joins the holders adds exactly its own lines. *)
THEOREM HoldAdded ==
  ASSUME NEW who \in SUBSET Order, NEW o \in Order, o \notin who,
         NEW q \in [Order -> Quantities], NEW v \in Variant
  PROVE  HoldCount(who \cup {o}, q, v) = HoldCount(who, q, v) + q[o][v]
<1>1. Units(who \cup {o}, q, v) = Units(who, q, v) \cup Units({o}, q, v)
  BY DEF Units
<1>2. Units(who, q, v) \cap Units({o}, q, v) = {}
  BY DEF Units
<1>3. Cardinality({}) = 0
  BY FS_EmptySet
<1>4. IsFiniteSet(Units(who, q, v)) /\ IsFiniteSet(Units({o}, q, v))
  BY HoldsFinite, OneOrder
<1>5. Cardinality(Units(who, q, v) \cup Units({o}, q, v))
        = Cardinality(Units(who, q, v)) + Cardinality(Units({o}, q, v))
             - Cardinality(Units(who, q, v) \cap Units({o}, q, v))
  BY <1>4, FS_Union
<1>6. HoldCount(who \cup {o}, q, v)
        = HoldCount(who, q, v) + HoldCount({o}, q, v) - 0
  BY <1>1, <1>2, <1>3, <1>5, Zenon DEF HoldCount
<1>7. HoldCount(who, q, v) \in Nat /\ HoldCount({o}, q, v) = q[o][v]
  BY HoldsFinite, OneOrder
<1>8. q[o][v] \in Nat
  BY HoldsAssumption DEF Quantities
<1>9. QED
  BY <1>6, <1>7, <1>8

(* The lines of orders that hold nothing do not count. *)
LEMMA OnlyHoldersCount ==
  ASSUME NEW who, NEW p, NEW q, NEW v, \A o \in who : p[o] = q[o]
  PROVE  HoldCount(who, p, v) = HoldCount(who, q, v)
<1>1. Units(who, p, v) = Units(who, q, v)
  BY DEF Units
<1>2. QED
  BY <1>1 DEF HoldCount

(* A holder never holds more than all holders together. *)
THEOREM HolderWithinHolds ==
  ASSUME NEW who \in SUBSET Order, NEW o \in who,
         NEW q \in [Order -> Quantities], NEW v \in Variant
  PROVE  /\ HoldCount(who, q, v) = HoldCount(who \ {o}, q, v) + q[o][v]
         /\ q[o][v] <= HoldCount(who, q, v)
<1>1. (who \ {o}) \cup {o} = who
  OBVIOUS
<1>2. HoldCount((who \ {o}) \cup {o}, q, v) = HoldCount(who \ {o}, q, v) + q[o][v]
  BY HoldAdded
<1>3. HoldCount(who, q, v) = HoldCount(who \ {o}, q, v) + q[o][v]
  BY <1>1, <1>2, Zenon
<1>4. HoldCount(who \ {o}, q, v) \in Nat
  BY HoldsFinite
<1>5. q[o][v] \in Nat
  BY HoldsAssumption DEF Quantities
<1>6. QED
  BY <1>3, <1>4, <1>5

-----------------------------------------------------------------------------
(* The bounds are natural numbers. *)
LEMMA Bounds == MaxQuantity \in Nat /\ MaxOnHand \in Nat /\ MaxCents \in Nat /\ NoAllocation \notin Nat
BY HoldsAssumption, OrdersAssumption

(* A released hold leaves counters that are counters. *)
LEMMA ReleaseTyped ==
  ASSUME TypeOK, NEW o \in Order, ReleaseReservation(o)
  PROVE  reserved' \in [Variant -> Nat] /\ allocation' \in [Variant -> Nat \cup {NoAllocation}]
<1>1. ASSUME NEW v \in Variant
      PROVE  /\ reserved[v] - lines[o][v] \in Nat
             /\ allocation[v] # NoAllocation => allocation[v] + lines[o][v] \in Nat
  <2>1. lines[o][v] \in Nat /\ reserved[v] \in Nat /\ allocation[v] \in Nat \cup {NoAllocation}
    BY Bounds DEF TypeOK, Quantities
  <2>2. lines[o][v] > 0 => reserved[v] >= lines[o][v]
    BY DEF ReleaseReservation, Ordered
  <2>3. QED
    BY ONLY <2>1, <2>2
<1>2. reserved' \in [Variant -> Nat]
  BY <1>1 DEF ReleaseReservation
<1>3. ASSUME NEW v \in Variant PROVE allocation'[v] \in Nat \cup {NoAllocation}
  BY <1>1 DEF ReleaseReservation, TypeOK
<1>4. QED
  BY <1>2, <1>3 DEF ReleaseReservation

-----------------------------------------------------------------------------
(* Every figure stays in its range: in particular no counter goes below    *)
(* zero, whatever the order of transactions.                               *)
THEOREM TypeCorrect == Spec => []TypeOK
<1>1. Init => TypeOK
  BY Bounds DEF Init, TypeOK, Status, Channel, Quantities, Cents
<1>2. TypeOK /\ [Next]_vars => TypeOK'
  <2> SUFFICES ASSUME TypeOK, [Next]_vars PROVE TypeOK'
    OBVIOUS
  <2> USE Bounds DEF TypeOK, Status, Channel, Quantities, Cents, stockVars, moneyVars
  <2>1. ASSUME NEW o \in Order, NEW q \in Quantities, NEW total \in Cents,
              PlaceOrder(o, q, total)
       PROVE  TypeOK'
    BY <2>1 DEF PlaceOrder, StorefrontCovers, Ordered
  <2>2. ASSUME NEW o \in Order, NEW q \in Quantities, NEW total \in Cents,
              IngestWalmartOrder(o, q, total)
       PROVE  TypeOK'
    <3>1. \A v \in Variant : q[v] \in Nat
      OBVIOUS
    <3>2. reserved' \in [Variant -> Nat]
      BY <2>2, <3>1 DEF IngestWalmartOrder
    <3>3. allocation' \in [Variant -> Nat \cup {NoAllocation}]
      <4>1. ASSUME NEW v \in Variant, allocation[v] # NoAllocation
            PROVE  allocation[v] \in Nat /\ allocation[v] >= q[v]
        BY <2>2, <3>1, <4>1 DEF IngestWalmartOrder, WalmartCovers, Ordered
      <4>2. ASSUME NEW v \in Variant, allocation[v] # NoAllocation
            PROVE  allocation[v] - q[v] \in Nat
        BY <3>1, <4>1, <4>2
      <4>3. QED
        BY <2>2, <4>2 DEF IngestWalmartOrder
    <3>4. QED
      BY <2>2, <3>2, <3>3 DEF IngestWalmartOrder
  <2>3. ASSUME NEW o \in Order, NEW total \in Cents,
              MarkOrderPaid(o, total)
       PROVE  TypeOK'
    BY <2>3 DEF MarkOrderPaid
  <2>4. ASSUME NEW o \in Order, NEW total \in Cents,
              RecordPaidAfterCancel(o, total)
       PROVE  TypeOK'
    BY <2>4 DEF RecordPaidAfterCancel
  <2>5. ASSUME NEW o \in Order,
              FulfillOrder(o)
       PROVE  TypeOK'
    <3>1. ASSUME NEW v \in Variant
          PROVE  onHand[v] - lines[o][v] \in Nat /\ reserved[v] - lines[o][v] \in Nat
      <4>1. lines[o][v] \in Nat /\ onHand[v] \in Nat /\ reserved[v] \in Nat
        OBVIOUS
      <4>2. lines[o][v] > 0 => reserved[v] >= lines[o][v] /\ onHand[v] >= lines[o][v]
        BY <2>5 DEF FulfillOrder, Ordered
      <4>3. QED
        BY ONLY <4>1, <4>2
    <3>2. onHand' \in [Variant -> Nat] /\ reserved' \in [Variant -> Nat]
      BY <2>5, <3>1 DEF FulfillOrder
    <3>3. QED
      BY <2>5, <3>2 DEF FulfillOrder
  <2>6. ASSUME NEW o \in Order,
              CancelOrder(o)
       PROVE  TypeOK'
    <3>1. reserved' \in [Variant -> Nat] /\ allocation' \in [Variant -> Nat \cup {NoAllocation}]
      BY <2>6, ReleaseTyped DEF CancelOrder
    <3>2. QED
      BY <2>6, <3>1 DEF CancelOrder, ReleaseReservation
  <2>7. ASSUME NEW o \in Order, NEW amount \in Cents,
              RefundPartially(o, amount)
       PROVE  TypeOK'
    BY <2>7 DEF RefundPartially, RefundAccepted, RefundedFigure
  <2>8. ASSUME NEW o \in Order, NEW amount \in Cents,
              RefundFully(o, amount)
       PROVE  TypeOK'
    <3>1. reserved' \in [Variant -> Nat] /\ allocation' \in [Variant -> Nat \cup {NoAllocation}]
      BY <2>8, ReleaseTyped DEF RefundFully
    <3>2. QED
      BY <2>8, <3>1 DEF RefundFully, RefundAccepted, RefundedFigure, ReleaseReservation
  <2>9. ASSUME NEW o \in Order,
              RefundWalmartReturn(o)
       PROVE  TypeOK'
    BY <2>9 DEF RefundWalmartReturn
  <2>10. ASSUME NEW v \in Variant, NEW figure \in 0..MaxOnHand,
                NEW alloc \in (0..MaxOnHand) \cup {NoAllocation},
              SetStock(v, figure, alloc)
       PROVE  TypeOK'
    BY <2>10 DEF SetStock, ReservedAndAllocatedFit, Coalesce
  <2>11. CASE UNCHANGED vars
    BY <2>11 DEF vars
  <2>12. QED
    BY <2>1, <2>2, <2>3, <2>4, <2>5, <2>6, <2>7, <2>8, <2>9, <2>10, <2>11 DEF Next
<1>3. QED
  BY <1>1, <1>2, PTL DEF Spec

-----------------------------------------------------------------------------
(* The three things a step can do to the holds: an order starts to hold    *)
(* the lines it is given, an order stops holding its lines, or no hold     *)
(* changes.                                                                *)
Opens(o, q) ==
  /\ o \notin OpenOrders
  /\ OpenOrders' = OpenOrders \cup {o}
  /\ lines' = [lines EXCEPT ![o] = q]
  /\ \A v \in Variant : reserved'[v] = reserved[v] + q[v]

Closes(o) ==
  /\ o \in OpenOrders
  /\ OpenOrders' = OpenOrders \ {o}
  /\ lines' = lines
  /\ \A v \in Variant : reserved'[v] = reserved[v] - lines[o][v]

KeepsHolds == OpenOrders' = OpenOrders /\ lines' = lines /\ reserved' = reserved

(* No transaction does anything else to the holds. *)
LEMMA StepEffect ==
  ASSUME TypeOK, [Next]_vars
  PROVE  \/ \E o \in Order, q \in Quantities : Opens(o, q)
         \/ \E o \in Order : Closes(o)
         \/ KeepsHolds
<1> USE DEF OpenOrders, Open
<1>1. ASSUME NEW o \in Order, NEW q \in Quantities, NEW total \in Cents,
             PlaceOrder(o, q, total) \/ IngestWalmartOrder(o, q, total)
      PROVE  Opens(o, q)
  BY <1>1 DEF PlaceOrder, IngestWalmartOrder, Opens, TypeOK
<1>2. ASSUME NEW o \in Order, NEW total \in Cents,
             MarkOrderPaid(o, total) \/ RecordPaidAfterCancel(o, total)
      PROVE  KeepsHolds
  BY <1>2 DEF MarkOrderPaid, RecordPaidAfterCancel, KeepsHolds, TypeOK, stockVars
<1>3. ASSUME NEW o \in Order, FulfillOrder(o)
      PROVE  Closes(o)
  BY <1>3 DEF FulfillOrder, Closes, TypeOK
<1>4. ASSUME NEW o \in Order, CancelOrder(o)
      PROVE  Closes(o)
  BY <1>4 DEF CancelOrder, ReleaseReservation, Closes, TypeOK
<1>5. ASSUME NEW o \in Order, NEW amount \in Cents, RefundPartially(o, amount)
      PROVE  KeepsHolds
  BY <1>5 DEF RefundPartially, KeepsHolds, stockVars
<1>6. ASSUME NEW o \in Order, NEW amount \in Cents, RefundFully(o, amount)
      PROVE  Closes(o) \/ KeepsHolds
  <2>1. CASE HeldAtRefund(o)
    BY <1>6, <2>1 DEF RefundFully, HeldAtRefund, ReleaseReservation, Closes, TypeOK
  <2>2. CASE ~HeldAtRefund(o)
    BY <1>6, <2>2 DEF RefundFully, HeldAtRefund, KeepsHolds, TypeOK, stockVars
  <2>3. QED
    BY <2>1, <2>2
<1>7. ASSUME NEW o \in Order, RefundWalmartReturn(o)
      PROVE  KeepsHolds
  BY <1>7 DEF RefundWalmartReturn, KeepsHolds, TypeOK, stockVars
<1>8. ASSUME NEW v \in Variant, NEW figure \in 0..MaxOnHand,
             NEW alloc \in (0..MaxOnHand) \cup {NoAllocation}, SetStock(v, figure, alloc)
      PROVE  KeepsHolds
  BY <1>8 DEF SetStock, KeepsHolds
<1>9. CASE UNCHANGED vars
  BY <1>9 DEF vars, KeepsHolds
<1>10. QED
  BY <1>1, <1>2, <1>3, <1>4, <1>5, <1>6, <1>7, <1>8, <1>9 DEF Next

(* The reserved counter is exactly what open orders hold, for any number   *)
(* of orders and after any sequence of transactions.                       *)
THEOREM CounterIsHeld == Spec => []ReservedIsHeld
<1>1. Init => ReservedIsHeld
  <2> SUFFICES ASSUME Init, NEW v \in Variant
               PROVE  reserved[v] = HoldCount(OpenOrders, lines, v)
    BY DEF ReservedIsHeld
  <2>1. OpenOrders = {}
    BY DEF Init, OpenOrders, Open
  <2>2. Units(OpenOrders, lines, v) = {}
    BY <2>1 DEF Units
  <2>3. HoldCount(OpenOrders, lines, v) = 0
    BY <2>2, FS_EmptySet, Zenon DEF HoldCount
  <2>4. QED
    BY <2>3 DEF Init
<1>2. TypeOK /\ ReservedIsHeld /\ [Next]_vars => ReservedIsHeld'
  <2> SUFFICES ASSUME TypeOK, ReservedIsHeld, [Next]_vars, NEW v \in Variant
               PROVE  reserved'[v] = HoldCount(OpenOrders', lines', v)
    BY DEF ReservedIsHeld
  <2>1. reserved[v] = HoldCount(OpenOrders, lines, v)
    BY DEF ReservedIsHeld
  <2>2. lines \in [Order -> Quantities] /\ OpenOrders \in SUBSET Order
    BY DEF TypeOK, OpenOrders
  <2>3. ASSUME NEW o \in Order, NEW q \in Quantities, Opens(o, q)
        PROVE  reserved'[v] = HoldCount(OpenOrders', lines', v)
    <3>1. lines' \in [Order -> Quantities] /\ lines'[o] = q
      BY <2>2, <2>3 DEF Opens
    <3>2. \A i \in OpenOrders : lines'[i] = lines[i]
      BY <2>2, <2>3 DEF Opens
    <3>3. HoldCount(OpenOrders \cup {o}, lines', v) = HoldCount(OpenOrders, lines', v) + lines'[o][v]
      <4>1. o \notin OpenOrders
        BY <2>3 DEF Opens
      <4>2. \A p \in [Order -> Quantities] :
              HoldCount(OpenOrders \cup {o}, p, v) = HoldCount(OpenOrders, p, v) + p[o][v]
        BY <2>2, <4>1, HoldAdded
      <4>3. QED
        BY <3>1, <4>2, Zenon
    <3>4. HoldCount(OpenOrders, lines', v) = HoldCount(OpenOrders, lines, v)
      BY <3>2, OnlyHoldersCount
    <3>5. QED
      BY <2>1, <2>3, <3>1, <3>3, <3>4, Zenon DEF Opens
  <2>4. ASSUME NEW o \in Order, Closes(o)
        PROVE  reserved'[v] = HoldCount(OpenOrders', lines', v)
    <3>1. HoldCount(OpenOrders, lines, v) = HoldCount(OpenOrders \ {o}, lines, v) + lines[o][v]
      BY <2>2, <2>4, HolderWithinHolds DEF Closes
    <3>2. HoldCount(OpenOrders \ {o}, lines, v) \in Nat
      BY <2>2, HoldsFinite
    <3>3. lines[o][v] \in Nat
      BY <2>2, Bounds DEF Quantities
    <3>4. reserved'[v] = reserved[v] - lines[o][v]
      BY <2>4 DEF Closes
    <3>5. reserved'[v] = HoldCount(OpenOrders \ {o}, lines, v)
      BY <2>1, <3>1, <3>2, <3>3, <3>4
    <3>6. QED
      BY <2>4, <3>5, Zenon DEF Closes
  <2>5. CASE KeepsHolds
    BY <2>1, <2>5, Zenon DEF KeepsHolds
  <2>6. QED
    BY <2>3, <2>4, <2>5, StepEffect
<1>3. QED
  BY <1>1, <1>2, TypeCorrect, PTL DEF Spec

-----------------------------------------------------------------------------
(* The stock invariant, strengthened with what makes it inductive: the     *)
(* counters are counters, and reserved is what open orders hold.           *)
IInv == TypeOK /\ ReservedIsHeld /\ StockInvariant

(* An open order never holds more than the counter, nor than the shelf.    *)
LEMMA HoldWithinStock ==
  ASSUME IInv, NEW o \in OpenOrders, NEW v \in Variant
  PROVE  /\ lines[o][v] \in Nat
         /\ lines[o][v] <= reserved[v]
         /\ reserved[v] <= onHand[v]
<1>1. lines \in [Order -> Quantities] /\ OpenOrders \in SUBSET Order
  BY DEF IInv, TypeOK, OpenOrders
<1>2. lines[o][v] <= HoldCount(OpenOrders, lines, v)
  BY <1>1, HolderWithinHolds
<1>3. reserved[v] = HoldCount(OpenOrders, lines, v)
  BY DEF IInv, ReservedIsHeld
<1>4. reserved[v] + Coalesce(allocation[v]) <= onHand[v]
  BY DEF IInv, StockInvariant
<1>5. Coalesce(allocation[v]) \in Nat /\ reserved[v] \in Nat /\ onHand[v] \in Nat
  BY DEF IInv, TypeOK, Coalesce
<1>6. lines[o][v] \in Nat
  BY <1>1, Bounds DEF Quantities
<1>7. lines[o][v] <= reserved[v]
  BY <1>2, <1>3, Zenon
<1>8. QED
  BY <1>4, <1>5, <1>6, <1>7

(* inventory_conflict is never thrown: whatever the invariants hold of, an *)
(* open order can be shipped and can be released.                          *)
LEMMA InvariantsRuleOutConflict == IInv => NoInventoryConflict
<1> SUFFICES ASSUME IInv, NEW o \in Order, Open(o), NEW v \in Ordered(lines[o])
             PROVE  reserved[v] >= lines[o][v] /\ onHand[v] >= lines[o][v]
  BY DEF NoInventoryConflict
<1>1. o \in OpenOrders /\ v \in Variant
  BY DEF OpenOrders, Ordered
<1>2. /\ lines[o][v] \in Nat
      /\ lines[o][v] <= reserved[v]
      /\ reserved[v] <= onHand[v]
  BY <1>1, HoldWithinStock
<1>3. reserved[v] \in Nat /\ onHand[v] \in Nat
  BY <1>1 DEF IInv, TypeOK
<1>4. QED
  BY <1>2, <1>3

(* Every transaction leaves the columns of each variant within on_hand.    *)
LEMMA StockKept ==
  ASSUME TypeOK, StockInvariant, [Next]_vars, NEW w \in Variant
  PROVE  reserved'[w] + Coalesce(allocation'[w]) <= onHand'[w]
<1>0. /\ reserved[w] \in Nat /\ onHand[w] \in Nat
      /\ allocation[w] \in Nat \cup {NoAllocation}
      /\ \A o \in Order : lines[o][w] \in Nat
      /\ \A q \in Quantities : q[w] \in Nat
  BY Bounds DEF TypeOK, Quantities
<1>a. reserved[w] + Coalesce(allocation[w]) <= onHand[w]
  BY DEF StockInvariant
<1> USE Bounds DEF Coalesce
<1>1. ASSUME NEW o \in Order, NEW q \in Quantities, NEW total \in Cents, PlaceOrder(o, q, total)
      PROVE  reserved'[w] + Coalesce(allocation'[w]) <= onHand'[w]
  BY <1>0, <1>a, <1>1 DEF PlaceOrder, StorefrontCovers, Ordered, Free
<1>2. ASSUME NEW o \in Order, NEW q \in Quantities, NEW total \in Cents, IngestWalmartOrder(o, q, total)
      PROVE  reserved'[w] + Coalesce(allocation'[w]) <= onHand'[w]
  BY <1>0, <1>a, <1>2 DEF IngestWalmartOrder, WalmartCovers, Ordered, Free
<1>3. ASSUME NEW o \in Order, FulfillOrder(o)
      PROVE  reserved'[w] + Coalesce(allocation'[w]) <= onHand'[w]
  BY <1>0, <1>a, <1>3 DEF FulfillOrder
<1>4. ASSUME NEW o \in Order, ReleaseReservation(o)
      PROVE  reserved'[w] + Coalesce(allocation'[w]) <= onHand'[w]
  BY <1>0, <1>a, <1>4 DEF ReleaseReservation
<1>5. ASSUME NEW v \in Variant, NEW figure \in 0..MaxOnHand,
             NEW alloc \in (0..MaxOnHand) \cup {NoAllocation}, SetStock(v, figure, alloc)
      PROVE  reserved'[w] + Coalesce(allocation'[w]) <= onHand'[w]
  BY <1>0, <1>a, <1>5 DEF SetStock, ReservedAndAllocatedFit, TypeOK
<1>6. CASE UNCHANGED stockVars
  BY <1>a, <1>6 DEF stockVars
<1>7. QED
  BY <1>1, <1>2, <1>3, <1>4, <1>5, <1>6
     DEF Next, vars, stockVars, MarkOrderPaid, RecordPaidAfterCancel, CancelOrder,
         RefundPartially, RefundFully, RefundWalmartReturn

(* The schema's invariant: reserved + COALESCE(walmart_allocation, 0)      *)
(* never exceeds on_hand, whichever channel sells, refunds or counts.      *)
THEOREM StockSafe == Spec => []StockInvariant
<1>1. Init => StockInvariant
  BY Bounds DEF Init, StockInvariant, Coalesce
<1>2. TypeOK /\ StockInvariant /\ [Next]_vars => StockInvariant'
  <2> SUFFICES ASSUME TypeOK, StockInvariant, [Next]_vars, NEW w \in Variant
               PROVE  reserved'[w] + Coalesce(allocation'[w]) <= onHand'[w]
    BY DEF StockInvariant, Coalesce
  <2> QED
    BY StockKept
<1>3. QED
  BY <1>1, <1>2, TypeCorrect, PTL DEF Spec

(* The guarded UPDATEs of fulfillOrder and releaseReservation always match *)
(* their row: inventory_conflict is unreachable.                           *)
THEOREM ConflictNeverThrown == Spec => []NoInventoryConflict
<1>1. IInv => NoInventoryConflict
  BY InvariantsRuleOutConflict
<1>2. TypeOK /\ ReservedIsHeld /\ StockInvariant => IInv
  BY DEF IInv
<1>3. QED
  BY <1>1, <1>2, TypeCorrect, CounterIsHeld, StockSafe, PTL

-----------------------------------------------------------------------------
(* While a variant has an allocation the two figures are the two shares of *)
(* what is free: Walmart's the allocation, the storefront's the rest.      *)
LEMMA SharesWithAllocation ==
  ASSUME TypeOK, StockInvariant, NEW v \in Variant, allocation[v] # NoAllocation
  PROVE  /\ allocation[v] \in Nat /\ Free(v) \in Int
         /\ StorefrontSellable(v) = Free(v) - allocation[v]
         /\ WalmartSellable(v) = allocation[v]
<1>1. allocation[v] \in Nat /\ onHand[v] \in Nat /\ reserved[v] \in Nat
  BY DEF TypeOK
<1>2. reserved[v] + allocation[v] <= onHand[v]
  BY DEF StockInvariant, Coalesce
<1>3. QED
  BY <1>1, <1>2 DEF StorefrontSellable, WalmartSellable, Coalesce, Free

(* A line of n units is within a channel's figure just when the channel's  *)
(* guard lets it pass, whatever the allocation, and even if what is free   *)
(* were below zero.                                                        *)
LEMMA FiguresByLine ==
  ASSUME TypeOK, NEW v \in Variant, NEW n \in Nat, n > 0
  PROVE  /\ n <= StorefrontSellable(v) <=> Free(v) - Coalesce(allocation[v]) >= n
         /\ n <= WalmartSellable(v) <=>
              Free(v) >= n /\ (allocation[v] # NoAllocation => allocation[v] >= n)
<1>1. /\ Free(v) \in Int /\ Coalesce(allocation[v]) \in Nat
      /\ allocation[v] \in Nat \cup {NoAllocation}
  BY DEF TypeOK, Free, Coalesce
<1>2. n <= StorefrontSellable(v) <=> Free(v) - Coalesce(allocation[v]) >= n
  BY <1>1 DEF StorefrontSellable
<1>3. n <= WalmartSellable(v) <=>
        Free(v) >= n /\ (allocation[v] # NoAllocation => allocation[v] >= n)
  BY <1>1 DEF WalmartSellable
<1>4. QED
  BY <1>2, <1>3

(* A figure is never negative: what is not ordered is always within it. *)
LEMMA FiguresAreNatural ==
  ASSUME TypeOK, NEW v \in Variant
  PROVE  StorefrontSellable(v) \in Nat /\ WalmartSellable(v) \in Nat
<1>1. /\ Free(v) \in Int /\ Coalesce(allocation[v]) \in Nat
      /\ allocation[v] \in Nat \cup {NoAllocation}
  BY DEF TypeOK, Free, Coalesce
<1>2. QED
  BY <1>1 DEF StorefrontSellable, WalmartSellable

(* placeOrder and ingestWalmartOrder accept exactly the orders that are    *)
(* within what allocation.ts tells the channels; with an allocation, no    *)
(* unit is sold to both.                                                   *)
THEOREM FiguresAreWhatGuardsAccept == Spec => []FiguresAgreeWithGuards
<1>1. TypeOK /\ StockInvariant => FiguresAgreeWithGuards
  <2> SUFFICES ASSUME TypeOK, StockInvariant, NEW q \in Quantities
               PROVE  /\ StorefrontCovers(q) <=> \A v \in Variant : q[v] <= StorefrontSellable(v)
                      /\ WalmartCovers(q) <=> \A v \in Variant : q[v] <= WalmartSellable(v)
                      /\ StorefrontCovers(q) =>
                           \A r \in Quantities, v \in Variant :
                             WalmartCovers(r) /\ allocation[v] # NoAllocation => q[v] + r[v] <= Free(v)
    BY DEF FiguresAgreeWithGuards
  <2>1. \A r \in Quantities, v \in Variant : r[v] \in Nat
    BY Bounds DEF Quantities
  <2>2. ASSUME NEW r \in Quantities
        PROVE  /\ StorefrontCovers(r) <=> \A v \in Variant : r[v] <= StorefrontSellable(v)
               /\ WalmartCovers(r) <=> \A v \in Variant : r[v] <= WalmartSellable(v)
    <3>1. ASSUME NEW v \in Variant, v \notin Ordered(r)
          PROVE  r[v] <= StorefrontSellable(v) /\ r[v] <= WalmartSellable(v)
      <4>1. r[v] = 0
        BY <2>1, <3>1 DEF Ordered
      <4>2. QED
        BY <4>1, FiguresAreNatural
    <3>2. ASSUME NEW v \in Ordered(r)
          PROVE  /\ v \in Variant
                 /\ r[v] <= StorefrontSellable(v) <=> Free(v) - Coalesce(allocation[v]) >= r[v]
                 /\ r[v] <= WalmartSellable(v) <=>
                      Free(v) >= r[v] /\ (allocation[v] # NoAllocation => allocation[v] >= r[v])
      <4>1. v \in Variant /\ r[v] \in Nat /\ r[v] > 0
        BY <2>1 DEF Ordered
      <4>2. QED
        BY <4>1, FiguresByLine
    <3>3. QED
      BY <3>1, <3>2 DEF StorefrontCovers, WalmartCovers
  <2>3. ASSUME StorefrontCovers(q), NEW r \in Quantities, NEW v \in Variant,
               WalmartCovers(r), allocation[v] # NoAllocation
        PROVE  q[v] + r[v] <= Free(v)
    <3>1. q[v] <= StorefrontSellable(v) /\ r[v] <= WalmartSellable(v)
      BY <2>2, <2>3
    <3>2. q[v] \in Nat /\ r[v] \in Nat
      BY <2>1
    <3>3. QED
      BY <2>3, <3>1, <3>2, SharesWithAllocation
  <2>4. QED
    BY <2>2, <2>3
<1>2. QED
  BY <1>1, TypeCorrect, StockSafe, PTL

(* A transaction that moves an order of Walmart's takes from the           *)
(* allocation, or gives back to it, exactly what it takes from what is     *)
(* free; one that moves an order of the storefront leaves the allocation.  *)
LEMMA MovesWithinShare ==
  ASSUME TypeOK, [Next]_vars, NEW v \in Variant, allocation[v] # NoAllocation,
         NEW c \in Channel, Moved(c)
  PROVE  /\ allocation'[v] # NoAllocation
         /\ c = "walmart" => (onHand'[v] - reserved'[v]) - allocation'[v] = Free(v) - allocation[v]
         /\ c = "storefront" => allocation'[v] = allocation[v]
<1> DEFINE Goal == /\ allocation'[v] # NoAllocation
                   /\ c = "walmart" =>
                        (onHand'[v] - reserved'[v]) - allocation'[v] = Free(v) - allocation[v]
                   /\ c = "storefront" => allocation'[v] = allocation[v]
<1>0. /\ reserved[v] \in Nat /\ onHand[v] \in Nat /\ allocation[v] \in Nat
      /\ \A o \in Order : lines[o][v] \in Nat
      /\ \A q \in Quantities : q[v] \in Nat
      /\ NoAllocation \notin Int
  BY Bounds, OrdersAssumption DEF TypeOK, Quantities
<1>1. ASSUME NEW o \in Order, NEW q \in Quantities, NEW total \in Cents, PlaceOrder(o, q, total)
      PROVE  Goal
  <2>1. c # "walmart"
    BY <1>1 DEF PlaceOrder, Moved, TypeOK
  <2>2. QED
    BY <1>0, <1>1, <2>1 DEF PlaceOrder
<1>2. ASSUME NEW o \in Order, NEW q \in Quantities, NEW total \in Cents,
             IngestWalmartOrder(o, q, total)
      PROVE  Goal
  <2>1. c # "storefront"
    BY <1>2 DEF IngestWalmartOrder, Moved, TypeOK
  <2>2. QED
    BY <1>0, <1>2, <2>1 DEF IngestWalmartOrder, Free
<1>3. ASSUME NEW o \in Order, NEW amount \in Cents,
             \/ MarkOrderPaid(o, amount) \/ RecordPaidAfterCancel(o, amount)
             \/ RefundPartially(o, amount) \/ RefundWalmartReturn(o)
      PROVE  Goal
  BY <1>0, <1>3 DEF MarkOrderPaid, RecordPaidAfterCancel, RefundPartially, RefundWalmartReturn,
     stockVars, Free
<1>4. ASSUME NEW o \in Order, FulfillOrder(o)
      PROVE  Goal
  BY <1>0, <1>4 DEF FulfillOrder, Free
<1>5. ASSUME NEW o \in Order, ReleaseReservation(o), channel[o] = c
      PROVE  Goal
  BY <1>0, <1>5 DEF ReleaseReservation, Free
<1>6. ASSUME NEW o \in Order, CancelOrder(o)
      PROVE  Goal
  <2>1. channel[o] = c
    BY <1>6 DEF CancelOrder, Moved, TypeOK
  <2>2. QED
    BY <1>5, <1>6, <2>1 DEF CancelOrder
<1>7. ASSUME NEW o \in Order, NEW amount \in Cents, RefundFully(o, amount)
      PROVE  Goal
  <2>1. channel[o] = c
    BY <1>7 DEF RefundFully, Moved, TypeOK
  <2>2. QED
    BY <1>0, <1>5, <1>7, <2>1 DEF RefundFully, stockVars, Free
<1>8. ASSUME NEW w \in Variant, NEW figure \in 0..MaxOnHand,
             NEW alloc \in (0..MaxOnHand) \cup {NoAllocation}, SetStock(w, figure, alloc)
      PROVE  FALSE
  BY <1>8 DEF SetStock, Moved
<1>9. ~ UNCHANGED vars
  BY DEF vars, Moved
<1>10. 0 \in Cents
  BY Bounds DEF Cents
<1>11. QED
  BY <1>1, <1>2, <1>3, <1>4, <1>6, <1>7, <1>8, <1>9, <1>10 DEF Next

(* Spec 5.1: whatever happens to one channel's orders, the other channel   *)
(* may sell what it could sell before.                                     *)
THEOREM ChannelsStayIsolated == Spec => ChannelsIsolated
<1>1. TypeOK /\ TypeOK' /\ StockInvariant /\ StockInvariant' /\ [Next]_vars =>
        [\A v \in Variant : allocation[v] # NoAllocation =>
           /\ Moved("walmart") => StorefrontSellable(v)' = StorefrontSellable(v)
           /\ Moved("storefront") => WalmartSellable(v)' = WalmartSellable(v)]_vars
  <2> SUFFICES ASSUME TypeOK, TypeOK', StockInvariant, StockInvariant', [Next]_vars,
                      NEW v \in Variant, allocation[v] # NoAllocation
               PROVE  /\ Moved("walmart") => StorefrontSellable(v)' = StorefrontSellable(v)
                      /\ Moved("storefront") => WalmartSellable(v)' = WalmartSellable(v)
    OBVIOUS
  <2>1. /\ StorefrontSellable(v) = Free(v) - allocation[v]
        /\ WalmartSellable(v) = allocation[v]
    BY SharesWithAllocation
  <2>2. allocation'[v] # NoAllocation =>
          /\ StorefrontSellable(v)' = (onHand'[v] - reserved'[v]) - allocation'[v]
          /\ WalmartSellable(v)' = allocation'[v]
    <3> SUFFICES ASSUME allocation'[v] # NoAllocation
                 PROVE  /\ StorefrontSellable(v)' = (onHand'[v] - reserved'[v]) - allocation'[v]
                        /\ WalmartSellable(v)' = allocation'[v]
      OBVIOUS
    <3>1. allocation'[v] \in Nat /\ onHand'[v] \in Nat /\ reserved'[v] \in Nat
      BY DEF TypeOK
    <3>2. reserved'[v] + allocation'[v] <= onHand'[v]
      BY DEF StockInvariant, Coalesce
    <3>3. QED
      BY <3>1, <3>2 DEF StorefrontSellable, WalmartSellable, Coalesce, Free
  <2>3. ASSUME Moved("walmart") PROVE StorefrontSellable(v)' = StorefrontSellable(v)
    BY <2>1, <2>2, <2>3, MovesWithinShare DEF Channel
  <2>4. ASSUME Moved("storefront") PROVE WalmartSellable(v)' = WalmartSellable(v)
    BY <2>1, <2>2, <2>4, MovesWithinShare DEF Channel
  <2>5. QED
    BY <2>3, <2>4
<1>2. QED
  BY <1>1, TypeCorrect, StockSafe, PTL DEF Spec, ChannelsIsolated

(* Cumulative refund figures in any order never lower what is recorded as  *)
(* refunded, and a refunded order stays refunded.                          *)
THEOREM RefundedStaysRefunded == Spec => RefundsOnlyGrow
<1>1. TypeOK /\ [Next]_vars =>
        [\A o \in Order :
           /\ refundedCents'[o] >= refundedCents[o]
           /\ status[o] = "refunded" => status'[o] = "refunded"]_vars
  <2> SUFFICES ASSUME TypeOK, Next, NEW p \in Order
               PROVE  /\ refundedCents'[p] >= refundedCents[p]
                      /\ status[p] = "refunded" => status'[p] = "refunded"
    OBVIOUS
  <2> USE DEF Open, moneyVars
  <2>1. /\ status \in [Order -> Status] /\ refundedCents \in [Order -> Cents]
        /\ \A n \in Cents : n \in Int
    BY Bounds DEF TypeOK, Cents
  <2>2. ASSUME NEW o \in Order, NEW amount \in Cents, RefundPartially(o, amount) \/ RefundFully(o, amount)
        PROVE  /\ refundedCents'[p] >= refundedCents[p]
               /\ status[p] = "refunded" => status'[p] = "refunded"
    BY <2>1, <2>2 DEF RefundPartially, RefundFully, RefundedFigure
  <2>3. ASSUME NEW o \in Order, NEW q \in Quantities, NEW total \in Cents,
               \/ PlaceOrder(o, q, total) \/ IngestWalmartOrder(o, q, total)
               \/ MarkOrderPaid(o, total) \/ RecordPaidAfterCancel(o, total)
               \/ FulfillOrder(o) \/ CancelOrder(o) \/ RefundWalmartReturn(o)
        PROVE  /\ refundedCents' = refundedCents
               /\ status[p] = "refunded" => status'[p] = "refunded"
    BY <2>1, <2>3 DEF PlaceOrder, IngestWalmartOrder, MarkOrderPaid, RecordPaidAfterCancel,
       FulfillOrder, CancelOrder, RefundWalmartReturn
  <2>4. ASSUME NEW v \in Variant, NEW figure \in 0..MaxOnHand,
               NEW alloc \in (0..MaxOnHand) \cup {NoAllocation}, SetStock(v, figure, alloc)
        PROVE  refundedCents' = refundedCents /\ status' = status
    BY <2>4 DEF SetStock
  <2>5. 0 \in Cents /\ \E q : q \in Quantities
    <3>1. [v \in Variant |-> 0] \in Quantities
      BY Bounds DEF Quantities
    <3>2. QED
      BY <3>1, Bounds DEF Cents
  <2>6. QED
    BY <2>1, <2>2, <2>3, <2>4, <2>5 DEF Next
<1>2. QED
  BY <1>1, TypeCorrect, PTL DEF Spec, RefundsOnlyGrow

-----------------------------------------------------------------------------
(* What StockPromises calls promised is what Orders calls open, and the    *)
(* units it counts are the ones in the reserved counter.                   *)
LEMMA PromisedIsOpen == Promises!Promised = OpenOrders
<1>1. \A o \in Order : Life[o] = "promised" <=> Open(o)
  BY DEF Life, Open
<1>2. QED
  BY <1>1, Zenon DEF Promises!Promised, OpenOrders

LEMMA CommittedIsReserved ==
  ASSUME IInv, NEW v \in Variant
  PROVE  Promises!Committed(v) = reserved[v]
<1>1. reserved[v] = HoldCount(OpenOrders, lines, v)
  BY DEF IInv, ReservedIsHeld
<1>2. Promises!Committed(v) = HoldCount(OpenOrders, lines, v)
  BY PromisedIsOpen, Zenon
     DEF Promises!Committed, Promises!HoldCount, HoldCount, Promises!Units, Units,
         Promises!Cardinality, Cardinality
<1>3. QED
  BY <1>1, <1>2, Zenon

(* One transaction of Orders is one step of StockPromises, or no step.     *)
LEMMA StepPromises ==
  ASSUME IInv, [Next]_vars
  PROVE  [Promises!Next]_(Promises!vars)
<1> USE DEF Life, Open
<1>0. TypeOK /\ StockInvariant
  BY DEF IInv
<1>1. ASSUME NEW o \in Order, NEW q \in Quantities, NEW total \in Cents,
             PlaceOrder(o, q, total) \/ IngestWalmartOrder(o, q, total)
      PROVE  Promises!Promise(o, q)
  <2>1. ASSUME NEW v \in Variant, q[v] > 0
        PROVE  Promises!Committed(v) + q[v] <= onHand[v]
    <3>1. Free(v) >= q[v]
      <4>1. CASE PlaceOrder(o, q, total)
        <5>1. Free(v) - Coalesce(allocation[v]) >= q[v]
          BY <2>1, <4>1 DEF PlaceOrder, StorefrontCovers, Ordered
        <5>2. Coalesce(allocation[v]) \in Nat
          BY <1>0 DEF Coalesce, TypeOK
        <5>3. Free(v) \in Int /\ q[v] \in Nat
          BY <1>0, Bounds DEF Free, TypeOK, Quantities
        <5>4. QED
          BY <5>1, <5>2, <5>3
      <4>2. CASE IngestWalmartOrder(o, q, total)
        BY <2>1, <4>2 DEF IngestWalmartOrder, WalmartCovers, Ordered
      <4>3. QED
        BY <1>1, <4>1, <4>2
    <3>2. Promises!Committed(v) = reserved[v]
      BY CommittedIsReserved
    <3>3. q[v] \in Nat /\ onHand[v] \in Nat /\ reserved[v] \in Nat
      BY <1>0, Bounds DEF TypeOK, Quantities
    <3>4. QED
      BY <3>1, <3>2, <3>3 DEF Free
  <2>2. Life[o] = "new" /\ Life' = [Life EXCEPT ![o] = "promised"]
    BY <1>0, <1>1 DEF PlaceOrder, IngestWalmartOrder, TypeOK
  <2>3. lines' = [lines EXCEPT ![o] = q] /\ onHand' = onHand
    BY <1>1 DEF PlaceOrder, IngestWalmartOrder
  <2>4. QED
    BY <2>1, <2>2, <2>3 DEF Promises!Promise
<1>2. ASSUME NEW o \in Order, FulfillOrder(o)
      PROVE  Promises!Ship(o)
  BY <1>0, <1>2 DEF FulfillOrder, Promises!Ship, TypeOK
<1>3. ASSUME NEW o \in Order, CancelOrder(o)
      PROVE  Promises!CallOff(o)
  BY <1>0, <1>3 DEF CancelOrder, ReleaseReservation, Promises!CallOff, TypeOK
<1>4. ASSUME NEW o \in Order, NEW amount \in Cents, RefundFully(o, amount)
      PROVE  Promises!CallOff(o) \/ UNCHANGED Promises!vars
  <2>1. CASE HeldAtRefund(o)
    BY <1>0, <1>4, <2>1 DEF RefundFully, HeldAtRefund, ReleaseReservation, Promises!CallOff, TypeOK
  <2>2. CASE ~HeldAtRefund(o)
    BY <1>0, <1>4, <2>2 DEF RefundFully, HeldAtRefund, Promises!vars, TypeOK, stockVars
  <2>3. QED
    BY <2>1, <2>2
<1>5. ASSUME NEW v \in Variant, NEW figure \in 0..MaxOnHand,
             NEW alloc \in (0..MaxOnHand) \cup {NoAllocation}, SetStock(v, figure, alloc)
      PROVE  Promises!Count(v)
  <2>1. onHand' = [onHand EXCEPT ![v] = figure] /\ onHand'[v] = figure
    BY <1>0, <1>5 DEF SetStock, TypeOK
  <2>2. figure \in Nat /\ reserved[v] <= figure
    BY <1>0, <1>5, Bounds DEF SetStock, ReservedAndAllocatedFit, TypeOK
  <2>3. Promises!Committed(v) <= onHand'[v]
    BY <2>1, <2>2, CommittedIsReserved
  <2>4. Life' = Life /\ lines' = lines
    BY <1>5 DEF SetStock
  <2>5. QED
    BY <2>1, <2>2, <2>3, <2>4 DEF Promises!Count
<1>6. ASSUME NEW o \in Order, NEW total \in Cents,
             \/ MarkOrderPaid(o, total) \/ RecordPaidAfterCancel(o, total)
             \/ RefundPartially(o, total) \/ RefundWalmartReturn(o)
      PROVE  UNCHANGED Promises!vars
  BY <1>0, <1>6 DEF MarkOrderPaid, RecordPaidAfterCancel, RefundPartially, RefundWalmartReturn,
                    Promises!vars, TypeOK, stockVars
<1>7. CASE UNCHANGED vars
  BY <1>7 DEF vars, Promises!vars
<1>8. 0 \in Cents
  BY Bounds DEF Cents
<1>9. QED
  BY <1>1, <1>2, <1>3, <1>4, <1>5, <1>6, <1>7, <1>8 DEF Next, Promises!Next, Promises!Quantities, Quantities

(* Orders implements StockPromises: for any number of orders and variants, *)
(* units are promised once, and only units that are in the building.       *)
THEOREM OrdersImplementsStockPromises == Spec => ImplementsStockPromises
<1>1. Init => Promises!Init
  BY DEF Init, Promises!Init, Life, Open
<1>2. IInv /\ [Next]_vars => [Promises!Next]_(Promises!vars)
  BY StepPromises
<1>3. TypeOK /\ ReservedIsHeld /\ StockInvariant => IInv
  BY DEF IInv
<1>4. QED
  BY <1>1, <1>2, <1>3, TypeCorrect, CounterIsHeld, StockSafe, PTL
     DEF Spec, ImplementsStockPromises, Promises!Spec

-----------------------------------------------------------------------------
(* Checkout *)

(* Stripe's figures are within the bounds of Orders. *)
LEMMA Figures == Subtotal \in Cents /\ Charge \in Cents /\ \A n \in 1..Charge : n \in Cents
BY CheckoutAssumption, OrdersAssumption DEF Cents

(* While a request releases a previous order, there is one. *)
PreviousKnown ==
  /\ request \in [Order -> Request]
  /\ previous \in [Order -> Order \cup {NoOrder}]
  /\ \A o \in Order : request[o] \in {"expiringPrevious", "cancellingPrevious"} => previous[o] \in Order

LEMMA PreviousStaysKnown == CheckoutSpec => []PreviousKnown
<1>1. CheckoutInit => PreviousKnown
  BY DEF CheckoutInit, PreviousKnown, Request
<1>2. PreviousKnown /\ [CheckoutNext]_allVars => PreviousKnown'
  <2> SUFFICES ASSUME PreviousKnown, [CheckoutNext]_allVars PROVE PreviousKnown'
    OBVIOUS
  <2> USE DEF PreviousKnown, Request
  <2>1. ASSUME NEW o \in Order, NEW p \in (Order \ {o}) \cup {NoOrder}, StartCheckout(o, p)
        PROVE  PreviousKnown'
    BY <2>1 DEF StartCheckout
  <2>2. ASSUME NEW o \in Order, RequestStep(o)
        PROVE  PreviousKnown'
    <3>1. CASE ExpirePrevious(o)
      BY <3>1 DEF ExpirePrevious
    <3>2. CASE CancelPrevious(o)
      BY <3>2 DEF CancelPrevious
    <3>3. ASSUME NEW q \in Quantities, PlaceCheckoutOrder(o, q)
          PROVE  PreviousKnown'
      BY <3>3 DEF PlaceCheckoutOrder
    <3>4. CASE CreateSession(o)
      BY <3>4 DEF CreateSession
    <3>5. CASE ReleaseAfterFailure(o)
      BY <3>5 DEF ReleaseAfterFailure
    <3>6. CASE SaveSession(o)
      BY <3>6 DEF SaveSession
    <3>7. CASE RequestFails(o)
      BY <3>7 DEF RequestFails
    <3>8. QED
      BY <2>2, <3>1, <3>2, <3>3, <3>4, <3>5, <3>6, <3>7 DEF RequestStep
  <2>3. CASE UNCHANGED <<request, previous>>
    BY <2>3
  <2>4. ASSUME NEW o \in Order, WebhookStep(o)
        PROVE  UNCHANGED <<request, previous>>
    BY <2>4 DEF WebhookStep, OnCompleted, OnExpired, OnRefunded, OnDispute, Deliver
  <2>5. ASSUME NEW o \in Order, StripeStep(o)
        PROVE  UNCHANGED <<request, previous>>
    BY <2>5 DEF StripeStep, Pay, SessionExpires, RefundAtStripe, DisputeAtStripe
  <2>6. ASSUME NEW o \in Order, AdministratorStep(o)
        PROVE  UNCHANGED <<request, previous>>
    BY <2>6 DEF AdministratorStep, RequestCancel, AdminExpires, AdminCancels, AdminCancelsDisputed,
                RequestShip, AdminShips, AdminFails
  <2>7. ASSUME NEW o \in Order, GrowOld(o) \/ SweepingStep(o)
        PROVE  UNCHANGED <<request, previous>>
    BY <2>7 DEF GrowOld, SweepingStep, SweepChecks, SweepCancels, SweepFails
  <2>8. StartSweep => UNCHANGED <<request, previous>>
    BY DEF StartSweep
  <2>9. UNCHANGED allVars => UNCHANGED <<request, previous>>
    BY DEF allVars, checkoutVars
  <2>10. QED
    BY <2>1, <2>2, <2>3, <2>4, <2>5, <2>6, <2>7, <2>8, <2>9 DEF CheckoutNext
<1>3. QED
  BY <1>1, <1>2, PTL DEF CheckoutSpec

(* A cancel with onlyIfPending is a transaction of Orders, or nothing. *)
LEMMA CancelIfPendingIsAnOrdersStep ==
  ASSUME NEW o \in Order, CancelIfPending(o)
  PROVE  [Next]_vars
BY DEF CancelIfPending, Next

(* Every step of the checkout that touches orders or stock is one of the   *)
(* transactions of Orders.                                                 *)
LEMMA CheckoutStepIsAnOrdersStep ==
  ASSUME PreviousKnown, [CheckoutNext]_allVars
  PROVE  [Next]_vars
<1>1. ASSUME NEW o \in Order, RequestStep(o)
      PROVE  [Next]_vars
  <2>1. CASE CancelPrevious(o)
    BY <2>1, CancelIfPendingIsAnOrdersStep DEF CancelPrevious, PreviousKnown
  <2>2. ASSUME NEW q \in Quantities, PlaceCheckoutOrder(o, q)
        PROVE  Next
    BY <2>2, Figures DEF PlaceCheckoutOrder, Next
  <2>3. CASE ReleaseAfterFailure(o)
    BY <2>3, CancelIfPendingIsAnOrdersStep DEF ReleaseAfterFailure
  <2>4. CASE ExpirePrevious(o) \/ CreateSession(o) \/ SaveSession(o) \/ RequestFails(o)
    BY <2>4 DEF ExpirePrevious, CreateSession, SaveSession, RequestFails
  <2>5. QED
    BY <1>1, <2>1, <2>2, <2>3, <2>4 DEF RequestStep
<1>2. ASSUME NEW o \in Order, WebhookStep(o)
      PROVE  [Next]_vars
  <2>1. CASE OnCompleted(o)
    BY <2>1, Figures DEF OnCompleted, PaidAfterCancel, Next
  <2>2. CASE OnExpired(o)
    BY <2>2, CancelIfPendingIsAnOrdersStep DEF OnExpired
  <2>3. ASSUME NEW n \in 1..Charge, OnRefunded(o, n)
        PROVE  [Next]_vars
    BY <2>3, Figures DEF OnRefunded, Next
  <2>4. CASE OnDispute(o)
    BY <2>4 DEF OnDispute
  <2>5. QED
    BY <1>2, <2>1, <2>2, <2>3, <2>4 DEF WebhookStep
<1>3. ASSUME NEW o \in Order, AdministratorStep(o)
      PROVE  [Next]_vars
  <2>1. CASE AdminCancels(o)
    BY <2>1, CancelIfPendingIsAnOrdersStep DEF AdminCancels
  <2>2. CASE AdminCancelsDisputed(o) \/ AdminShips(o)
    BY <2>2 DEF AdminCancelsDisputed, AdminShips, Next
  <2>3. CASE RequestCancel(o) \/ AdminExpires(o) \/ RequestShip(o) \/ AdminFails(o)
    BY <2>3 DEF RequestCancel, AdminExpires, RequestShip, AdminFails
  <2>4. QED
    BY <1>3, <2>1, <2>2, <2>3 DEF AdministratorStep
<1>4. ASSUME NEW o \in Order, SweepingStep(o)
      PROVE  [Next]_vars
  BY <1>4, CancelIfPendingIsAnOrdersStep DEF SweepingStep, SweepChecks, SweepCancels, SweepFails
<1>5. ASSUME NEW o \in Order, NEW p \in (Order \ {o}) \cup {NoOrder}, StartCheckout(o, p)
      PROVE  UNCHANGED vars
  BY <1>5 DEF StartCheckout
<1>6. ASSUME NEW o \in Order, StripeStep(o) \/ GrowOld(o)
      PROVE  UNCHANGED vars
  BY <1>6 DEF StripeStep, Pay, SessionExpires, RefundAtStripe, DisputeAtStripe, GrowOld
<1>7. StartSweep \/ UNCHANGED allVars => UNCHANGED vars
  BY DEF StartSweep, allVars
<1>8. QED
  BY <1>1, <1>2, <1>3, <1>4, <1>5, <1>6, <1>7 DEF CheckoutNext

(* Checkout implements Orders. *)
THEOREM CheckoutImplementsOrders == CheckoutSpec => Spec
<1>1. CheckoutInit => Init
  BY DEF CheckoutInit
<1>2. PreviousKnown /\ [CheckoutNext]_allVars => [Next]_vars
  BY CheckoutStepIsAnOrdersStep
<1>3. QED
  BY <1>1, <1>2, PreviousStaysKnown, PTL DEF CheckoutSpec, Spec

(* So no interleaving of checkouts, webhooks, sweeps and administrators    *)
(* oversells, or strands a hold, or makes an order impossible to settle.   *)
THEOREM CheckoutKeepsStock ==
  CheckoutSpec => [](StockInvariant /\ ReservedIsHeld /\ NoInventoryConflict)
BY CheckoutImplementsOrders, StockSafe, CounterIsHeld, ConflictNeverThrown, PTL

-----------------------------------------------------------------------------
(* Money *)

(* One name for the completed event; all that matters of it is that it is  *)
(* none of the others.                                                     *)
LEMMA EventsDiffer ==
  /\ Completed \in Event /\ Expired \in Event /\ Disputed \in Event
  /\ \A n \in 1..Charge : Refunded(n) \in Event
  /\ Completed # Expired
BY DEF Completed, Expired, Disputed, Refunded, Event

(* Asking Stripe to expire a session expires it, or changes nothing.       *)
LEMMA ExpiringCloses ==
  ASSUME NEW o, NEW outcome \in {"expired", "complete", "error"}, ExpireSession(o, outcome)
  PROVE  CloseSession(o, "expired", Expired) \/ UNCHANGED stripeVars
<1>1. CASE outcome = "expired"
  BY <1>1 DEF ExpireSession, stripeVars
<1>2. CASE outcome = "complete"
  BY <1>2 DEF ExpireSession
<1>3. CASE outcome = "error"
  BY <1>3 DEF ExpireSession
<1>4. QED
  BY <1>1, <1>2, <1>3

-----------------------------------------------------------------------------
(* No column, program counter or session of Checkout leaves its range.     *)
THEOREM CheckoutTypeCorrect == CheckoutSpec => []CheckoutTypeOK
<1>1. CheckoutInit /\ TypeOK => CheckoutTypeOK
  BY DEF CheckoutInit, CheckoutTypeOK, Request, Admin, Sweep, Session, ReviewReason
<1>2. CheckoutTypeOK /\ TypeOK' /\ PreviousKnown' /\ [CheckoutNext]_allVars => CheckoutTypeOK'
  <2> SUFFICES ASSUME CheckoutTypeOK, TypeOK', PreviousKnown', [CheckoutNext]_allVars
               PROVE  CheckoutTypeOK'
    OBVIOUS
  <2> USE EventsDiffer
      DEF CheckoutTypeOK, Request, Admin, Sweep, Session, ReviewReason, columns, stripeVars
  <2>1. request' \in [Order -> Request] /\ previous' \in [Order -> Order \cup {NoOrder}]
    BY DEF PreviousKnown
  <2>2. ASSUME NEW o \in Order, NEW p \in (Order \ {o}) \cup {NoOrder}, StartCheckout(o, p)
        PROVE  CheckoutTypeOK'
    BY <2>1, <2>2 DEF StartCheckout
  <2>3. ASSUME NEW o \in Order, RequestStep(o)
        PROVE  CheckoutTypeOK'
    <3>1. CASE ExpirePrevious(o)
      <4>1. CloseSession(previous[o], "expired", Expired) \/ UNCHANGED stripeVars
        BY <3>1, ExpiringCloses DEF ExpirePrevious
      <4>2. session' \in [Order -> Session] /\ emitted' \in [Order -> SUBSET Event]
        BY <4>1 DEF CloseSession, Emit
      <4>3. QED
        BY <2>1, <3>1, <4>2 DEF ExpirePrevious
    <3>2. CASE CancelPrevious(o)
      BY <2>1, <3>2 DEF CancelPrevious
    <3>3. ASSUME NEW q \in Quantities, PlaceCheckoutOrder(o, q)
          PROVE  CheckoutTypeOK'
      BY <2>1, <3>3 DEF PlaceCheckoutOrder
    <3>4. CASE CreateSession(o)
      BY <2>1, <3>4 DEF CreateSession, SessionMayExist
    <3>5. CASE ReleaseAfterFailure(o)
      BY <2>1, <3>5 DEF ReleaseAfterFailure
    <3>6. CASE SaveSession(o)
      BY <2>1, <3>6 DEF SaveSession
    <3>7. CASE RequestFails(o)
      BY <2>1, <3>7 DEF RequestFails, SessionMayExist
    <3>8. QED
      BY <2>3, <3>1, <3>2, <3>3, <3>4, <3>5, <3>6, <3>7 DEF RequestStep
  <2>4. ASSUME NEW o \in Order, WebhookStep(o)
        PROVE  CheckoutTypeOK'
    <3>1. CASE OnCompleted(o)
      <4>1. ASSUME NEW reason \in ReviewReason, Match(o, reason)
            PROVE  matched' \in [Order -> BOOLEAN] /\ reviewReason' \in [Order -> ReviewReason]
        BY <4>1 DEF Match
      <4>2. matched' \in [Order -> BOOLEAN] /\ reviewReason' \in [Order -> ReviewReason]
        BY <3>1, <4>1 DEF OnCompleted, PaidAfterCancel
      <4>3. QED
        BY <2>1, <3>1, <4>2 DEF OnCompleted, Deliver
    <3>2. CASE OnExpired(o)
      BY <2>1, <3>2 DEF OnExpired, Deliver
    <3>3. CASE OnDispute(o)
      BY <2>1, <3>3 DEF OnDispute, Deliver
    <3>4. ASSUME NEW n \in 1..Charge, OnRefunded(o, n)
          PROVE  CheckoutTypeOK'
      BY <2>1, <3>4 DEF OnRefunded, Deliver
    <3>5. QED
      BY <2>4, <3>1, <3>2, <3>3, <3>4 DEF WebhookStep
  <2>5. ASSUME NEW o \in Order, StripeStep(o)
        PROVE  CheckoutTypeOK'
    <3>1. CASE Pay(o)
      BY <2>1, <3>1 DEF Pay, CloseSession, Emit
    <3>2. CASE SessionExpires(o)
      BY <2>1, <3>2 DEF SessionExpires, CloseSession, Emit
    <3>3. CASE DisputeAtStripe(o)
      BY <2>1, <3>3 DEF DisputeAtStripe, Emit
    <3>4. ASSUME NEW n \in 1..Charge, RefundAtStripe(o, n)
          PROVE  CheckoutTypeOK'
      BY <2>1, <3>4 DEF RefundAtStripe, Emit
    <3>5. QED
      BY <2>5, <3>1, <3>2, <3>3, <3>4 DEF StripeStep
  <2>6. ASSUME NEW o \in Order, AdministratorStep(o)
        PROVE  CheckoutTypeOK'
    <3>1. CASE AdminExpires(o)
      <4>1. CloseSession(o, "expired", Expired) \/ UNCHANGED stripeVars
        BY <3>1, ExpiringCloses DEF AdminExpires
      <4>2. session' \in [Order -> Session] /\ emitted' \in [Order -> SUBSET Event]
        BY <4>1 DEF CloseSession, Emit
      <4>3. admin' \in [Order -> Admin]
        BY <3>1 DEF AdminExpires, AdminStep
      <4>4. UNCHANGED <<request, previous, columns, recorded, sweep, aged>>
        BY <3>1 DEF AdminExpires
      <4>5. QED
        BY <2>1, <4>2, <4>3, <4>4
    <3>2. CASE RequestCancel(o) \/ AdminCancels(o) \/ AdminCancelsDisputed(o)
      BY <2>1, <3>2 DEF RequestCancel, AdminCancels, AdminCancelsDisputed, AdminStep
    <3>3. CASE RequestShip(o) \/ AdminShips(o) \/ AdminFails(o)
      BY <2>1, <3>3 DEF RequestShip, AdminShips, AdminFails, AdminStep
    <3>4. QED
      BY <2>6, <3>1, <3>2, <3>3 DEF AdministratorStep
  <2>7. ASSUME NEW o \in Order, GrowOld(o) \/ SweepingStep(o)
        PROVE  CheckoutTypeOK'
    <3>1. CASE GrowOld(o)
      BY <2>1, <3>1 DEF GrowOld
    <3>2. CASE SweepChecks(o)
      BY <2>1, <3>2 DEF SweepChecks, SweepStep
    <3>3. CASE SweepCancels(o)
      BY <2>1, <3>3 DEF SweepCancels, SweepStep
    <3>4. CASE SweepFails(o)
      BY <2>1, <3>4 DEF SweepFails, SweepStep
    <3>5. QED
      BY <2>7, <3>1, <3>2, <3>3, <3>4 DEF SweepingStep
  <2>8. CASE StartSweep
    BY <2>1, <2>8 DEF StartSweep
  <2>9. CASE UNCHANGED allVars
    BY <2>9 DEF allVars, checkoutVars, vars
  <2>10. QED
    BY <2>2, <2>3, <2>4, <2>5, <2>6, <2>7, <2>8, <2>9 DEF CheckoutNext
<1>3. CheckoutSpec => []TypeOK
  BY CheckoutImplementsOrders, TypeCorrect, PTL
<1>4. QED
  BY <1>1, <1>2, <1>3, PreviousStaysKnown, PTL DEF CheckoutSpec

-----------------------------------------------------------------------------
(* A session is made for a placed order, by its own request; Stripe emits  *)
(* the completed event only when it closes the session.                    *)
Unopened == {"idle", "expiringPrevious", "cancellingPrevious", "placing", "creating"}

SessionLife ==
  \A o \in Order :
    /\ request[o] \in Unopened => session[o] = "none"
    /\ request[o] = "creating" => status[o] # "none"
    /\ session[o] # "none" => status[o] # "none"
    /\ Completed \in emitted[o] => session[o] \in {"paid", "unpaid"}
    /\ recorded[o] \subseteq emitted[o]

(* The payment intent is stored with the payment, and everything that is   *)
(* done to a paid order afterwards is done to an order that has it.        *)
MoneyKnown ==
  \A o \in Order :
    /\ matched[o] => /\ session[o] = "paid" /\ Completed \in recorded[o]
                     /\ totalCents[o] = Charge
                     /\ status[o] \in {"paid", "fulfilled", "refunded", "cancelled"}
    /\ status[o] \in {"paid", "fulfilled", "refunded"} \/ reviewReason[o] # "none" => matched[o]
    /\ status[o] # "none" => channel[o] = "storefront"

PaymentInv == CheckoutTypeOK /\ SessionLife /\ MoneyKnown /\ PaymentsAccounted

LEMMA PaymentInvInitially == CheckoutInit /\ CheckoutTypeOK => PaymentInv
BY DEF CheckoutInit, Init, PaymentInv, SessionLife, MoneyKnown, PaymentsAccounted

(* An order never loses its row.                                           *)
LEMMA PlacedStaysPlaced ==
  ASSUME TypeOK, [Next]_vars, NEW o \in Order, status[o] # "none"
  PROVE  status'[o] # "none"
<1> USE DEF TypeOK, Status
<1>1. ASSUME NEW p \in Order, NEW q \in Quantities, NEW total \in Cents,
             PlaceOrder(p, q, total) \/ IngestWalmartOrder(p, q, total)
      PROVE  status'[o] # "none"
  BY <1>1 DEF PlaceOrder, IngestWalmartOrder
<1>2. ASSUME NEW p \in Order, NEW amount \in Cents,
             \/ MarkOrderPaid(p, amount) \/ RecordPaidAfterCancel(p, amount)
             \/ RefundPartially(p, amount) \/ RefundFully(p, amount)
      PROVE  status'[o] # "none"
  BY <1>2 DEF MarkOrderPaid, RecordPaidAfterCancel, RefundPartially, RefundFully
<1>3. ASSUME NEW p \in Order, FulfillOrder(p) \/ CancelOrder(p) \/ RefundWalmartReturn(p)
      PROVE  status'[o] # "none"
  BY <1>3 DEF FulfillOrder, CancelOrder, RefundWalmartReturn
<1>4. ASSUME NEW v \in Variant, NEW figure \in 0..MaxOnHand,
             NEW alloc \in (0..MaxOnHand) \cup {NoAllocation}, SetStock(v, figure, alloc)
      PROVE  status'[o] # "none"
  BY <1>4 DEF SetStock
<1>5. CASE UNCHANGED vars
  BY <1>5 DEF vars
<1>6. QED
  BY <1>1, <1>2, <1>3, <1>4, <1>5 DEF Next

(* Sessions are opened by the request that placed the order, and close for *)
(* good; events are emitted before they are recorded.                      *)
LEMMA SessionLifeKept ==
  ASSUME CheckoutTypeOK, PreviousKnown, SessionLife, [CheckoutNext]_allVars
  PROVE  SessionLife'
<1>1. \A o \in Order : status[o] # "none" => status'[o] # "none"
  BY CheckoutStepIsAnOrdersStep, PlacedStaysPlaced DEF CheckoutTypeOK
<1> USE EventsDiffer
    DEF CheckoutTypeOK, PreviousKnown, SessionLife, Unopened, Request, Session, columns, stripeVars
(* Closing a session, whoever asks for it.                                 *)
<1>2. ASSUME NEW o \in Order,
             \/ CloseSession(o, "paid", Completed) \/ CloseSession(o, "unpaid", Completed)
             \/ CloseSession(o, "expired", Expired)
             \/ UNCHANGED stripeVars,
             UNCHANGED recorded,
             \A p \in Order : request'[p] \in Unopened => request[p] \in Unopened,
             \A p \in Order : request'[p] = "creating" => request[p] = "creating"
      PROVE  SessionLife'
  BY <1>1, <1>2 DEF CloseSession, Emit
<1>3. ASSUME NEW o \in Order, NEW p \in (Order \ {o}) \cup {NoOrder}, StartCheckout(o, p)
      PROVE  SessionLife'
  BY <1>1, <1>3 DEF StartCheckout
<1>4. ASSUME NEW o \in Order, RequestStep(o)
      PROVE  SessionLife'
  <2>1. CASE ExpirePrevious(o)
    <3>1. CloseSession(previous[o], "expired", Expired) \/ UNCHANGED stripeVars
      BY <2>1, ExpiringCloses DEF ExpirePrevious
    <3>2. previous[o] \in Order
      BY <2>1 DEF ExpirePrevious
    <3>3. request' \in {[request EXCEPT ![o] = "cancellingPrevious"], [request EXCEPT ![o] = "placing"]}
      BY <2>1 DEF ExpirePrevious
    <3>4. /\ \A p \in Order : request'[p] \in Unopened => request[p] \in Unopened
          /\ \A p \in Order : request'[p] = "creating" => request[p] = "creating"
      BY <2>1, <3>3 DEF ExpirePrevious
    <3>5. QED
      BY <1>2, <2>1, <3>1, <3>2, <3>4 DEF ExpirePrevious
  <2>2. CASE CancelPrevious(o)
    BY <1>1, <2>2 DEF CancelPrevious
  <2>3. ASSUME NEW q \in Quantities, PlaceCheckoutOrder(o, q)
        PROVE  SessionLife'
    BY <1>1, <2>3 DEF PlaceCheckoutOrder, PlaceOrder, TypeOK
  <2>4. CASE CreateSession(o)
    BY <1>1, <2>4 DEF CreateSession, SessionMayExist
  <2>5. CASE ReleaseAfterFailure(o)
    BY <1>1, <2>5 DEF ReleaseAfterFailure
  <2>6. CASE SaveSession(o)
    BY <1>1, <2>6 DEF SaveSession
  <2>7. CASE RequestFails(o)
    BY <1>1, <2>7 DEF RequestFails, SessionMayExist
  <2>8. QED
    BY <1>4, <2>1, <2>2, <2>3, <2>4, <2>5, <2>6, <2>7 DEF RequestStep
<1>5. ASSUME NEW o \in Order, WebhookStep(o)
      PROVE  SessionLife'
  <2>1. ASSUME NEW e \in Event, Deliver(o, e)
        PROVE  SessionLife'
    BY <1>1, <2>1 DEF Deliver
  <2>2. QED
    BY <1>5, <2>1 DEF WebhookStep, OnCompleted, OnExpired, OnRefunded, OnDispute
<1>6. ASSUME NEW o \in Order, StripeStep(o)
      PROVE  SessionLife'
  <2>1. CASE Pay(o)
    BY <1>2, <2>1 DEF Pay
  <2>2. CASE SessionExpires(o)
    BY <1>2, <2>2 DEF SessionExpires
  <2>3. CASE DisputeAtStripe(o)
    BY <1>1, <2>3 DEF DisputeAtStripe, Emit
  <2>4. ASSUME NEW n \in 1..Charge, RefundAtStripe(o, n)
        PROVE  SessionLife'
    BY <1>1, <2>4 DEF RefundAtStripe, Emit
  <2>5. QED
    BY <1>6, <2>1, <2>2, <2>3, <2>4 DEF StripeStep
<1>7. ASSUME NEW o \in Order, AdministratorStep(o)
      PROVE  SessionLife'
  <2>1. CASE AdminExpires(o)
    <3>1. CloseSession(o, "expired", Expired) \/ UNCHANGED stripeVars
      BY <2>1, ExpiringCloses DEF AdminExpires
    <3>2. QED
      BY <1>2, <2>1, <3>1 DEF AdminExpires
  <2>2. CASE UNCHANGED <<request, recorded, stripeVars>>
    BY <1>1, <2>2
  <2>3. QED
    BY <1>7, <2>1, <2>2 DEF AdministratorStep, RequestCancel, AdminCancels, AdminCancelsDisputed,
         RequestShip, AdminShips, AdminFails
<1>8. ASSUME NEW o \in Order, GrowOld(o) \/ SweepingStep(o)
      PROVE  SessionLife'
  BY <1>1, <1>8 DEF GrowOld, SweepingStep, SweepChecks, SweepCancels, SweepFails
<1>9. CASE StartSweep
  BY <1>1, <1>9 DEF StartSweep
<1>10. CASE UNCHANGED allVars
  BY <1>1, <1>10 DEF allVars, checkoutVars
<1>11. QED
  BY <1>3, <1>4, <1>5, <1>6, <1>7, <1>8, <1>9, <1>10 DEF CheckoutNext

-----------------------------------------------------------------------------
(* A paid session stays paid, and none becomes paid once its completed     *)
(* event is recorded.                                                      *)
LEMMA PaidSessionsStay ==
  ASSUME CheckoutTypeOK, SessionLife, SessionLife', NEW o \in Order, UNCHANGED recorded,
         \/ UNCHANGED stripeVars
         \/ \E p \in Order : \/ CloseSession(p, "paid", Completed)
                            \/ CloseSession(p, "unpaid", Completed)
                            \/ CloseSession(p, "expired", Expired)
         \/ UNCHANGED session
         \/ \E p \in Order : session[p] = "none" /\ session' = [session EXCEPT ![p] = "open"]
  PROVE  /\ session[o] = "paid" => session'[o] = "paid"
         /\ session'[o] = "paid" /\ Completed \in recorded'[o] => session[o] = "paid"
BY DEF CheckoutTypeOK, SessionLife, CloseSession, Emit, stripeVars, Session

(* MoneyKnown and PaymentsAccounted are kept by steps that leave the       *)
(* order's columns alone, by cancelling what is pending, and by placing.   *)
Accounted == MoneyKnown /\ PaymentsAccounted

accountVars == <<status, channel, totalCents, matched, reviewReason, recorded>>

SessionsHold ==
  \A o \in Order :
    /\ session[o] = "paid" => session'[o] = "paid"
    /\ session'[o] = "paid" /\ Completed \in recorded'[o] => session[o] = "paid"

LEMMA AccountedAside ==
  ASSUME Accounted, UNCHANGED accountVars, SessionsHold
  PROVE  Accounted'
BY DEF Accounted, MoneyKnown, PaymentsAccounted, accountVars, SessionsHold

LEMMA AccountedCancelPending ==
  ASSUME CheckoutTypeOK, Accounted, NEW o \in Order, CancelIfPending(o) \/ UNCHANGED vars,
         UNCHANGED <<matched, reviewReason, session>>,
         UNCHANGED recorded \/ Deliver(o, Expired)
  PROVE  Accounted'
<1> USE EventsDiffer
    DEF CheckoutTypeOK, TypeOK, Status, Accounted, MoneyKnown, PaymentsAccounted, vars, moneyVars
<1>1. \A p \in Order : Completed \in recorded'[p] <=> Completed \in recorded[p]
  BY DEF Deliver
<1>2. CASE status[o] = "pending" /\ CancelOrder(o)
  <2>1. ~ matched[o]
    BY <1>2
  <2>2. QED
    BY <1>1, <1>2, <2>1 DEF CancelOrder
<1>3. CASE UNCHANGED vars
  BY <1>1, <1>3
<1>4. QED
  BY <1>2, <1>3 DEF CancelIfPending

LEMMA AccountedKept ==
  ASSUME PaymentInv, PreviousKnown, SessionLife', [CheckoutNext]_allVars
  PROVE  Accounted'
<1>1. CheckoutTypeOK /\ SessionLife /\ Accounted
  BY DEF PaymentInv, Accounted
(* The steps that do not touch an order's columns.                         *)
<1>2. ASSUME UNCHANGED <<vars, matched, reviewReason, recorded>>,
             \/ UNCHANGED session
             \/ \E p \in Order : \/ CloseSession(p, "paid", Completed)
                                \/ CloseSession(p, "unpaid", Completed)
                                \/ CloseSession(p, "expired", Expired)
             \/ \E p \in Order : session[p] = "none" /\ session' = [session EXCEPT ![p] = "open"]
      PROVE  Accounted'
  <2>1. SessionsHold
    BY <1>1, <1>2, PaidSessionsStay DEF SessionsHold
  <2>2. UNCHANGED accountVars
    BY <1>2 DEF accountVars, vars
  <2>3. QED
    BY <1>1, <2>1, <2>2, AccountedAside
<1>3. ASSUME NEW o \in Order, RequestStep(o)
      PROVE  Accounted'
  <2>1. CASE ExpirePrevious(o)
    <3>1. previous[o] \in Order
      BY <2>1 DEF ExpirePrevious, PreviousKnown
    <3>2. CloseSession(previous[o], "expired", Expired) \/ UNCHANGED stripeVars
      BY <2>1, ExpiringCloses DEF ExpirePrevious
    <3>3. QED
      BY <1>2, <2>1, <3>1, <3>2 DEF ExpirePrevious, columns, stripeVars
  <2>2. CASE CancelPrevious(o)
    <3>1. previous[o] \in Order
      BY <2>2 DEF CancelPrevious, PreviousKnown
    <3>2. QED
      BY <1>1, <2>2, <3>1, AccountedCancelPending DEF CancelPrevious, columns, stripeVars
  <2>3. ASSUME NEW q \in Quantities, PlaceCheckoutOrder(o, q)
        PROVE  Accounted'
    BY <1>1, <2>3 DEF PlaceCheckoutOrder, PlaceOrder, CheckoutTypeOK, TypeOK, Status, SessionLife,
       Accounted, MoneyKnown, PaymentsAccounted, columns, stripeVars
  <2>4. CASE CreateSession(o)
    <3>1. session[o] = "none"
      BY <1>1, <2>4 DEF CreateSession, SessionLife, Unopened
    <3>2. QED
      BY <1>2, <2>4, <3>1 DEF CreateSession, SessionMayExist, columns
  <2>5. CASE ReleaseAfterFailure(o)
    BY <1>1, <2>5, AccountedCancelPending DEF ReleaseAfterFailure, columns, stripeVars
  <2>6. CASE SaveSession(o)
    BY <1>2, <2>6 DEF SaveSession, stripeVars
  <2>7. CASE RequestFails(o)
    <3>1. request[o] = "creating" => session[o] = "none"
      BY <1>1 DEF SessionLife, Unopened
    <3>2. QED
      BY <1>2, <2>7, <3>1 DEF RequestFails, SessionMayExist, columns, stripeVars
  <2>8. QED
    BY <1>3, <2>1, <2>2, <2>3, <2>4, <2>5, <2>6, <2>7 DEF RequestStep
(* The webhooks: the payment is matched once; what follows needs the match. *)
<1>4. ASSUME NEW o \in Order, WebhookStep(o)
      PROVE  Accounted'
  <2>1. CASE OnCompleted(o)
    <3> USE <1>1 DEF CheckoutTypeOK, TypeOK, Status, SessionLife, Accounted, MoneyKnown,
                     PaymentsAccounted, vars, stripeVars, stockVars, Deliver, Match
    <3>1. Completed \notin recorded[o] /\ ~ matched[o] /\ Completed \in emitted[o]
      BY <2>1 DEF OnCompleted
    <3>2. ASSUME session[o] = "paid", MarkOrderPaid(o, Charge),
                 NEW reason \in ReviewReason, Match(o, reason)
          PROVE  Accounted'
      BY <2>1, <3>1, <3>2 DEF OnCompleted, MarkOrderPaid
    <3>3. CASE session[o] = "paid" /\ PaidAfterCancel(o)
      BY <2>1, <3>1, <3>3 DEF OnCompleted, PaidAfterCancel, RecordPaidAfterCancel
    <3>4. CASE /\ session[o] = "unpaid" \/ status[o] \notin {"pending", "cancelled"}
               /\ UNCHANGED <<vars, matched, reviewReason>>
      BY <2>1, <3>1, <3>4 DEF OnCompleted
    <3>5. QED
      BY <2>1, <3>2, <3>3, <3>4 DEF OnCompleted, ReviewReason
  <2>2. CASE OnExpired(o)
    BY <1>1, <2>2, AccountedCancelPending DEF OnExpired, Deliver, stripeVars
  <2>3. ASSUME NEW n \in 1..Charge, OnRefunded(o, n)
        PROVE  Accounted'
    BY <1>1, <2>3 DEF OnRefunded, Deliver, RefundFully, RefundPartially, CheckoutTypeOK, TypeOK,
       Status, Accounted, MoneyKnown, PaymentsAccounted, vars, stripeVars
  <2>4. CASE OnDispute(o)
    BY <1>1, <2>4 DEF OnDispute, Deliver, CheckoutTypeOK, ReviewReason, Accounted, MoneyKnown,
       PaymentsAccounted, vars, stripeVars
  <2>5. QED
    BY <1>4, <2>1, <2>2, <2>3, <2>4 DEF WebhookStep
<1>5. ASSUME NEW o \in Order, StripeStep(o)
      PROVE  Accounted'
  BY <1>2, <1>5 DEF StripeStep, Pay, SessionExpires, DisputeAtStripe, RefundAtStripe, columns
<1>6. ASSUME NEW o \in Order, AdministratorStep(o)
      PROVE  Accounted'
  <2>1. CASE AdminExpires(o)
    BY <1>2, <2>1, ExpiringCloses DEF AdminExpires, columns, stripeVars
  <2>2. CASE AdminCancels(o)
    BY <1>1, <2>2, AccountedCancelPending DEF AdminCancels, columns, stripeVars
  <2>3. CASE AdminCancelsDisputed(o)
    BY <1>1, <2>3 DEF AdminCancelsDisputed, CancelOrder, CheckoutTypeOK, TypeOK, Status, Accounted,
       MoneyKnown, PaymentsAccounted, columns, stripeVars, moneyVars
  <2>4. CASE AdminShips(o)
    BY <1>1, <2>4 DEF AdminShips, FulfillOrder, CheckoutTypeOK, TypeOK, Status, Accounted,
       MoneyKnown, PaymentsAccounted, columns, stripeVars, moneyVars
  <2>5. CASE RequestCancel(o) \/ RequestShip(o) \/ AdminFails(o)
    BY <1>2, <2>5 DEF RequestCancel, RequestShip, AdminFails, columns, stripeVars
  <2>6. QED
    BY <1>6, <2>1, <2>2, <2>3, <2>4, <2>5 DEF AdministratorStep
<1>7. ASSUME NEW o \in Order, SweepingStep(o)
      PROVE  Accounted'
  <2>1. CASE SweepCancels(o)
    BY <1>1, <2>1, AccountedCancelPending DEF SweepCancels, columns, stripeVars
  <2>2. CASE SweepChecks(o) \/ SweepFails(o)
    BY <1>2, <2>2 DEF SweepChecks, SweepFails, columns, stripeVars
  <2>3. QED
    BY <1>7, <2>1, <2>2 DEF SweepingStep
<1>8. ASSUME NEW o \in Order, NEW p \in (Order \ {o}) \cup {NoOrder}, StartCheckout(o, p) \/ GrowOld(o)
      PROVE  Accounted'
  BY <1>2, <1>8 DEF StartCheckout, GrowOld, columns, stripeVars
<1>9. CASE StartSweep \/ UNCHANGED allVars
  BY <1>2, <1>9 DEF StartSweep, allVars, checkoutVars, columns, stripeVars
<1>10. QED
  BY <1>3, <1>4, <1>5, <1>6, <1>7, <1>8, <1>9 DEF CheckoutNext

-----------------------------------------------------------------------------
THEOREM PaymentInvHolds == CheckoutSpec => []PaymentInv
<1>1. CheckoutInit /\ CheckoutTypeOK => PaymentInv
  BY PaymentInvInitially
<1>2. PaymentInv /\ CheckoutTypeOK' /\ PreviousKnown /\ [CheckoutNext]_allVars => PaymentInv'
  BY SessionLifeKept, AccountedKept DEF PaymentInv, Accounted
<1>3. QED
  BY <1>1, <1>2, CheckoutTypeCorrect, PreviousStaysKnown, PTL DEF CheckoutSpec

(* Once the event of a payment is recorded the order has it, with Stripe's *)
(* figures and, if it is cancelled, with a flag: stripe-events.ts loses no *)
(* money in any interleaving.                                              *)
THEOREM PaymentsAreAccounted == CheckoutSpec => []PaymentsAccounted
<1>1. PaymentInv => PaymentsAccounted
  BY DEF PaymentInv
<1>2. QED
  BY <1>1, PaymentInvHolds, PTL

(* Every refund figure of Stripe's passes the checks of refundOrderTx once *)
(* the order is matched.                                                   *)
THEOREM RefundsAlwaysApply == CheckoutSpec => []RefundsApplicable
<1>1. PaymentInv => RefundsApplicable
  BY CheckoutAssumption DEF PaymentInv, MoneyKnown, RefundsApplicable, RefundAccepted
<1>2. QED
  BY <1>1, PaymentInvHolds, PTL

-----------------------------------------------------------------------------
(* Which steps of Checkout take an order out of paid: cancelling a         *)
(* disputed order, shipping a reviewed one, and a full refund.             *)
LEMMA LeavingPaid ==
  ASSUME CheckoutTypeOK, PreviousKnown, [CheckoutNext]_allVars,
         NEW o \in Order, status[o] = "paid", status'[o] # "paid"
  PROVE  \/ status'[o] = "cancelled" /\ reviewReason[o] = "disputed"
         \/ status'[o] = "fulfilled" /\ Reviewed(o)
         \/ status'[o] = "refunded"
<1> DEFINE Goal == \/ status'[o] = "cancelled" /\ reviewReason[o] = "disputed"
                   \/ status'[o] = "fulfilled" /\ Reviewed(o)
                   \/ status'[o] = "refunded"
<1> HIDE DEF Goal
<1> USE DEF CheckoutTypeOK, TypeOK, Status
<1>1. ~ UNCHANGED vars
  BY DEF vars
<1>2. ASSUME NEW p \in Order, CancelIfPending(p)
      PROVE  FALSE
  BY <1>1, <1>2 DEF CancelIfPending, CancelOrder
<1>3. ASSUME NEW p \in Order, RequestStep(p)
      PROVE  FALSE
  BY <1>1, <1>2, <1>3 DEF RequestStep, ExpirePrevious, CancelPrevious, PlaceCheckoutOrder, PlaceOrder,
     CreateSession, ReleaseAfterFailure, SaveSession, RequestFails, PreviousKnown
<1>4. ASSUME NEW p \in Order, WebhookStep(p)
      PROVE  Goal
  <2>1. CASE OnCompleted(p)
    BY <1>1, <2>1 DEF OnCompleted, PaidAfterCancel, RecordPaidAfterCancel, MarkOrderPaid
  <2>2. CASE OnExpired(p) \/ OnDispute(p)
    BY <1>1, <1>2, <2>2 DEF OnExpired, OnDispute
  <2>3. ASSUME NEW n \in 1..Charge, OnRefunded(p, n)
        PROVE  Goal
    BY <1>1, <2>3 DEF OnRefunded, RefundFully, RefundPartially, Goal
  <2>4. QED
    BY <1>4, <2>1, <2>2, <2>3 DEF WebhookStep
<1>5. ASSUME NEW p \in Order, AdministratorStep(p)
      PROVE  Goal
  <2>1. CASE AdminCancelsDisputed(p)
    BY <2>1 DEF AdminCancelsDisputed, CancelOrder, Goal
  <2>2. CASE AdminShips(p)
    BY <2>2 DEF AdminShips, FulfillOrder, Goal
  <2>3. CASE AdminCancels(p)
    BY <1>2, <2>3 DEF AdminCancels
  <2>4. QED
    BY <1>1, <1>5, <2>1, <2>2, <2>3 DEF AdministratorStep, RequestCancel, AdminExpires, RequestShip,
       AdminFails
<1>6. ASSUME NEW p \in Order, SweepingStep(p) \/ GrowOld(p) \/ StripeStep(p)
      PROVE  FALSE
  BY <1>1, <1>2, <1>6 DEF SweepingStep, SweepChecks, SweepCancels, SweepFails, GrowOld, StripeStep,
     Pay, SessionExpires, DisputeAtStripe, RefundAtStripe
<1>7. ASSUME NEW p \in Order, NEW r \in (Order \ {p}) \cup {NoOrder}, StartCheckout(p, r)
      PROVE  FALSE
  BY <1>1, <1>7 DEF StartCheckout
<1>8. ~ StartSweep /\ ~ UNCHANGED allVars
  BY <1>1 DEF StartSweep, allVars
<1>9. Goal
  BY <1>3, <1>4, <1>5, <1>6, <1>7, <1>8 DEF CheckoutNext
<1>10. QED
  BY <1>9 DEF Goal

(* Nobody who cancels - sweep, new checkout, failed checkout, webhook,     *)
(* administrator - takes the stock of a paid order, unless it is disputed. *)
THEOREM PaidOrdersKeepStock == CheckoutSpec => PaidOrdersKeepTheirStock
<1>1. CheckoutTypeOK /\ PreviousKnown /\ [CheckoutNext]_allVars =>
        [\A o \in Order : status[o] = "paid" /\ status'[o] = "cancelled" =>
           reviewReason[o] = "disputed"]_allVars
  BY LeavingPaid
<1>2. QED
  BY <1>1, CheckoutTypeCorrect, PreviousStaysKnown, PTL DEF CheckoutSpec, PaidOrdersKeepTheirStock

(* shipOrder: a flagged order leaves only if its review was acknowledged,  *)
(* whenever the flag was raised.                                           *)
THEOREM FlaggedOrdersShipReviewed == CheckoutSpec => FlaggedShipsOnlyReviewed
<1>1. CheckoutTypeOK /\ PreviousKnown /\ [CheckoutNext]_allVars =>
        [\A o \in Order : status[o] = "paid" /\ status'[o] = "fulfilled" /\ reviewReason[o] # "none" =>
           admin[o] = "shippingReviewed"]_allVars
  BY LeavingPaid DEF Reviewed
<1>2. QED
  BY <1>1, CheckoutTypeCorrect, PreviousStaysKnown, PTL DEF CheckoutSpec, FlaggedShipsOnlyReviewed

(* A dispute is never overwritten: the only other writer of the flag is    *)
(* the completed event, and a disputed order has had its own.              *)
THEOREM DisputesAreKept == CheckoutSpec => DisputesStay
<1>1. ASSUME PaymentInv, [CheckoutNext]_allVars, NEW o \in Order, reviewReason[o] = "disputed"
      PROVE  reviewReason'[o] = "disputed"
  <2> USE DEF PaymentInv, CheckoutTypeOK
  <2>1. Completed \in recorded[o]
    BY <1>1 DEF MoneyKnown
  <2>2. ASSUME NEW p \in Order, WebhookStep(p)
        PROVE  reviewReason'[o] = "disputed"
    <3>1. CASE OnCompleted(p)
      BY <1>1, <2>1, <3>1 DEF OnCompleted, PaidAfterCancel, Match, Deliver
    <3>2. CASE OnDispute(p)
      BY <1>1, <3>2 DEF OnDispute
    <3>3. QED
      BY <1>1, <2>2, <3>1, <3>2 DEF WebhookStep, OnExpired, OnRefunded
  <2>3. ASSUME NEW p \in Order, NEW q \in (Order \ {p}) \cup {NoOrder}, StartCheckout(p, q)
        PROVE  UNCHANGED reviewReason
    BY <2>3 DEF StartCheckout, columns
  <2>4. ASSUME NEW p \in Order, RequestStep(p)
        PROVE  UNCHANGED reviewReason
    BY <2>4 DEF RequestStep, ExpirePrevious, CancelPrevious, PlaceCheckoutOrder, CreateSession,
       ReleaseAfterFailure, SaveSession, RequestFails, columns
  <2>5. ASSUME NEW p \in Order, AdministratorStep(p)
        PROVE  UNCHANGED reviewReason
    BY <2>5 DEF AdministratorStep, RequestCancel, AdminExpires, AdminCancels, AdminCancelsDisputed,
       RequestShip, AdminShips, AdminFails, columns
  <2>6. ASSUME NEW p \in Order, SweepingStep(p) \/ GrowOld(p) \/ StripeStep(p)
        PROVE  UNCHANGED reviewReason
    BY <2>6 DEF SweepingStep, SweepChecks, SweepCancels, SweepFails, GrowOld, StripeStep, Pay,
       SessionExpires, DisputeAtStripe, RefundAtStripe, columns
  <2>7. StartSweep \/ UNCHANGED allVars => UNCHANGED reviewReason
    BY DEF StartSweep, allVars, checkoutVars, columns
  <2>8. QED
    BY <1>1, <2>2, <2>3, <2>4, <2>5, <2>6, <2>7 DEF CheckoutNext
<1>2. PaymentInv /\ [CheckoutNext]_allVars =>
        [\A o \in Order : reviewReason[o] = "disputed" => reviewReason'[o] = "disputed"]_allVars
  BY <1>1
<1>3. QED
  BY <1>2, PaymentInvHolds, PTL DEF CheckoutSpec, DisputesStay

-----------------------------------------------------------------------------
(* Who cancels knows that nobody can pay                                   *)

(* A session is paid or refused only through the response that served its  *)
(* client secret, which is sent once the session is saved; the expired     *)
(* event says what became of it; and an order is old only when its request *)
(* is over.                                                                *)
SessionEnds ==
  \A o \in Order :
    /\ Expired \in emitted[o] => session[o] = "expired"
    /\ session[o] \in {"paid", "unpaid"} => request[o] = "served"
    /\ request[o] = "served" => saved[o]
    /\ aged[o] => request[o] \in {"served", "failed"}

(* A new checkout and an administrator who saved session ids cancel after  *)
(* they expired the session; a sweep after it saw it expired or refused,   *)
(* or when there is none, because the request that makes it has failed.    *)
WhoCancelsKnows ==
  \A o \in Order :
    /\ request[o] = "cancellingPrevious" => session[previous[o]] = "expired"
    /\ admin[o] = "cancelling" => session[o] = "expired"
    /\ sweep[o] = "cancelling" => session[o] \in {"expired", "unpaid"} \/ request[o] = "failed"

(* A refused or expired session stays so, and a request that is over is    *)
(* not taken up again.                                                     *)
EndsStay(o) ==
  /\ session[o] \in {"expired", "unpaid"} => session'[o] = session[o]
  /\ request[o] \in {"served", "failed"} => request'[o] = request[o]

SessionInv == CheckoutTypeOK /\ PreviousKnown /\ SessionLife /\ SessionEnds

(* What closing a session, whoever asks for it, does to what is known.     *)
LEMMA ClosingEnds ==
  ASSUME SessionInv, NEW o \in Order,
         \/ CloseSession(o, "expired", Expired)
         \/ request[o] = "served" /\ CloseSession(o, "paid", Completed)
         \/ request[o] = "served" /\ CloseSession(o, "unpaid", Completed)
         \/ UNCHANGED stripeVars
  PROVE  \A p \in Order :
           /\ session[p] \in {"expired", "unpaid"} => session'[p] = session[p]
           /\ Expired \in emitted'[p] => session'[p] = "expired"
           /\ session'[p] \in {"paid", "unpaid"} => request[p] = "served"
BY EventsDiffer DEF SessionInv, CheckoutTypeOK, SessionEnds, CloseSession, Emit, stripeVars, Session

(* No step of a request breaks that.                                       *)
LEMMA RequestEnds ==
  ASSUME SessionInv, NEW o \in Order, RequestStep(o)
  PROVE  SessionEnds' /\ \A p \in Order : EndsStay(p)
<1> USE DEF SessionInv, CheckoutTypeOK, PreviousKnown, SessionEnds, EndsStay, Request, Session,
            columns, stripeVars
<1>1. CASE ExpirePrevious(o)
  <2>1. previous[o] \in Order /\ request[o] = "expiringPrevious"
    BY <1>1 DEF ExpirePrevious
  <2>2. CloseSession(previous[o], "expired", Expired) \/ UNCHANGED stripeVars
    BY <1>1, ExpiringCloses DEF ExpirePrevious
  <2>3. \A p \in Order :
          /\ session[p] \in {"expired", "unpaid"} => session'[p] = session[p]
          /\ Expired \in emitted'[p] => session'[p] = "expired"
          /\ session'[p] \in {"paid", "unpaid"} => request[p] = "served"
    BY <2>1, <2>2, ClosingEnds
  <2>4. request' \in {[request EXCEPT ![o] = "cancellingPrevious"], [request EXCEPT ![o] = "placing"]}
    BY <1>1 DEF ExpirePrevious
  <2>5. UNCHANGED <<saved, aged>>
    BY <1>1 DEF ExpirePrevious
  <2>6. \A p \in Order : request[p] \in {"served", "failed"} => request'[p] = request[p]
    BY <2>1, <2>4
  <2>7. \A p \in Order : request'[p] = "served" => request[p] = "served"
    BY <2>1, <2>4
  <2>8. QED
    BY <2>3, <2>5, <2>6, <2>7
<1>2. CASE CancelPrevious(o)
  BY <1>2 DEF CancelPrevious
<1>3. ASSUME NEW q \in Quantities, PlaceCheckoutOrder(o, q)
      PROVE  SessionEnds' /\ \A p \in Order : EndsStay(p)
  BY <1>3 DEF PlaceCheckoutOrder
<1>4. CASE CreateSession(o)
  <2>1. session[o] = "none" /\ request[o] = "creating"
    BY <1>4 DEF CreateSession, SessionLife, Unopened
  <2>2. session' \in {session, [session EXCEPT ![o] = "open"]} /\ emitted' = emitted
    BY <1>4 DEF CreateSession, SessionMayExist
  <2>3. request' \in {[request EXCEPT ![o] = "saving"], [request EXCEPT ![o] = "releasing"]}
    BY <1>4 DEF CreateSession
  <2>4. UNCHANGED <<saved, aged>>
    BY <1>4 DEF CreateSession
  <2>5. Expired \notin emitted[o]
    BY <2>1
  <2>6. QED
    BY <2>1, <2>2, <2>3, <2>4, <2>5
<1>5. CASE ReleaseAfterFailure(o)
  BY <1>5 DEF ReleaseAfterFailure
<1>6. CASE SaveSession(o)
  BY <1>6 DEF SaveSession
<1>7. CASE RequestFails(o)
  <2>1. request[o] = "creating" => session[o] = "none"
    BY DEF SessionLife, Unopened
  <2>2. session' \in {session, [session EXCEPT ![o] = "open"]} /\ emitted' = emitted
    BY <1>7 DEF RequestFails, SessionMayExist
  <2>3. request[o] # "creating" => session' = session
    BY <1>7 DEF RequestFails
  <2>4. request' = [request EXCEPT ![o] = "failed"] /\ UNCHANGED <<saved, aged>>
    BY <1>7 DEF RequestFails
  <2>5. request[o] \notin {"served", "failed"}
    BY <1>7 DEF RequestFails
  <2>6. QED
    BY <2>1, <2>2, <2>3, <2>4, <2>5
<1>8. QED
  BY <1>1, <1>2, <1>3, <1>4, <1>5, <1>6, <1>7 DEF RequestStep

(* Nor does any other step.                                                *)
LEMMA EndsKept ==
  ASSUME SessionInv, [CheckoutNext]_allVars
  PROVE  SessionEnds' /\ \A p \in Order : EndsStay(p)
<1> USE DEF SessionEnds, EndsStay, columns, stripeVars
<1>1. ASSUME UNCHANGED <<request, session, emitted, saved, aged>>
      PROVE  SessionEnds' /\ \A p \in Order : EndsStay(p)
  BY <1>1 DEF SessionInv
<1>2. ASSUME NEW o \in Order, UNCHANGED <<request, saved, aged>>,
             \/ CloseSession(o, "expired", Expired)
             \/ request[o] = "served" /\ CloseSession(o, "paid", Completed)
             \/ request[o] = "served" /\ CloseSession(o, "unpaid", Completed)
             \/ UNCHANGED stripeVars
      PROVE  SessionEnds' /\ \A p \in Order : EndsStay(p)
  BY <1>2, ClosingEnds DEF SessionInv
<1>3. ASSUME NEW o \in Order, NEW p \in (Order \ {o}) \cup {NoOrder}, StartCheckout(o, p)
      PROVE  SessionEnds' /\ \A x \in Order : EndsStay(x)
  BY <1>3 DEF StartCheckout, SessionInv, CheckoutTypeOK
<1>4. ASSUME NEW o \in Order, WebhookStep(o)
      PROVE  UNCHANGED <<request, session, emitted, saved, aged>>
  BY <1>4 DEF WebhookStep, OnCompleted, OnExpired, OnRefunded, OnDispute, Deliver
<1>5. ASSUME NEW o \in Order, StripeStep(o)
      PROVE  SessionEnds' /\ \A p \in Order : EndsStay(p)
  <2>1. CASE Pay(o)
    BY <1>2, <2>1 DEF Pay
  <2>2. CASE SessionExpires(o)
    BY <1>2, <2>2 DEF SessionExpires
  <2>3. ASSUME NEW e, e # Expired, Emit(o, e),
               UNCHANGED <<request, session, saved, aged>>
        PROVE  SessionEnds' /\ \A p \in Order : EndsStay(p)
    BY <2>3 DEF Emit, SessionInv, CheckoutTypeOK
  <2>4. CASE DisputeAtStripe(o)
    BY <2>3, <2>4 DEF DisputeAtStripe, Disputed, Expired
  <2>5. ASSUME NEW n \in 1..Charge, RefundAtStripe(o, n)
        PROVE  SessionEnds' /\ \A p \in Order : EndsStay(p)
    BY <2>3, <2>5 DEF RefundAtStripe, Refunded, Expired
  <2>6. QED
    BY <1>5, <2>1, <2>2, <2>4, <2>5 DEF StripeStep
<1>6. ASSUME NEW o \in Order, AdministratorStep(o)
      PROVE  SessionEnds' /\ \A p \in Order : EndsStay(p)
  <2>1. CASE AdminExpires(o)
    BY <1>2, <2>1, ExpiringCloses DEF AdminExpires
  <2>2. QED
    BY <1>1, <1>6, <2>1 DEF AdministratorStep, RequestCancel, AdminCancels, AdminCancelsDisputed,
         RequestShip, AdminShips, AdminFails
<1>7. ASSUME NEW o \in Order, GrowOld(o)
      PROVE  SessionEnds' /\ \A p \in Order : EndsStay(p)
  BY <1>7 DEF GrowOld, SessionInv, CheckoutTypeOK
<1>8. ASSUME NEW o \in Order, SweepingStep(o)
      PROVE  UNCHANGED <<request, session, emitted, saved, aged>>
  BY <1>8 DEF SweepingStep, SweepChecks, SweepCancels, SweepFails
<1>9. StartSweep \/ UNCHANGED allVars => UNCHANGED <<request, session, emitted, saved, aged>>
  BY DEF StartSweep, allVars, checkoutVars
<1>10. QED
  BY <1>1, <1>3, <1>4, <1>5, <1>6, <1>7, <1>8, <1>9, RequestEnds DEF CheckoutNext

(* What the cancellers know is learnt from Stripe, and does not get old.   *)
LEMMA KnowledgeKept ==
  ASSUME SessionInv, WhoCancelsKnows, [CheckoutNext]_allVars
  PROVE  WhoCancelsKnows'
<1>1. ASSUME NEW o \in Order PROVE EndsStay(o)
  BY <1>1, EndsKept
<1> USE <1>1 DEF SessionInv, CheckoutTypeOK, PreviousKnown, WhoCancelsKnows, EndsStay
(* It is enough to look at who starts to cancel, or changes what he        *)
(* cancels.                                                                *)
<1>2. ASSUME \A o \in Order : request'[o] = "cancellingPrevious" =>
               \/ session'[previous'[o]] = "expired"
               \/ request[o] = "cancellingPrevious" /\ previous'[o] = previous[o],
             \A o \in Order : admin'[o] = "cancelling" =>
               admin[o] = "cancelling" \/ session'[o] = "expired",
             \A o \in Order : sweep'[o] = "cancelling" =>
               \/ sweep[o] = "cancelling"
               \/ session[o] \in {"expired", "unpaid"} \/ request[o] = "failed"
      PROVE  WhoCancelsKnows'
  BY <1>2
<1>3. ASSUME UNCHANGED <<admin, sweep>>,
             \A o \in Order : request'[o] = "cancellingPrevious" =>
               \/ session'[previous'[o]] = "expired"
               \/ request[o] = "cancellingPrevious" /\ previous'[o] = previous[o]
      PROVE  WhoCancelsKnows'
  BY <1>2, <1>3
<1>4. ASSUME NEW o \in Order, NEW p \in (Order \ {o}) \cup {NoOrder}, StartCheckout(o, p)
      PROVE  WhoCancelsKnows'
  BY <1>3, <1>4 DEF StartCheckout
<1>5. ASSUME NEW o \in Order, RequestStep(o)
      PROVE  WhoCancelsKnows'
  <2>1. CASE ExpirePrevious(o)
    <3>1. UNCHANGED <<admin, sweep>>
      BY <2>1 DEF ExpirePrevious
    <3>2. ASSUME NEW outcome \in {"expired", "complete", "error"},
                 ExpireSession(previous[o], outcome), outcome = "expired",
                 request' = [request EXCEPT ![o] = "cancellingPrevious"], UNCHANGED previous
          PROVE  \A p \in Order : request'[p] = "cancellingPrevious" =>
                   \/ session'[previous'[p]] = "expired"
                   \/ request[p] = "cancellingPrevious" /\ previous'[p] = previous[p]
      <4>1. previous[o] \in Order
        BY <2>1 DEF ExpirePrevious
      <4>2. session'[previous[o]] = "expired"
        BY <3>2, <4>1 DEF ExpireSession, CloseSession, stripeVars
      <4>3. QED
        BY <3>2, <4>2
    <3>3. ASSUME request' = [request EXCEPT ![o] = "placing"],
                 previous' = [previous EXCEPT ![o] = NoOrder]
          PROVE  \A p \in Order : request'[p] = "cancellingPrevious" =>
                   \/ session'[previous'[p]] = "expired"
                   \/ request[p] = "cancellingPrevious" /\ previous'[p] = previous[p]
      BY <3>3
    <3>4. QED
      BY <1>3, <2>1, <3>1, <3>2, <3>3 DEF ExpirePrevious
  <2>2. CASE CancelPrevious(o)
    BY <1>3, <2>2 DEF CancelPrevious
  <2>3. ASSUME NEW q \in Quantities, PlaceCheckoutOrder(o, q)
        PROVE  WhoCancelsKnows'
    BY <1>3, <2>3 DEF PlaceCheckoutOrder
  <2>4. CASE CreateSession(o)
    BY <1>3, <2>4 DEF CreateSession
  <2>5. CASE ReleaseAfterFailure(o)
    BY <1>3, <2>5 DEF ReleaseAfterFailure
  <2>6. CASE SaveSession(o)
    BY <1>3, <2>6 DEF SaveSession
  <2>7. CASE RequestFails(o)
    BY <1>3, <2>7 DEF RequestFails
  <2>8. QED
    BY <1>5, <2>1, <2>2, <2>3, <2>4, <2>5, <2>6, <2>7 DEF RequestStep
<1>6. ASSUME UNCHANGED <<request, previous, admin, sweep>>
      PROVE  WhoCancelsKnows'
  BY <1>3, <1>6
<1>7. ASSUME NEW o \in Order, WebhookStep(o) \/ StripeStep(o) \/ GrowOld(o)
      PROVE  UNCHANGED <<request, previous, admin, sweep>>
  BY <1>7 DEF WebhookStep, OnCompleted, OnExpired, OnRefunded, OnDispute, Deliver, StripeStep, Pay,
     SessionExpires, RefundAtStripe, DisputeAtStripe, GrowOld
<1>8. ASSUME NEW o \in Order, AdministratorStep(o)
      PROVE  WhoCancelsKnows'
  <2>1. UNCHANGED <<request, previous, sweep>>
    BY <1>8 DEF AdministratorStep, RequestCancel, AdminExpires, AdminCancels, AdminCancelsDisputed,
       RequestShip, AdminShips, AdminFails
  <2>2. CASE AdminExpires(o)
    <3>1. PICK outcome \in {"expired", "complete", "error"} :
            /\ ExpireSession(o, outcome)
            /\ AdminStep(o, "expiring", IF outcome = "expired" THEN "cancelling" ELSE "idle")
      BY <2>2 DEF AdminExpires
    <3>2. outcome = "expired" => session'[o] = "expired"
      BY <3>1 DEF ExpireSession, CloseSession, stripeVars
    <3>3. admin' = [admin EXCEPT ![o] = IF outcome = "expired" THEN "cancelling" ELSE "idle"]
      BY <3>1 DEF AdminStep
    <3>4. \A p \in Order : admin'[p] = "cancelling" =>
            admin[p] = "cancelling" \/ session'[p] = "expired"
      BY <3>2, <3>3
    <3>5. QED
      BY <1>2, <2>1, <3>4
  <2>3. ASSUME NEW to \in Admin \ {"cancelling"}, admin' = [admin EXCEPT ![o] = to]
        PROVE  \A p \in Order : admin'[p] = "cancelling" => admin[p] = "cancelling"
    BY <2>3
  <2>4. CASE RequestCancel(o)
    <3>1. \A p \in Order : admin'[p] = "cancelling" => admin[p] = "cancelling"
      BY <2>3, <2>4 DEF RequestCancel, AdminStep, Admin
    <3>2. QED
      BY <1>2, <2>1, <3>1
  <2>5. CASE AdminCancels(o) \/ AdminCancelsDisputed(o) \/ RequestShip(o) \/ AdminShips(o) \/ AdminFails(o)
    <3>1. \A p \in Order : admin'[p] = "cancelling" => admin[p] = "cancelling"
      BY <2>3, <2>5 DEF AdminCancels, AdminCancelsDisputed, RequestShip, AdminShips, AdminFails,
         AdminStep, Admin
    <3>2. QED
      BY <1>2, <2>1, <3>1
  <2>6. QED
    BY <1>8, <2>2, <2>4, <2>5 DEF AdministratorStep
<1>9. ASSUME NEW o \in Order, SweepingStep(o)
      PROVE  WhoCancelsKnows'
  <2>1. UNCHANGED <<request, previous, admin>>
    BY <1>9 DEF SweepingStep, SweepChecks, SweepCancels, SweepFails
  <2>2. \A p \in Order : sweep'[p] = "cancelling" =>
          sweep[p] = "cancelling" \/ session[p] \in {"expired", "unpaid"}
    BY <1>9 DEF SweepingStep, SweepChecks, SweepCancels, SweepFails, SweepStep, Abandoned
  <2>3. QED
    BY <1>2, <2>1, <2>2
<1>10. CASE StartSweep
  <2>1. UNCHANGED <<request, previous, admin>>
    BY <1>10 DEF StartSweep
  <2>2. \A p \in Order : sweep'[p] = "cancelling" => aged[p] /\ ~ saved[p]
    BY <1>10 DEF StartSweep, Stale
  <2>3. \A p \in Order : aged[p] /\ ~ saved[p] => request[p] = "failed"
    BY DEF SessionEnds
  <2>4. QED
    BY <1>2, <2>1, <2>2, <2>3
<1>11. CASE UNCHANGED allVars
  BY <1>6, <1>11 DEF allVars, checkoutVars
<1>12. QED
  BY <1>4, <1>5, <1>6, <1>7, <1>8, <1>9, <1>10, <1>11 DEF CheckoutNext

(* The inductive invariant of all who cancel.                              *)
THEOREM CancellersKnow == CheckoutSpec => [](SessionEnds /\ WhoCancelsKnows)
<1>1. CheckoutInit => SessionEnds /\ WhoCancelsKnows
  BY DEF CheckoutInit, SessionEnds, WhoCancelsKnows
<1>2. PaymentInv /\ PreviousKnown /\ SessionEnds /\ WhoCancelsKnows /\ [CheckoutNext]_allVars =>
        (SessionEnds /\ WhoCancelsKnows)'
  BY EndsKept, KnowledgeKept DEF SessionInv, PaymentInv
<1>3. QED
  BY <1>1, <1>2, PaymentInvHolds, PreviousStaysKnown, PTL DEF CheckoutSpec

(* Nobody who has been handed the stock of a pending order can be shown a  *)
(* payment for it afterwards.                                              *)
LEMMA ReleasesAreUnpayable ==
  ASSUME SessionInv, WhoCancelsKnows, [CheckoutNext]_allVars, NEW o \in Order,
         Released(o), admin[o] # "cancellingUnsaved"
  PROVE  /\ session'[o] # "paid"
         /\ session'[o] \in {"none", "open"} => request'[o] \notin {"creating", "saving", "served"}
<1> DEFINE Goal == /\ session'[o] # "paid"
                   /\ session'[o] \in {"none", "open"} =>
                        request'[o] \notin {"creating", "saving", "served"}
<1> HIDE DEF Goal
<1> USE DEF SessionInv, CheckoutTypeOK, TypeOK, Status, Released
<1>1. ~ UNCHANGED vars
  BY DEF vars
<1>2. ASSUME NEW p \in Order, CancelIfPending(p) \/ UNCHANGED vars
      PROVE  p = o
  BY <1>1, <1>2 DEF CancelIfPending, CancelOrder
<1>3. ASSUME UNCHANGED session, session[o] \in {"expired", "unpaid"}
      PROVE  Goal
  BY <1>3 DEF Goal
<1>4. ASSUME UNCHANGED session, request'[o] = "failed", session[o] \notin {"paid", "unpaid"}
      PROVE  Goal
  BY <1>4 DEF Goal
<1>5. ASSUME NEW p \in Order, RequestStep(p)
      PROVE  Goal
  <2>1. CASE CancelPrevious(p)
    <3>1. previous[p] = o
      BY <1>2, <2>1 DEF CancelPrevious, PreviousKnown
    <3>2. QED
      BY <1>3, <2>1, <3>1 DEF CancelPrevious, WhoCancelsKnows, stripeVars
  <2>2. CASE ReleaseAfterFailure(p)
    <3>1. p = o
      BY <1>2, <2>2 DEF ReleaseAfterFailure
    <3>2. session[o] \notin {"paid", "unpaid"}
      BY <2>2, <3>1 DEF ReleaseAfterFailure, SessionEnds
    <3>3. QED
      BY <1>4, <2>2, <3>1, <3>2 DEF ReleaseAfterFailure, stripeVars
  <2>3. ASSUME NEW q \in Quantities, PlaceCheckoutOrder(p, q)
        PROVE  Goal
    BY <2>3 DEF PlaceCheckoutOrder, PlaceOrder
  <2>4. QED
    BY <1>1, <1>5, <2>1, <2>2, <2>3 DEF RequestStep, ExpirePrevious, CreateSession, SaveSession,
       RequestFails
<1>6. ASSUME NEW p \in Order, WebhookStep(p)
      PROVE  Goal
  <2>1. CASE OnCompleted(p)
    BY <1>1, <2>1 DEF OnCompleted, PaidAfterCancel, RecordPaidAfterCancel, MarkOrderPaid
  <2>2. CASE OnExpired(p)
    <3>1. p = o
      BY <1>2, <2>2 DEF OnExpired
    <3>2. session[o] = "expired"
      BY <2>2, <3>1 DEF OnExpired, Deliver, SessionEnds
    <3>3. QED
      BY <1>3, <2>2, <3>2 DEF OnExpired, Deliver, stripeVars
  <2>3. ASSUME NEW n \in 1..Charge, OnRefunded(p, n)
        PROVE  Goal
    BY <1>1, <2>3 DEF OnRefunded, RefundFully, RefundPartially
  <2>4. QED
    BY <1>1, <1>6, <2>1, <2>2, <2>3 DEF WebhookStep, OnDispute
<1>7. ASSUME NEW p \in Order, AdministratorStep(p)
      PROVE  Goal
  <2>1. CASE AdminCancels(p)
    <3>1. p = o
      BY <1>2, <2>1 DEF AdminCancels
    <3>2. session[o] = "expired"
      BY <2>1, <3>1 DEF AdminCancels, AdminStep, WhoCancelsKnows
    <3>3. QED
      BY <1>3, <2>1, <3>2 DEF AdminCancels, stripeVars
  <2>2. CASE AdminCancelsDisputed(p)
    BY <2>2 DEF AdminCancelsDisputed, CancelOrder
  <2>3. CASE AdminShips(p)
    BY <2>3 DEF AdminShips, FulfillOrder
  <2>4. QED
    BY <1>1, <1>7, <2>1, <2>2, <2>3 DEF AdministratorStep, RequestCancel, AdminExpires, RequestShip,
       AdminFails
<1>8. ASSUME NEW p \in Order, SweepingStep(p)
      PROVE  Goal
  <2>1. CASE SweepCancels(p)
    <3>1. p = o
      BY <1>2, <2>1 DEF SweepCancels
    <3>2. session[o] \in {"expired", "unpaid"} \/ request[o] = "failed"
      BY <2>1, <3>1 DEF SweepCancels, SweepStep, WhoCancelsKnows
    <3>3. request[o] = "failed" => session[o] \notin {"paid", "unpaid"}
      BY DEF SessionEnds
    <3>4. UNCHANGED <<request, session>>
      BY <2>1 DEF SweepCancels, stripeVars
    <3>5. QED
      BY <1>3, <1>4, <3>2, <3>3, <3>4
  <2>2. QED
    BY <1>1, <1>8, <2>1 DEF SweepingStep, SweepChecks, SweepFails
<1>9. ASSUME NEW p \in Order, StripeStep(p) \/ GrowOld(p)
      PROVE  FALSE
  BY <1>1, <1>9 DEF GrowOld, StripeStep, Pay, SessionExpires, DisputeAtStripe, RefundAtStripe
<1>10. ASSUME NEW p \in Order, NEW r \in (Order \ {p}) \cup {NoOrder}, StartCheckout(p, r)
       PROVE  FALSE
  BY <1>1, <1>10 DEF StartCheckout
<1>11. ~ StartSweep /\ ~ UNCHANGED allVars
  BY <1>1 DEF StartSweep, allVars
<1>12. Goal
  BY <1>5, <1>6, <1>7, <1>8, <1>9, <1>10, <1>11 DEF CheckoutNext
<1>13. QED
  BY <1>12 DEF Goal

(* "Expire FIRST": sweep, new checkout, failed checkout, webhook and       *)
(* administrator release stock only when nobody can pay for it any more.   *)
THEOREM ReleasedStockIsUnpayable == CheckoutSpec => ReleasedMeansUnpayable
<1>1. SessionInv /\ WhoCancelsKnows /\ [CheckoutNext]_allVars =>
        [\A o \in Order : Released(o) /\ admin[o] # "cancellingUnsaved" => ~MayBePaid(o)']_allVars
  <2> SUFFICES ASSUME SessionInv, WhoCancelsKnows, [CheckoutNext]_allVars, NEW o \in Order,
                      Released(o), admin[o] # "cancellingUnsaved"
               PROVE  ~MayBePaid(o)'
    OBVIOUS
  <2> QED
    BY ReleasesAreUnpayable DEF MayBePaid
<1>2. PaymentInv /\ PreviousKnown /\ SessionEnds => SessionInv
  BY DEF PaymentInv, SessionInv
<1>3. QED
  BY <1>1, <1>2, PaymentInvHolds, PreviousStaysKnown, CancellersKnow, PTL
     DEF CheckoutSpec, ReleasedMeansUnpayable
=============================================================================
