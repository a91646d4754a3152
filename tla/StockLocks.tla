----------------------------- MODULE StockLocks -----------------------------
(***************************************************************************)
(* Inside the transactions of Orders: a stock transaction locks the row of *)
(* its order, if the order exists, then updates one inventory row after    *)
(* the other, each under that row's lock, and keeps its locks until it     *)
(* commits or rolls back (Postgres, READ COMMITTED).  Several run at once, *)
(* as do two deliveries of one Walmart order.  Allocations are left to     *)
(* Orders: they are in the same row and the same UPDATE.                   *)
(***************************************************************************)
EXTENDS Holds, Sequences, SequencesExt

CONSTANTS
  Transaction,    \* database connections that run stock transactions
  WalmartOrder,   \* the orders that come from Walmart
  Nobody,         \* a lock that is free
  Shelf           \* units of each variant in the building at first

(* Variant ids are numbers: they are compared when rows are sorted. *)
ASSUME StockLocksAssumption ==
  /\ Variant \subseteq Nat /\ IsFiniteSet(Variant) /\ Shelf \in Nat
  /\ WalmartOrder \subseteq Order /\ Order # {} /\ Nobody \notin Transaction

VARIABLES
  lines,       \* what is ordered; never changes
  status,      \* orders.status as committed: "none", "open" or "settled"
  image,       \* inventory rows as committed
  row,         \* inventory rows, updates not yet committed included
  rowLock,     \* who holds the lock of each inventory row
  orderLock,   \* who holds the lock of each order row
  kind,        \* what each connection is doing
  order,       \* the order it is about
  todo         \* the rows it has still to update, in this order

vars == <<lines, status, image, row, rowLock, orderLock, kind, order, todo>>

Kind == {"idle", "place", "ingest", "release", "ship"}
Row == [onHand : 0..Shelf, reserved : 0..Shelf]

Ordered(o) == {v \in Variant : lines[o][v] > 0}

Sorted(S, Before(_, _)) ==
  CHOOSE s \in SetToSeqs(S) : \A i, j \in DOMAIN s : i < j => Before(s[i], s[j])

(* variant: reserving in cart order *)
RowsInCartOrder(k, o) == IF k = "place" THEN Sorted(Ordered(o), >) ELSE Sorted(Ordered(o), <)

(* byVariantId: the rows to update, sorted. *)
RowsById(k, o) == Sorted(Ordered(o), <)

Init ==
  /\ lines \in {q \in [Order -> Quantities] : \A o \in Order : \E v \in Variant : q[o][v] > 0}
  /\ status = [o \in Order |-> "none"]
  /\ image = [v \in Variant |-> [onHand |-> Shelf, reserved |-> 0]]
  /\ row = image
  /\ rowLock = [v \in Variant |-> Nobody]
  /\ orderLock = [o \in Order |-> Nobody]
  /\ kind = [t \in Transaction |-> "idle"]
  /\ order \in [Transaction -> {CHOOSE o \in Order : TRUE}]
  /\ todo = [t \in Transaction |-> <<>>]

Start(t, k, o, rows) ==
  /\ kind' = [kind EXCEPT ![t] = k]
  /\ order' = [order EXCEPT ![t] = o]
  /\ todo' = [todo EXCEPT ![t] = rows]

-----------------------------------------------------------------------------
(* placeOrder: one transaction per order, which has no id before it. *)
BeginPlace(t, o) ==
  /\ kind[t] = "idle"
  /\ o \notin WalmartOrder /\ status[o] = "none"
  /\ \A u \in Transaction : kind[u] # "idle" => order[u] # o
  /\ Start(t, "place", o, RowsById("place", o))
  /\ UNCHANGED <<lines, status, image, row, rowLock, orderLock>>

(* ingestWalmartOrder: by webhook or by poll, perhaps both at once; the    *)
(* rows are updated in the order of the Walmart payload.                   *)
BeginIngest(t, o) ==
  /\ kind[t] = "idle"
  /\ o \in WalmartOrder /\ status[o] = "none"
  /\ \E rows \in SetToSeqs(Ordered(o)) : Start(t, "ingest", o, rows)
  /\ UNCHANGED <<lines, status, image, row, rowLock, orderLock>>

(* variant: the order row is read without FOR UPDATE *)
ReadOrderRow(t, o) == orderLock' = orderLock

(* lockOrderRow waits for the row, and then reads what is committed.       *)
LockOrderRow(t, o) ==
  /\ orderLock[o] = Nobody
  /\ orderLock' = [orderLock EXCEPT ![o] = t]

(* releaseReservation in a cancel or refund, and fulfillOrder: an order    *)
(* that is no longer open is refused, which is no step.                    *)
BeginSettle(t, o) ==
  /\ kind[t] = "idle"
  /\ LockOrderRow(t, o)
  /\ status[o] = "open"
  /\ \E k \in {"release", "ship"} : Start(t, k, o, RowsById(k, o))
  /\ UNCHANGED <<lines, status, image, row, rowLock>>

(* variant: the UPDATE without its WHERE clause *)
MatchesAlways(k, r, n) == TRUE

(* The guarded UPDATE, which sees the row as it is under its lock.         *)
Matches(k, r, n) ==
  CASE k \in {"place", "ingest"} -> r.onHand - r.reserved >= n
    [] k = "release" -> r.reserved >= n
    [] k = "ship" -> r.reserved >= n /\ r.onHand >= n

Updated(k, r, n) ==
  CASE k \in {"place", "ingest"} -> [r EXCEPT !.reserved = @ + n]
    [] k = "release" -> [r EXCEPT !.reserved = @ - n]
    [] k = "ship" -> [onHand |-> r.onHand - n, reserved |-> r.reserved - n]

UpdateRow(t) ==
  /\ todo[t] # <<>>
  /\ LET v == Head(todo[t])
         n == lines[order[t]][v] IN
     /\ rowLock[v] = Nobody
     /\ Matches(kind[t], row[v], n)
     /\ rowLock' = [rowLock EXCEPT ![v] = t]
     /\ row' = [row EXCEPT ![v] = Updated(kind[t], @, n)]
  /\ todo' = [todo EXCEPT ![t] = Tail(@)]
  /\ UNCHANGED <<lines, status, image, orderLock, kind, order>>

Held(t) == {v \in Variant : rowLock[v] = t}

End(t) ==
  /\ rowLock' = [v \in Variant |-> IF rowLock[v] = t THEN Nobody ELSE rowLock[v]]
  /\ orderLock' = [o \in Order |-> IF orderLock[o] = t THEN Nobody ELSE orderLock[o]]
  /\ kind' = [kind EXCEPT ![t] = "idle"]
  /\ todo' = [todo EXCEPT ![t] = <<>>]
  /\ UNCHANGED <<lines, order>>

(* orders.external_order_id is unique: the delivery that commits second    *)
(* fails.                                                                  *)
Unique(t) == kind[t] \in {"place", "ingest"} => status[order[t]] = "none"

Commit(t) ==
  /\ kind[t] # "idle" /\ todo[t] = <<>>
  /\ Unique(t)
  /\ status' = [status EXCEPT ![order[t]] =
                  IF kind[t] \in {"place", "ingest"} THEN "open" ELSE "settled"]
  /\ image' = [v \in Variant |-> IF v \in Held(t) THEN row[v] ELSE image[v]]
  /\ End(t)
  /\ UNCHANGED row

(* A guarded UPDATE that matches no row, a second delivery, a deadlock     *)
(* that Postgres breaks, a lost connection: nothing of it remains.         *)
Rollback(t) ==
  /\ kind[t] # "idle"
  /\ row' = [v \in Variant |-> IF v \in Held(t) THEN image[v] ELSE row[v]]
  /\ End(t)
  /\ UNCHANGED <<status, image>>

Next ==
  \E t \in Transaction :
    \/ \E o \in Order : BeginPlace(t, o) \/ BeginIngest(t, o) \/ BeginSettle(t, o)
    \/ UpdateRow(t) \/ Commit(t) \/ Rollback(t)

Spec == Init /\ [][Next]_vars

-----------------------------------------------------------------------------
TypeOK ==
  /\ lines \in [Order -> Quantities]
  /\ status \in [Order -> {"none", "open", "settled"}]
  /\ image \in [Variant -> Row] /\ row \in [Variant -> Row]
  /\ rowLock \in [Variant -> Transaction \cup {Nobody}]
  /\ orderLock \in [Order -> Transaction \cup {Nobody}]
  /\ kind \in [Transaction -> Kind] /\ order \in [Transaction -> Order]
  /\ \A t \in Transaction : Range(todo[t]) \subseteq Variant

(* A transaction waits for the one that holds the row it needs next.  The  *)
(* order row cannot be part of a circle: it is locked before all others.   *)
WaitsFor(t, u) ==
  /\ t # u /\ todo[t] # <<>>
  /\ rowLock[Head(todo[t])] = u

Deadlocked(T) == T # {} /\ \A t \in T : \E u \in T : WaitsFor(t, u)

(* Rows sorted by variant id keep the storefront's transactions, and every *)
(* ship, cancel and refund, from waiting for each other in a circle: in    *)
(* every deadlock there is a Walmart ingest.                               *)
OnlyIngestsDeadlock ==
  \A T \in SUBSET Transaction : Deadlocked(T) => \E t \in T : kind[t] = "ingest"

(* byVariantId's comment (orders.service.ts:95): "Every multi-row stock    *)
(* write takes its inventory row locks in ascending variantId order".      *)
RowLocksAscend ==
  \A t \in Transaction, v \in Variant :
    v \in Held(t) /\ todo[t] # <<>> => v < Head(todo[t])

(* The committed tables, as StockPromises sees them. *)
Life == [o \in Order |-> CASE status[o] = "none" -> "new"
                           [] status[o] = "open" -> "promised"
                           [] status[o] = "settled" -> "settled"]

Promised == [o \in Order |-> IF status[o] = "none" THEN [v \in Variant |-> 0] ELSE lines[o]]

OnHand == [v \in Variant |-> image[v].onHand]

Promises == INSTANCE StockPromises WITH stock <- OnHand, life <- Life, promise <- Promised

(* What is committed is a sequence of whole promises, shipments and        *)
(* releases, each made once, though rows are written one at a time by      *)
(* transactions that overlap, roll back and are delivered twice: what      *)
(* module Orders takes for granted when a transaction is one step.         *)
CommitsAreAtomic == Promises!Spec
=============================================================================
