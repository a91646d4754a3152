-------------------------- MODULE StockLocksProofs --------------------------
(***************************************************************************)
(* Atomicity of the stock transactions, for any number of connections,     *)
(* orders and variants: rows that are written one at a time under their    *)
(* locks commit as whole promises, releases and shipments, and sorted      *)
(* transactions never wait for each other in a circle.  And what the       *)
(* abstract promises themselves guarantee: no oversell.                    *)
(***************************************************************************)
EXTENDS StockLocks, FiniteSetTheorems, TLAPS

-----------------------------------------------------------------------------
(* What HoldCount does when one order starts or stops holding units.       *)
(* These facts stand in for an induction over the set of orders: every     *)
(* transaction changes the holds of one order only.                        *)

(* A row of n units has n of them. *)
LEMMA RowOfUnits ==
  ASSUME NEW x, NEW n \in Nat
  PROVE  IsFiniteSet({x} \X (1..n)) /\ Cardinality({x} \X (1..n)) = n
<1>1. IsFiniteSet({x}) /\ Cardinality({x}) = 1
  BY FS_Singleton
<1>2. IsFiniteSet(1..n) /\ Cardinality(1..n) = IF 1 > n THEN 0 ELSE n - 1 + 1
  <2>1. 1 \in Int /\ n \in Int
    OBVIOUS
  <2>2. QED
    BY ONLY <2>1, FS_Interval
<1>3. Cardinality(1..n) = n
  BY <1>2
<1>4. /\ IsFiniteSet({x} \X (1..n))
      /\ Cardinality({x} \X (1..n)) = Cardinality({x}) * Cardinality(1..n)
  BY <1>1, <1>2, FS_Product
<1>5. Cardinality({x} \X (1..n)) = 1 * n
  BY <1>1, <1>3, <1>4, Zenon
<1>6. QED
  BY <1>4, <1>5

(* The units of one order are as many as its lines say. *)
LEMMA OneOrder ==
  ASSUME NEW o \in Order, NEW q \in [Order -> Quantities], NEW v \in Variant
  PROVE  /\ IsFiniteSet(Units({o}, q, v))
         /\ HoldCount({o}, q, v) = q[o][v]
<1>1. q[o][v] \in 0..MaxQuantity
  BY DEF Quantities
<1>2. q[o][v] \in Nat
  BY <1>1, HoldsAssumption
<1>3. Units({o}, q, v) = {o} \X (1..q[o][v])
  BY <1>1, HoldsAssumption DEF Units
<1>4. IsFiniteSet({o} \X (1..q[o][v])) /\ Cardinality({o} \X (1..q[o][v])) = q[o][v]
  BY <1>2, RowOfUnits
<1>5. QED
  BY <1>3, <1>4, Zenon DEF HoldCount

(* The units held by any set of orders can be counted. *)
LEMMA HoldsFinite ==
  ASSUME NEW who \in SUBSET Order, NEW q, NEW v
  PROVE  IsFiniteSet(Units(who, q, v)) /\ HoldCount(who, q, v) \in Nat
<1>1. IsFiniteSet(who)
  BY FS_Subset, HoldsAssumption
<1>2. IsFiniteSet(1..MaxQuantity)
  BY FS_Interval, HoldsAssumption
<1>3. IsFiniteSet(who \X (1..MaxQuantity))
  BY <1>1, <1>2, FS_Product
<1>4. Units(who, q, v) \in SUBSET (who \X (1..MaxQuantity))
  BY DEF Units
<1>5. QED
  BY <1>3, <1>4, FS_Subset, FS_CardinalityType DEF HoldCount

(* An order that joins the holders adds exactly its own lines. *)
THEOREM HoldAdded ==
  ASSUME NEW who \in SUBSET Order, NEW o \in Order, o \notin who,
         NEW q \in [Order -> Quantities], NEW v \in Variant
  PROVE  HoldCount(who \cup {o}, q, v) = HoldCount(who, q, v) + q[o][v]
<1>1. Units(who \cup {o}, q, v) = Units(who, q, v) \cup Units({o}, q, v)
  BY DEF Units
<1>2. Units(who, q, v) \cap Units({o}, q, v) = {}
  BY DEF Units
<1>3. Cardinality({}) = 0
  BY FS_EmptySet
<1>4. IsFiniteSet(Units(who, q, v)) /\ IsFiniteSet(Units({o}, q, v))
  BY HoldsFinite, OneOrder
<1>5. Cardinality(Units(who, q, v) \cup Units({o}, q, v))
        = Cardinality(Units(who, q, v)) + Cardinality(Units({o}, q, v))
             - Cardinality(Units(who, q, v) \cap Units({o}, q, v))
  BY <1>4, FS_Union
<1>6. HoldCount(who \cup {o}, q, v)
        = HoldCount(who, q, v) + HoldCount({o}, q, v) - 0
  BY <1>1, <1>2, <1>3, <1>5, Zenon DEF HoldCount
<1>7. HoldCount(who, q, v) \in Nat /\ HoldCount({o}, q, v) = q[o][v]
  BY HoldsFinite, OneOrder
<1>8. q[o][v] \in Nat
  BY HoldsAssumption DEF Quantities
<1>9. QED
  BY <1>6, <1>7, <1>8

(* The lines of orders that hold nothing do not count. *)
LEMMA OnlyHoldersCount ==
  ASSUME NEW who, NEW p, NEW q, NEW v, \A o \in who : p[o] = q[o]
  PROVE  HoldCount(who, p, v) = HoldCount(who, q, v)
<1>1. Units(who, p, v) = Units(who, q, v)
  BY DEF Units
<1>2. QED
  BY <1>1 DEF HoldCount

(* A holder never holds more than all holders together. *)
THEOREM HolderWithinHolds ==
  ASSUME NEW who \in SUBSET Order, NEW o \in who,
         NEW q \in [Order -> Quantities], NEW v \in Variant
  PROVE  /\ HoldCount(who, q, v) = HoldCount(who \ {o}, q, v) + q[o][v]
         /\ q[o][v] <= HoldCount(who, q, v)
<1>1. (who \ {o}) \cup {o} = who
  OBVIOUS
<1>2. HoldCount((who \ {o}) \cup {o}, q, v) = HoldCount(who \ {o}, q, v) + q[o][v]
  BY HoldAdded
<1>3. HoldCount(who, q, v) = HoldCount(who \ {o}, q, v) + q[o][v]
  BY <1>1, <1>2, Zenon
<1>4. HoldCount(who \ {o}, q, v) \in Nat
  BY HoldsFinite
<1>5. q[o][v] \in Nat
  BY HoldsAssumption DEF Quantities
<1>6. QED
  BY <1>3, <1>4, <1>5

-----------------------------------------------------------------------------
(* Finite sets of numbers: their size, and the sequences without repeats   *)
(* that list them.                                                         *)
LEMMA FewerBelow ==
  ASSUME NEW S \in SUBSET Nat, IsFiniteSet(S), NEW v \in S, NEW w \in S, v < w
  PROVE  /\ Cardinality({x \in S : x <= v}) \in 1..Cardinality(S)
         /\ Cardinality({x \in S : x <= v}) < Cardinality({x \in S : x <= w})
<1> DEFINE A == {x \in S : x <= v}  B == {x \in S : x <= w}
<1>1. A \subseteq B /\ B \subseteq S /\ w \in B /\ w \notin A /\ v \in A
  <2>1. v \in Nat /\ w \in Nat /\ \A x \in S : x \in Nat
    OBVIOUS
  <2>2. \A x \in S : x <= v => x <= w
    BY <2>1
  <2>3. w \notin A /\ w \in B /\ v \in A
    BY <2>1
  <2>4. QED
    BY <2>2, <2>3
<1> HIDE DEF A, B
<1>2. IsFiniteSet(B) /\ IsFiniteSet(A) /\ Cardinality(B) <= Cardinality(S)
  BY <1>1, FS_Subset
<1>3. Cardinality(A) <= Cardinality(B) /\ Cardinality(A) # Cardinality(B)
  BY <1>1, <1>2, FS_Subset
<1>4. /\ Cardinality(A) \in Nat /\ Cardinality(B) \in Nat /\ Cardinality(S) \in Nat
      /\ Cardinality(A) # 0
  BY <1>1, <1>2, FS_CardinalityType, FS_EmptySet
<1>5. Cardinality(A) \in 1..Cardinality(S) /\ Cardinality(A) < Cardinality(B)
  BY <1>2, <1>3, <1>4
<1>6. QED
  BY <1>5 DEF A, B

(* A sequence without repeats that is as long as the set is large lists    *)
(* all of it.                                                              *)
LEMMA SeqOfSet ==
  ASSUME NEW S, IsFiniteSet(S), NEW s \in SetToSeqs(S)
  PROVE  s \in Seq(S) /\ \A v \in S : \E i \in DOMAIN s : s[i] = v
<1> DEFINE n == Cardinality(S)
<1>1. n \in Nat /\ IsFiniteSet(1..n) /\ Cardinality(1..n) = n
  <2>1. n \in Nat
    BY FS_CardinalityType
  <2>2. QED
    BY <2>1, FS_Interval
<1>2. s \in [1..n -> S] /\ \A i, j \in 1..n : i # j => s[i] # s[j]
  BY DEF SetToSeqs
<1> HIDE DEF n
<1>3. s \in Seq(S)
  BY <1>1, <1>2
<1>4. s \in Injection(1..n, S)
  BY <1>2 DEF Injection, IsInjective
<1>5. s \in Surjection(1..n, S)
  BY <1>1, <1>4, FS_Injection DEF n
<1>6. QED
  BY <1>2, <1>3, <1>5 DEF Surjection

(* A finite set of numbers can be listed in ascending order.               *)
LEMMA SortedListExists ==
  ASSUME NEW S \in SUBSET Nat, IsFiniteSet(S)
  PROVE  \E s \in SetToSeqs(S) : \A i, j \in DOMAIN s : i < j => s[i] < s[j]
<1> DEFINE n == Cardinality(S)
           Place == [v \in S |-> Cardinality({x \in S : x <= v})]
<1>1. n \in Nat /\ IsFiniteSet(1..n) /\ Cardinality(1..n) = n
  <2>1. n \in Nat
    BY FS_CardinalityType
  <2>2. QED
    BY <2>1, FS_Interval
<1>2. ASSUME NEW v \in S PROVE Place[v] \in 1..n
  <2> DEFINE A == {x \in S : x <= v}
  <2>1. A \subseteq S /\ v \in A
    OBVIOUS
  <2> HIDE DEF A
  <2>2. IsFiniteSet(A) /\ Cardinality(A) <= n /\ Cardinality(A) \in Nat /\ Cardinality(A) # 0
    BY <2>1, FS_Subset, FS_CardinalityType, FS_EmptySet
  <2>3. Cardinality(A) \in 1..n
    BY <1>1, <2>2
  <2>4. QED
    BY <2>3 DEF A
<1>3. ASSUME NEW v \in S, NEW w \in S, v < w PROVE Place[v] < Place[w]
  BY <1>3, FewerBelow
<1> HIDE DEF n, Place
<1>4. Place \in [S -> 1..n]
  BY <1>2 DEF Place
<1>5. Place \in Surjection(S, 1..n)
  <2>1. ASSUME NEW v \in S, NEW w \in S, v # w PROVE Place[v] # Place[w]
    <3>1. v \in Nat /\ w \in Nat
      OBVIOUS
    <3>2. v < w \/ w < v
      BY <2>1, <3>1
    <3>3. Place[v] \in Int /\ Place[w] \in Int
      BY <1>2
    <3>4. v < w => Place[v] < Place[w]
      BY <1>3
    <3>5. w < v => Place[w] < Place[v]
      BY <1>3
    <3>6. QED
      BY <3>2, <3>3, <3>4, <3>5
  <2>2. Place \in Injection(S, 1..n)
    BY <1>4, <2>1 DEF Injection, IsInjective
  <2>3. QED
    BY <1>1, <2>2, FS_Injection DEF n
<1>6. \A i \in 1..n : \E v \in S : Place[v] = i
  BY <1>5 DEF Surjection
<1> DEFINE s == [i \in 1..n |-> CHOOSE v \in S : Place[v] = i]
<1>7. \A i \in 1..n : s[i] \in S /\ Place[s[i]] = i
  BY <1>6
<1>8. s \in [1..n -> S] /\ DOMAIN s = 1..n
  BY <1>7
<1> HIDE DEF s
<1>9. s \in SetToSeqs(S)
  BY <1>7, <1>8 DEF SetToSeqs, n
<1>10. ASSUME NEW i \in 1..n, NEW j \in 1..n, i < j PROVE s[i] < s[j]
  <2>1. s[i] \in S /\ s[j] \in S /\ Place[s[i]] = i /\ Place[s[j]] = j /\ i \in Nat /\ j \in Nat
    BY <1>7
  <2>2. s[j] < s[i] => Place[s[j]] < Place[s[i]]
    BY <1>3, <2>1
  <2>3. s[i] \in Nat /\ s[j] \in Nat
    BY <2>1
  <2>4. i # j
    BY <1>10, <2>1
  <2>5. s[i] # s[j]
    BY <2>1, <2>4
  <2>6. ~(s[j] < s[i])
    BY <1>10, <2>1, <2>2
  <2>7. QED
    BY <2>3, <2>5, <2>6
<1>11. QED
  BY <1>8, <1>9, <1>10

(* byVariantId lists exactly the rows of the order, in ascending order.    *)
LEMMA RowsAreSorted ==
  ASSUME NEW k, NEW o \in Order
  PROVE  /\ RowsById(k, o) \in Seq(Variant)
         /\ \A i, j \in DOMAIN RowsById(k, o) : i < j => RowsById(k, o)[i] < RowsById(k, o)[j]
         /\ \A v \in Variant : lines[o][v] > 0 <=> \E i \in DOMAIN RowsById(k, o) : RowsById(k, o)[i] = v
<1>1. Ordered(o) \in SUBSET Nat /\ IsFiniteSet(Ordered(o)) /\ Ordered(o) \in SUBSET Variant
  <2>1. Ordered(o) \subseteq Variant
    BY DEF Ordered
  <2>2. QED
    BY <2>1, FS_Subset, StockLocksAssumption
<1> DEFINE s == RowsById(k, o)
<1>2. s \in SetToSeqs(Ordered(o)) /\ \A i, j \in DOMAIN s : i < j => s[i] < s[j]
  BY <1>1, SortedListExists, Zenon DEF RowsById, Sorted
<1> HIDE DEF s
<1>3. s \in Seq(Ordered(o)) /\ \A v \in Ordered(o) : \E i \in DOMAIN s : s[i] = v
  BY <1>1, <1>2, SeqOfSet
<1>4. \A i \in DOMAIN s : s[i] \in Ordered(o)
  BY <1>3
<1>5. s \in Seq(Variant)
  BY <1>1, <1>3
<1>6. \A v \in Variant : lines[o][v] > 0 <=> \E i \in DOMAIN s : s[i] = v
  BY <1>3, <1>4 DEF Ordered
<1>7. QED
  BY <1>2, <1>5, <1>6 DEF s

-----------------------------------------------------------------------------
(* Typed is TypeOK with the rows still to update as a sequence.            *)
Typed ==
  /\ lines \in [Order -> Quantities]
  /\ status \in [Order -> {"none", "open", "settled"}]
  /\ image \in [Variant -> Row] /\ row \in [Variant -> Row]
  /\ rowLock \in [Variant -> Transaction \cup {Nobody}]
  /\ orderLock \in [Order -> Transaction \cup {Nobody}]
  /\ kind \in [Transaction -> Kind] /\ order \in [Transaction -> Order]
  /\ todo \in [Transaction -> Seq(Variant)]

Idles(t) ==
  /\ todo[t] = <<>>
  /\ \A v \in Variant : rowLock[v] # t
  /\ \A o \in Order : orderLock[o] # t

(* The rows that a sorted transaction has locked come before the others.   *)
SortedTodo(t) ==
  /\ \A i, j \in DOMAIN todo[t] : i < j => todo[t][i] < todo[t][j]
  /\ \A v \in Variant, i \in DOMAIN todo[t] : rowLock[v] = t => v < todo[t][i]

(* A row that is locked differs from the committed one by this update      *)
(* alone, which was allowed; all rows of the order are locked or to come;  *)
(* and who settles an order has it locked, and open.                       *)
Works(t) ==
  /\ \A v \in Variant : rowLock[v] = t =>
       /\ Matches(kind[t], image[v], lines[order[t]][v])
       /\ row[v] = Updated(kind[t], image[v], lines[order[t]][v])
  /\ \A v \in Variant :
       lines[order[t]][v] > 0 <=> rowLock[v] = t \/ \E i \in DOMAIN todo[t] : todo[t][i] = v
  /\ kind[t] # "ingest" => SortedTodo(t)
  /\ kind[t] \in {"release", "ship"} => orderLock[order[t]] = t /\ status[order[t]] = "open"

Each(t) == IF kind[t] = "idle" THEN Idles(t) ELSE Works(t)

FreeRows == \A v \in Variant : rowLock[v] = Nobody => row[v] = image[v]

(* The counter as committed is what the open orders hold.                  *)
Open == {o \in Order : status[o] = "open"}

Counted ==
  \A v \in Variant :
    /\ image[v].reserved = HoldCount(Open, lines, v)
    /\ image[v].reserved <= image[v].onHand

LocksInv == Typed /\ (\A t \in Transaction : Each(t)) /\ FreeRows /\ Counted

(* What an update makes of a row that it matches.                          *)
LEMMA UpdatedRow ==
  ASSUME NEW k \in Kind \ {"idle"}, NEW r \in Row, NEW n \in Nat, Matches(k, r, n)
  PROVE  LET q == Updated(k, r, n) IN
         /\ q \in Row
         /\ k \in {"place", "ingest"} =>
              /\ q.onHand = r.onHand /\ q.reserved = r.reserved + n
              /\ q.reserved <= r.onHand
         /\ k = "release" => q.onHand = r.onHand /\ q.reserved = r.reserved - n
         /\ k = "ship" => q.onHand = r.onHand - n /\ q.reserved = r.reserved - n
<1>1. r.onHand \in 0..Shelf /\ r.reserved \in 0..Shelf /\ Shelf \in Nat
      /\ r = [onHand |-> r.onHand, reserved |-> r.reserved]
  BY StockLocksAssumption DEF Row
<1>2. CASE k \in {"place", "ingest"}
  <2>1. r.onHand - r.reserved >= n
    BY <1>2 DEF Matches
  <2>2. Updated(k, r, n) = [onHand |-> r.onHand, reserved |-> r.reserved + n]
    BY <1>1, <1>2 DEF Updated
  <2>3. r.reserved + n \in 0..Shelf /\ r.reserved + n <= r.onHand
    BY <1>1, <2>1
  <2>4. QED
    BY <1>1, <1>2, <2>2, <2>3 DEF Row
<1>3. CASE k = "release"
  <2>1. r.reserved >= n
    BY <1>3 DEF Matches
  <2>2. Updated(k, r, n) = [onHand |-> r.onHand, reserved |-> r.reserved - n]
    BY <1>1, <1>3 DEF Updated
  <2>3. r.reserved - n \in 0..Shelf
    BY <1>1, <2>1
  <2>4. QED
    BY <1>1, <1>3, <2>2, <2>3 DEF Row
<1>4. CASE k = "ship"
  <2>1. r.reserved >= n /\ r.onHand >= n
    BY <1>4 DEF Matches
  <2>2. Updated(k, r, n) = [onHand |-> r.onHand - n, reserved |-> r.reserved - n]
    BY <1>4 DEF Updated
  <2>3. r.reserved - n \in 0..Shelf /\ r.onHand - n \in 0..Shelf
    BY <1>1, <2>1
  <2>4. QED
    BY <1>1, <1>4, <2>2, <2>3 DEF Row
<1>5. QED
  BY <1>2, <1>3, <1>4 DEF Kind

(* The head and the tail of a sequence are its elements.                   *)
LEMMA HeadAndTail ==
  ASSUME NEW s \in Seq(Variant), s # <<>>
  PROVE  /\ Head(s) \in Variant /\ 1 \in DOMAIN s /\ Head(s) = s[1] /\ Tail(s) \in Seq(Variant)
         /\ \A i \in DOMAIN s : s[i] \in Variant /\ i \in Nat
         /\ \A i \in DOMAIN Tail(s) : i + 1 \in DOMAIN s /\ Tail(s)[i] = s[i + 1]
         /\ \A i \in DOMAIN s : i = 1 \/ (i - 1 \in DOMAIN Tail(s) /\ Tail(s)[i - 1] = s[i])
<1>1. Len(s) \in Nat /\ Len(s) > 0 /\ DOMAIN s = 1..Len(s) /\ \A i \in 1..Len(s) : s[i] \in Variant
  OBVIOUS
<1>2. Head(s) = s[1] /\ Tail(s) \in Seq(Variant) /\ Len(Tail(s)) = Len(s) - 1
      /\ DOMAIN Tail(s) = 1..Len(s) - 1 /\ \A i \in 1..Len(s) - 1 : Tail(s)[i] = s[i + 1]
  BY <1>1
<1>3. \A i \in DOMAIN s : i # 1 => i - 1 \in 1..Len(s) - 1 /\ (i - 1) + 1 = i
  BY <1>1
<1>4. QED
  BY <1>1, <1>2, <1>3

(* A transaction keeps its ground while another one steps.                 *)
LEMMA OtherKeeps ==
  ASSUME NEW u \in Transaction, Each(u), order[u] \in Order, lines' = lines,
         kind'[u] = kind[u], order'[u] = order[u], todo'[u] = todo[u],
         \A v \in Variant : rowLock'[v] = u <=> rowLock[v] = u,
         \A v \in Variant : rowLock[v] = u => row'[v] = row[v] /\ image'[v] = image[v],
         \A o \in Order : orderLock'[o] = u <=> orderLock[o] = u,
         kind[u] \in {"release", "ship"} => status'[order[u]] = status[order[u]]
  PROVE  Each(u)'
<1>1. CASE kind[u] = "idle"
  BY <1>1 DEF Each, Idles
<1>2. CASE kind[u] # "idle"
  <2>1. Works(u)
    BY <1>2 DEF Each
  <2>2. SortedTodo(u) => SortedTodo(u)'
    BY DEF SortedTodo
  <2>3. Works(u)'
    BY <2>1, <2>2 DEF Works
  <2>4. QED
    BY <1>2, <2>3 DEF Each
<1>3. QED
  BY <1>1, <1>2

-----------------------------------------------------------------------------
(* A transaction begins: it has locked no row yet.                         *)
LEMMA BeginKeeps ==
  ASSUME LocksInv, NEW t \in Transaction, kind[t] = "idle", NEW k \in Kind \ {"idle"},
         NEW o \in Order, NEW rows \in Seq(Variant), Start(t, k, o, rows),
         \A v \in Variant : lines[o][v] > 0 <=> \E i \in DOMAIN rows : rows[i] = v,
         k # "ingest" => \A i, j \in DOMAIN rows : i < j => rows[i] < rows[j],
         orderLock' \in [Order -> Transaction \cup {Nobody}],
         \A p \in Order : orderLock'[p] # orderLock[p] => orderLock[p] = Nobody /\ orderLock'[p] = t,
         k \in {"release", "ship"} => orderLock'[o] = t /\ status[o] = "open",
         UNCHANGED <<lines, status, image, row, rowLock>>
  PROVE  LocksInv'
<1> USE DEF LocksInv
<1>1. /\ kind' \in [Transaction -> Kind] /\ kind'[t] = k
      /\ order' \in [Transaction -> Order] /\ order'[t] = o
      /\ todo' \in [Transaction -> Seq(Variant)] /\ todo'[t] = rows
      /\ \A u \in Transaction \ {t} : kind'[u] = kind[u] /\ order'[u] = order[u] /\ todo'[u] = todo[u]
  BY DEF Start, Typed
<1>2. Typed'
  BY <1>1 DEF Typed
<1>3. Each(t)'
  <2>1. \A v \in Variant : rowLock'[v] # t
    BY DEF Each, Idles
  <2>2. SortedTodo(t)' \/ k = "ingest"
    BY <1>1, <2>1 DEF SortedTodo
  <2>3. Works(t)'
    BY <1>1, <2>1, <2>2 DEF Works
  <2>4. QED
    BY <1>1, <2>3 DEF Each
<1>4. ASSUME NEW u \in Transaction \ {t} PROVE Each(u)'
  <2>1. Each(u) /\ order[u] \in Order /\ u # Nobody
    BY StockLocksAssumption DEF Typed
  <2>2. \A p \in Order : orderLock'[p] = u <=> orderLock[p] = u
    BY <2>1
  <2>3. QED
    BY <1>1, <2>1, <2>2, OtherKeeps
<1>5. FreeRows' /\ Counted'
  BY DEF FreeRows, Counted, Open
<1>6. QED
  BY <1>2, <1>3, <1>4, <1>5

(* A row is updated under its lock, which nobody has.                      *)
LEMMA UpdateKeeps ==
  ASSUME LocksInv, NEW t \in Transaction, UpdateRow(t)
  PROVE  LocksInv'
<1> USE DEF LocksInv
<1>1. kind[t] # "idle" /\ Works(t)
  BY DEF Each, Idles, UpdateRow
<1> DEFINE w == Head(todo[t])
           n == lines[order[t]][w]
<1>2. /\ w \in Variant /\ todo[t] \in Seq(Variant) /\ todo[t] # <<>> /\ order[t] \in Order
      /\ n \in Nat /\ image[w] \in Row /\ kind[t] \in Kind \ {"idle"}
  <2>1. todo[t] \in Seq(Variant) /\ todo[t] # <<>> /\ order[t] \in Order /\ kind[t] \in Kind \ {"idle"}
    BY <1>1 DEF UpdateRow, Typed
  <2>2. w \in Variant
    BY <2>1, HeadAndTail
  <2>3. n \in 0..MaxQuantity /\ image[w] \in Row
    BY <2>1, <2>2 DEF Typed, Quantities
  <2>4. QED
    BY <2>1, <2>2, <2>3, HoldsAssumption
<1>3. /\ rowLock[w] = Nobody /\ row[w] = image[w] /\ Matches(kind[t], image[w], n)
      /\ rowLock' = [rowLock EXCEPT ![w] = t]
      /\ row' = [row EXCEPT ![w] = Updated(kind[t], row[w], n)]
      /\ todo' = [todo EXCEPT ![t] = Tail(todo[t])]
      /\ UNCHANGED <<lines, status, image, orderLock, kind, order>>
  <2>1. /\ rowLock[w] = Nobody /\ Matches(kind[t], row[w], n)
        /\ rowLock' = [rowLock EXCEPT ![w] = t]
        /\ row' = [row EXCEPT ![w] = Updated(kind[t], row[w], n)]
        /\ todo' = [todo EXCEPT ![t] = Tail(todo[t])]
        /\ UNCHANGED <<lines, status, image, orderLock, kind, order>>
    BY DEF UpdateRow
  <2>2. row[w] = image[w]
    BY <1>2, <2>1 DEF FreeRows
  <2>3. QED
    BY <2>1, <2>2
<1> HIDE DEF w, n
<1>4. /\ rowLock' \in [Variant -> Transaction \cup {Nobody}] /\ rowLock'[w] = t
      /\ \A v \in Variant \ {w} : rowLock'[v] = rowLock[v]
  BY <1>2, <1>3 DEF Typed
<1>5. /\ row' \in [Variant -> Row] /\ row'[w] = Updated(kind[t], image[w], n)
      /\ \A v \in Variant \ {w} : row'[v] = row[v]
  <2>1. Updated(kind[t], row[w], n) \in Row
    BY <1>2, <1>3, UpdatedRow
  <2>2. QED
    BY <1>2, <1>3, <2>1 DEF Typed
<1>6. /\ todo' \in [Transaction -> Seq(Variant)] /\ todo'[t] = Tail(todo[t])
      /\ \A u \in Transaction \ {t} : todo'[u] = todo[u]
  BY <1>2, <1>3, HeadAndTail DEF Typed
<1>7. Typed'
  BY <1>3, <1>4, <1>5, <1>6 DEF Typed
<1>8. Each(t)'
  <2>1. /\ \A i \in DOMAIN todo[t] : i \in Nat
        /\ 1 \in DOMAIN todo[t] /\ w = todo[t][1]
        /\ \A i \in DOMAIN todo'[t] : i + 1 \in DOMAIN todo[t] /\ todo'[t][i] = todo[t][i + 1]
        /\ \A i \in DOMAIN todo[t] : i = 1 \/ (i - 1 \in DOMAIN todo'[t] /\ todo'[t][i - 1] = todo[t][i])
    <3>1. PICK s \in Seq(Variant) : s = todo[t]
      BY <1>2
    <3>2. /\ \A i \in DOMAIN s : i \in Nat
          /\ 1 \in DOMAIN s /\ Head(s) = s[1]
          /\ \A i \in DOMAIN Tail(s) : i + 1 \in DOMAIN s /\ Tail(s)[i] = s[i + 1]
          /\ \A i \in DOMAIN s : i = 1 \/ (i - 1 \in DOMAIN Tail(s) /\ Tail(s)[i - 1] = s[i])
      BY <1>2, <3>1, HeadAndTail
    <3>3. w = Head(s) /\ todo'[t] = Tail(s)
      BY <1>6, <3>1 DEF w
    <3>4. QED
      BY <3>1, <3>2, <3>3, Zenon
  <2>2. \A v \in Variant : rowLock'[v] = t =>
           /\ Matches(kind[t], image[v], lines[order[t]][v])
           /\ row'[v] = Updated(kind[t], image[v], lines[order[t]][v])
    <3>1. ASSUME NEW v \in Variant \ {w}, rowLock'[v] = t
          PROVE  /\ Matches(kind[t], image[v], lines[order[t]][v])
                 /\ row'[v] = Updated(kind[t], image[v], lines[order[t]][v])
      BY <1>1, <1>4, <1>5, <3>1 DEF Works
    <3>2. /\ Matches(kind[t], image[w], lines[order[t]][w])
          /\ row'[w] = Updated(kind[t], image[w], lines[order[t]][w])
      BY <1>3, <1>5 DEF n
    <3>3. QED
      BY <3>1, <3>2
  <2>3. \A v \in Variant :
           lines[order[t]][v] > 0 <=> rowLock'[v] = t \/ \E i \in DOMAIN todo'[t] : todo'[t][i] = v
    <3>1. \A v \in Variant :
             (rowLock[v] = t \/ \E i \in DOMAIN todo[t] : todo[t][i] = v)
               <=> (rowLock'[v] = t \/ \E i \in DOMAIN todo'[t] : todo'[t][i] = v)
      <4>1. \A v \in Variant : rowLock'[v] = t <=> rowLock[v] = t \/ v = w
        BY <1>4
      <4>2. \A v \in Variant : (\E i \in DOMAIN todo[t] : todo[t][i] = v)
                                 <=> v = w \/ \E i \in DOMAIN todo'[t] : todo'[t][i] = v
        BY <2>1
      <4>3. QED
        BY <4>1, <4>2
    <3>2. QED
      BY <1>1, <3>1 DEF Works
  <2>4. kind[t] # "ingest" => SortedTodo(t)'
    <3>1. SUFFICES ASSUME SortedTodo(t) PROVE SortedTodo(t)'
      BY <1>1 DEF Works
    <3>2. ASSUME NEW i \in DOMAIN todo'[t], NEW j \in DOMAIN todo'[t], i < j
          PROVE  todo'[t][i] < todo'[t][j]
      <4>1. /\ i + 1 \in DOMAIN todo[t] /\ j + 1 \in DOMAIN todo[t] /\ i + 1 \in Nat /\ j + 1 \in Nat
            /\ todo'[t][i] = todo[t][i + 1] /\ todo'[t][j] = todo[t][j + 1]
        BY <2>1
      <4>2. i \in Nat /\ j \in Nat
        BY <1>6
      <4>3. i + 1 < j + 1
        BY <3>2, <4>2
      <4>4. QED
        BY <3>1, <4>1, <4>3 DEF SortedTodo
    <3>3. ASSUME NEW v \in Variant, NEW i \in DOMAIN todo'[t], rowLock'[v] = t
          PROVE  v < todo'[t][i]
      <4>1. i + 1 \in DOMAIN todo[t] /\ todo'[t][i] = todo[t][i + 1]
        BY <2>1
      <4>2. i \in Nat /\ i > 0
        BY <1>6
      <4>3. CASE v = w
        <5>1. 1 < i + 1
          BY <4>2
        <5>2. QED
          BY <2>1, <3>1, <4>1, <4>3, <5>1 DEF SortedTodo
      <4>4. CASE v # w
        BY <1>4, <3>1, <3>3, <4>1, <4>4 DEF SortedTodo
      <4>5. QED
        BY <4>3, <4>4
    <3>4. QED
      BY <3>2, <3>3 DEF SortedTodo
  <2>5. Works(t)'
    BY <1>1, <1>3, <2>2, <2>3, <2>4 DEF Works
  <2>6. QED
    BY <1>1, <1>3, <2>5 DEF Each
<1>9. ASSUME NEW u \in Transaction \ {t} PROVE Each(u)'
  <2>1. Each(u) /\ order[u] \in Order /\ u # Nobody
    BY StockLocksAssumption DEF Typed
  <2>2. \A v \in Variant : rowLock'[v] = u <=> rowLock[v] = u
    BY <1>3, <1>4, <2>1
  <2>3. \A v \in Variant : rowLock[v] = u => row'[v] = row[v] /\ image'[v] = image[v]
    BY <1>3, <1>5, <2>1
  <2>4. QED
    BY <1>3, <1>6, <2>1, <2>2, <2>3, OtherKeeps
<1>10. FreeRows' /\ Counted'
  <2>1. FreeRows'
    BY <1>3, <1>4, <1>5, StockLocksAssumption DEF FreeRows
  <2>2. Counted'
    BY <1>3 DEF Counted, Open
  <2>3. QED
    BY <2>1, <2>2
<1>11. QED
  BY <1>7, <1>8, <1>9, <1>10

(* Whatever t has written, it lets go of its locks and is done.            *)
LEMMA EndKeeps ==
  ASSUME Typed, \A u \in Transaction : Each(u), NEW t \in Transaction, kind[t] # "idle", End(t),
         image' \in [Variant -> Row], row' \in [Variant -> Row],
         status' \in [Order -> {"none", "open", "settled"}],
         \A v \in Variant : rowLock[v] # t => row'[v] = row[v] /\ image'[v] = image[v],
         \A v \in Variant : rowLock[v] = t => row'[v] = image'[v],
         FreeRows,
         \A u \in Transaction \ {t} : kind[u] \in {"release", "ship"} =>
            status'[order[u]] = status[order[u]]
  PROVE  Typed' /\ (\A u \in Transaction : Each(u)') /\ FreeRows'
<1>1. /\ kind' \in [Transaction -> Kind] /\ kind'[t] = "idle"
      /\ order' = order /\ lines' = lines
      /\ todo' \in [Transaction -> Seq(Variant)] /\ todo'[t] = <<>>
      /\ \A u \in Transaction \ {t} : kind'[u] = kind[u] /\ todo'[u] = todo[u]
  BY DEF End, Typed, Kind
<1>2. /\ rowLock' \in [Variant -> Transaction \cup {Nobody}]
      /\ \A v \in Variant : rowLock'[v] = IF rowLock[v] = t THEN Nobody ELSE rowLock[v]
  BY DEF End, Typed
<1>3. /\ orderLock' \in [Order -> Transaction \cup {Nobody}]
      /\ \A o \in Order : orderLock'[o] = IF orderLock[o] = t THEN Nobody ELSE orderLock[o]
  BY DEF End, Typed
<1>4. Typed'
  BY <1>1, <1>2, <1>3 DEF Typed
<1>5. Each(t)'
  <2>1. t # Nobody
    BY StockLocksAssumption
  <2>2. (\A v \in Variant : rowLock'[v] # t) /\ (\A o \in Order : orderLock'[o] # t)
    BY <1>2, <1>3, <2>1
  <2>3. QED
    BY <1>1, <2>2 DEF Each, Idles
<1>6. ASSUME NEW u \in Transaction \ {t} PROVE Each(u)'
  <2>1. Each(u) /\ order[u] \in Order /\ u # Nobody
    BY StockLocksAssumption DEF Typed
  <2>2. \A v \in Variant : rowLock'[v] = u <=> rowLock[v] = u
    BY <1>2, <2>1
  <2>3. \A o \in Order : orderLock'[o] = u <=> orderLock[o] = u
    BY <1>3, <2>1
  <2>4. \A v \in Variant : rowLock[v] = u => row'[v] = row[v] /\ image'[v] = image[v]
    BY <2>1
  <2>5. QED
    BY <1>1, <2>1, <2>2, <2>3, <2>4, OtherKeeps
<1>7. FreeRows'
  <2>1. ASSUME NEW v \in Variant, rowLock'[v] = Nobody PROVE row'[v] = image'[v]
    <3>1. rowLock[v] = t \/ rowLock[v] = Nobody
      BY <1>2, <2>1
    <3>2. t # Nobody
      BY StockLocksAssumption
    <3>3. QED
      BY <3>1, <3>2 DEF FreeRows
  <2>2. QED
    BY <2>1 DEF FreeRows
<1>8. QED
  BY <1>4, <1>5, <1>6, <1>7

LEMMA RollbackKeeps ==
  ASSUME LocksInv, NEW t \in Transaction, Rollback(t)
  PROVE  LocksInv'
<1> USE DEF LocksInv
<1>1. /\ row' \in [Variant -> Row] /\ image' = image /\ status' = status /\ lines' = lines
      /\ \A v \in Variant : rowLock[v] # t => row'[v] = row[v]
      /\ \A v \in Variant : rowLock[v] = t => row'[v] = image'[v]
  BY DEF Rollback, Held, Typed, End
<1>2. Typed' /\ (\A u \in Transaction : Each(u)') /\ FreeRows'
  BY <1>1, EndKeeps DEF Rollback, Typed
<1>3. Counted'
  BY <1>1 DEF Counted, Open
<1>4. QED
  BY <1>2, <1>3

(* A commit moves every variant by what the order has of it.               *)
LEMMA CommitMoves ==
  ASSUME LocksInv, NEW t \in Transaction, Commit(t)
  PROVE  /\ kind[t] \in Kind \ {"idle"} /\ order[t] \in Order
         /\ image' \in [Variant -> Row] /\ lines' = lines /\ row' = row
         /\ status' = [status EXCEPT ![order[t]] =
                         IF kind[t] \in {"place", "ingest"} THEN "open" ELSE "settled"]
         /\ status[order[t]] = IF kind[t] \in {"place", "ingest"} THEN "none" ELSE "open"
         /\ \A v \in Variant :
              LET n == lines[order[t]][v] IN
              /\ n \in 0..MaxQuantity
              /\ kind[t] \in {"place", "ingest"} =>
                   /\ image'[v].onHand = image[v].onHand /\ image'[v].reserved = image[v].reserved + n
                   /\ image'[v].reserved <= image[v].onHand
              /\ kind[t] = "release" =>
                   image'[v].onHand = image[v].onHand /\ image'[v].reserved = image[v].reserved - n
              /\ kind[t] = "ship" =>
                   /\ image'[v].onHand = image[v].onHand - n
                   /\ image'[v].reserved = image[v].reserved - n
         /\ \A v \in Variant : rowLock[v] # t => image'[v] = image[v]
         /\ \A v \in Variant : rowLock[v] = t => image'[v] = row[v]
<1> USE DEF LocksInv
<1>1. /\ kind[t] \in Kind \ {"idle"} /\ order[t] \in Order /\ todo[t] = <<>> /\ Works(t)
      /\ image' = [v \in Variant |-> IF v \in Held(t) THEN row[v] ELSE image[v]]
      /\ lines' = lines /\ row' = row
      /\ status' = [status EXCEPT ![order[t]] =
                      IF kind[t] \in {"place", "ingest"} THEN "open" ELSE "settled"]
  BY DEF Commit, End, Typed, Each
<1>2. /\ \A v \in Variant : rowLock[v] # t => image'[v] = image[v]
      /\ \A v \in Variant : rowLock[v] = t => image'[v] = row[v]
      /\ image' \in [Variant -> Row]
  BY <1>1 DEF Held, Typed
<1>3. status[order[t]] = IF kind[t] \in {"place", "ingest"} THEN "none" ELSE "open"
  BY <1>1 DEF Commit, Unique, Works, Kind
<1>4. ASSUME NEW v \in Variant, NEW n, n = lines[order[t]][v]
      PROVE  /\ n \in 0..MaxQuantity
             /\ kind[t] \in {"place", "ingest"} =>
                  /\ image'[v].onHand = image[v].onHand /\ image'[v].reserved = image[v].reserved + n
                  /\ image'[v].reserved <= image[v].onHand
             /\ kind[t] = "release" =>
                  image'[v].onHand = image[v].onHand /\ image'[v].reserved = image[v].reserved - n
             /\ kind[t] = "ship" =>
                  /\ image'[v].onHand = image[v].onHand - n
                  /\ image'[v].reserved = image[v].reserved - n
  <2>1. n \in 0..MaxQuantity /\ n \in Nat /\ image[v] \in Row
    BY <1>1, <1>4, HoldsAssumption DEF Typed, Quantities
  <2>2. CASE rowLock[v] = t
    <3>1. Matches(kind[t], image[v], n) /\ image'[v] = Updated(kind[t], image[v], n)
      BY <1>1, <1>2, <1>4, <2>2 DEF Works
    <3>2. QED
      BY <1>1, <2>1, <3>1, UpdatedRow
  <2>3. CASE rowLock[v] # t
    <3>1. ~(n > 0)
      BY <1>1, <1>4, <2>3 DEF Works
    <3>2. n = 0 /\ image'[v] = image[v]
      BY <1>2, <2>1, <2>3, <3>1
    <3>3. image[v].reserved \in Nat /\ image[v].onHand \in Nat /\ image[v].reserved <= image[v].onHand
      BY <2>1, StockLocksAssumption DEF Counted, Row
    <3>4. QED
      BY <2>1, <3>2, <3>3
  <2>4. QED
    BY <2>2, <2>3
<1>5. QED
  BY <1>1, <1>2, <1>3, <1>4

LEMMA CommitKeeps ==
  ASSUME LocksInv, NEW t \in Transaction, Commit(t)
  PROVE  LocksInv'
<1> USE DEF LocksInv
<1> DEFINE o == order[t]
<1>1. /\ kind[t] \in Kind \ {"idle"} /\ o \in Order
      /\ image' \in [Variant -> Row] /\ lines' = lines /\ row' = row
      /\ status' = [status EXCEPT ![o] = IF kind[t] \in {"place", "ingest"} THEN "open" ELSE "settled"]
      /\ status[o] = IF kind[t] \in {"place", "ingest"} THEN "none" ELSE "open"
      /\ \A v \in Variant : rowLock[v] # t => image'[v] = image[v]
      /\ \A v \in Variant : rowLock[v] = t => image'[v] = row[v]
  BY CommitMoves
<1>2. status' \in [Order -> {"none", "open", "settled"}]
  BY <1>1 DEF Typed
<1>3. ASSUME NEW u \in Transaction \ {t}, kind[u] \in {"release", "ship"}
      PROVE  status'[order[u]] = status[order[u]]
  <2>1. orderLock[order[u]] = u /\ status[order[u]] = "open" /\ order[u] \in Order
    BY <1>3 DEF Each, Works, Typed
  <2>2. order[u] # o
    <3>1. kind[t] \in {"release", "ship"} => orderLock[o] = t
      BY <1>1 DEF Each, Works
    <3>2. kind[t] \in {"release", "ship"} \/ status[o] = "none"
      BY <1>1 DEF Kind
    <3>3. QED
      BY <2>1, <3>1, <3>2
  <2>3. QED
    BY <1>1, <2>1, <2>2 DEF Typed
<1>4. Typed' /\ (\A u \in Transaction : Each(u)') /\ FreeRows'
  <2>1. row' \in [Variant -> Row]
    BY <1>1 DEF Typed
  <2>2. \A v \in Variant : rowLock[v] # t => row'[v] = row[v] /\ image'[v] = image[v]
    BY <1>1
  <2>3. \A v \in Variant : rowLock[v] = t => row'[v] = image'[v]
    BY <1>1
  <2>4. End(t)
    BY DEF Commit
  <2>5. QED
    BY <1>1, <1>2, <1>3, <2>1, <2>2, <2>3, <2>4, EndKeeps
<1>5. ASSUME NEW v \in Variant
      PROVE  image'[v].reserved = HoldCount(Open', lines, v) /\ image'[v].reserved <= image'[v].onHand
  <2> DEFINE n == lines[o][v]
  <2>1. /\ n \in 0..MaxQuantity
        /\ kind[t] \in {"place", "ingest"} =>
             /\ image'[v].onHand = image[v].onHand /\ image'[v].reserved = image[v].reserved + n
             /\ image'[v].reserved <= image[v].onHand
        /\ kind[t] = "release" =>
             image'[v].onHand = image[v].onHand /\ image'[v].reserved = image[v].reserved - n
        /\ kind[t] = "ship" =>
             image'[v].onHand = image[v].onHand - n /\ image'[v].reserved = image[v].reserved - n
    BY CommitMoves
  <2>2. /\ image[v].reserved \in Nat /\ image[v].onHand \in Nat /\ n \in Nat
        /\ image[v].reserved = HoldCount(Open, lines, v) /\ image[v].reserved <= image[v].onHand
    BY <2>1, HoldsAssumption, StockLocksAssumption DEF Counted, Typed, Row
  <2>3. Open \in SUBSET Order /\ lines \in [Order -> Quantities]
    BY DEF Open, Typed
  <2>4. CASE kind[t] \in {"place", "ingest"}
    <3>1. o \notin Open /\ Open' = Open \cup {o}
      <4>1. status[o] = "none" /\ status' = [status EXCEPT ![o] = "open"] /\ o \in Order
        BY <1>1, <2>4
      <4>2. QED
        BY <4>1 DEF Open, Typed
    <3>2. HoldCount(Open \cup {o}, lines, v) = HoldCount(Open, lines, v) + n
      <4>1. o \in Order
        BY <1>1
      <4>2. QED
        BY <2>3, <3>1, <4>1, HoldAdded
    <3>3. image'[v].reserved = HoldCount(Open', lines, v)
      <4>1. HoldCount(Open', lines, v) = HoldCount(Open \cup {o}, lines, v)
        BY <3>1, Zenon
      <4>2. image'[v].reserved = image[v].reserved + n
        BY <2>1, <2>4
      <4>3. QED
        BY <2>2, <3>2, <4>1, <4>2
    <3>4. image'[v].reserved <= image'[v].onHand
      BY <2>1, <2>4
    <3>5. QED
      BY <3>3, <3>4
  <2>5. CASE kind[t] \in {"release", "ship"}
    <3>1. o \in Open /\ Open' = Open \ {o}
      <4>1. status[o] = "open" /\ status' = [status EXCEPT ![o] = "settled"] /\ o \in Order
        BY <1>1, <2>5
      <4>2. QED
        BY <4>1 DEF Open, Typed
    <3>2. HoldCount(Open, lines, v) = HoldCount(Open \ {o}, lines, v) + n
      BY <2>3, <3>1, HolderWithinHolds
    <3>3. HoldCount(Open \ {o}, lines, v) \in Nat
      BY <2>3, HoldsFinite
    <3>4. QED
      BY <2>1, <2>2, <2>5, <3>1, <3>2, <3>3
  <2>6. QED
    BY <1>1, <2>4, <2>5 DEF Kind
<1>6. Counted'
  BY <1>1, <1>5 DEF Counted
<1>7. QED
  BY <1>4, <1>6

(* The locks always hold what they promise.                                *)
THEOREM LocksHold == Spec => []LocksInv
<1>1. Init => LocksInv
  <2> SUFFICES ASSUME Init PROVE LocksInv
    OBVIOUS
  <2>1. Typed
    <3>1. order \in [Transaction -> Order]
      <4>1. (CHOOSE o \in Order : TRUE) \in Order
        BY StockLocksAssumption
      <4>2. QED
        BY <4>1 DEF Init
    <3>2. image \in [Variant -> Row] /\ row \in [Variant -> Row]
      BY StockLocksAssumption DEF Init, Row
    <3>3. QED
      BY <3>1, <3>2 DEF Init, Typed, Kind
  <2>2. ASSUME NEW t \in Transaction PROVE Each(t)
    BY StockLocksAssumption DEF Init, Each, Idles
  <2>3. FreeRows
    BY DEF Init, FreeRows
  <2>4. Counted
    <3>1. Open = {}
      BY DEF Init, Open
    <3>2. ASSUME NEW v \in Variant PROVE HoldCount(Open, lines, v) = 0
      <4>1. Units(Open, lines, v) = {}
        BY <3>1 DEF Units
      <4>2. QED
        BY <4>1, FS_EmptySet, Zenon DEF HoldCount
    <3>3. QED
      BY <3>2, StockLocksAssumption DEF Init, Counted
  <2>5. QED
    BY <2>1, <2>2, <2>3, <2>4 DEF LocksInv
<1>2. LocksInv /\ [Next]_vars => LocksInv'
  <2> SUFFICES ASSUME LocksInv, [Next]_vars PROVE LocksInv'
    OBVIOUS
  <2>1. ASSUME NEW t \in Transaction, NEW o \in Order, BeginPlace(t, o) PROVE LocksInv'
    <3>1. orderLock' \in [Order -> Transaction \cup {Nobody}]
      BY <2>1 DEF BeginPlace, LocksInv, Typed
    <3>2. "place" \in Kind \ {"idle"}
      BY DEF Kind
    <3>3. QED
      BY <2>1, <3>1, <3>2, BeginKeeps, RowsAreSorted DEF BeginPlace
  <2>2. ASSUME NEW t \in Transaction, NEW o \in Order, BeginIngest(t, o) PROVE LocksInv'
    <3>1. orderLock' \in [Order -> Transaction \cup {Nobody}]
      BY <2>2 DEF BeginIngest, LocksInv, Typed
    <3>2. PICK rows \in SetToSeqs(Ordered(o)) : Start(t, "ingest", o, rows)
      BY <2>2 DEF BeginIngest
    <3>3. Ordered(o) \subseteq Variant /\ IsFiniteSet(Ordered(o))
      <4>1. Ordered(o) \subseteq Variant
        BY DEF Ordered
      <4>2. QED
        BY <4>1, FS_Subset, StockLocksAssumption
    <3>4. rows \in Seq(Ordered(o)) /\ \A v \in Ordered(o) : \E i \in DOMAIN rows : rows[i] = v
      BY <3>3, SeqOfSet
    <3>5. rows \in Seq(Variant)
      BY <3>3, <3>4
    <3>6. \A i \in DOMAIN rows : rows[i] \in Ordered(o)
      BY <3>4
    <3>7. \A v \in Variant : lines[o][v] > 0 <=> \E i \in DOMAIN rows : rows[i] = v
      BY <3>4, <3>6 DEF Ordered
    <3>8. "ingest" \in Kind \ {"idle"}
      BY DEF Kind
    <3>9. QED
      BY <2>2, <3>1, <3>2, <3>5, <3>7, <3>8, BeginKeeps DEF BeginIngest
  <2>3. ASSUME NEW t \in Transaction, NEW o \in Order, BeginSettle(t, o) PROVE LocksInv'
    <3>1. /\ orderLock[o] = Nobody /\ orderLock' = [orderLock EXCEPT ![o] = t]
          /\ kind[t] = "idle" /\ status[o] = "open" /\ UNCHANGED <<lines, status, image, row, rowLock>>
      BY <2>3 DEF BeginSettle, LockOrderRow
    <3>2. /\ orderLock' \in [Order -> Transaction \cup {Nobody}] /\ orderLock'[o] = t
          /\ \A p \in Order : orderLock'[p] # orderLock[p] => orderLock[p] = Nobody /\ orderLock'[p] = t
      BY <3>1 DEF LocksInv, Typed
    <3>3. PICK k \in {"release", "ship"} : Start(t, k, o, RowsById(k, o))
      BY <2>3 DEF BeginSettle
    <3>4. k \in Kind \ {"idle"}
      BY DEF Kind
    <3>5. QED
      BY <3>1, <3>2, <3>3, <3>4, BeginKeeps, RowsAreSorted
  <2>4. CASE UNCHANGED vars
    <3>1. UNCHANGED <<lines, status, image, row, rowLock, orderLock, kind, order, todo>>
      BY <2>4 DEF vars
    <3>2. Typed' /\ FreeRows' /\ Counted'
      BY <3>1 DEF LocksInv, Typed, FreeRows, Counted, Open
    <3>3. ASSUME NEW t \in Transaction PROVE Each(t)'
      <4>1. Each(t) /\ order[t] \in Order
        BY DEF LocksInv, Typed
      <4>2. QED
        BY <3>1, <4>1, OtherKeeps
    <3>4. QED
      BY <3>2, <3>3 DEF LocksInv
  <2>5. QED
    BY <2>1, <2>2, <2>3, <2>4, UpdateKeeps, CommitKeeps, RollbackKeeps DEF Next
<1>3. QED
  BY <1>1, <1>2, PTL DEF Spec

(* No row, lock or counter leaves its range, whatever transactions overlap *)
(* and roll back: in particular the committed and uncommitted counters.    *)
THEOREM StockLocksTypeCorrect == Spec => []TypeOK
<1>1. LocksInv => TypeOK
  <2> SUFFICES ASSUME LocksInv PROVE TypeOK
    OBVIOUS
  <2>1. ASSUME NEW t \in Transaction PROVE Range(todo[t]) \subseteq Variant
    <3>1. todo[t] \in Seq(Variant)
      BY DEF LocksInv, Typed
    <3>2. \A i \in DOMAIN todo[t] : todo[t][i] \in Variant
      BY <3>1
    <3>3. QED
      BY <3>2 DEF Range
  <2>2. QED
    BY <2>1 DEF LocksInv, Typed, TypeOK
<1>2. QED
  BY <1>1, LocksHold, PTL

-----------------------------------------------------------------------------
LEMMA GreatestRow ==
  ASSUME NEW S \in SUBSET Nat, IsFiniteSet(S), S # {}
  PROVE  \E x \in S : \A y \in S : y <= x
<1>1. PICK s \in SetToSeqs(S) : \A i, j \in DOMAIN s : i < j => s[i] < s[j]
  BY SortedListExists
<1>2. s \in Seq(S) /\ \A v \in S : \E i \in DOMAIN s : s[i] = v
  BY SeqOfSet
<1>3. /\ Len(s) \in Nat /\ DOMAIN s = 1..Len(s) /\ \A i \in 1..Len(s) : s[i] \in S
      /\ \A x \in S : x \in Nat
  BY <1>2
<1>4. Len(s) \in 1..Len(s)
  <2>1. PICK y \in S : TRUE
    OBVIOUS
  <2>2. PICK i \in 1..Len(s) : s[i] = y
    BY <1>2, <1>3
  <2>3. QED
    BY <1>3, <2>2
<1>5. ASSUME NEW y \in S PROVE y <= s[Len(s)]
  <2>1. PICK i \in 1..Len(s) : s[i] = y
    BY <1>2, <1>3
  <2>2. CASE i = Len(s)
    BY <1>3, <1>4, <2>1, <2>2
  <2>3. CASE i # Len(s)
    <3>1. i < Len(s)
      <4>1. Len(s) \in Nat
        BY <1>3
      <4>2. QED
        BY <2>3, <4>1
    <3>2. s[i] < s[Len(s)]
      <4>1. i \in DOMAIN s /\ Len(s) \in DOMAIN s
        BY <1>3, <1>4
      <4>2. QED
        BY <1>1, <3>1, <4>1
    <3>3. s[i] \in Nat /\ s[Len(s)] \in Nat
      BY <1>3, <1>4
    <3>4. QED
      BY <2>1, <3>2, <3>3
  <2>4. QED
    BY <2>2, <2>3
<1>6. QED
  BY <1>3, <1>4, <1>5

(* Whoever waits in a circle without a Walmart ingest waits for a row above*)
(* all that it has; the one that waits for the greatest row would have to  *)
(* wait for somebody who waits for a greater one.                          *)
THEOREM SortedNeverDeadlock == Spec => []OnlyIngestsDeadlock
<1>1. LocksInv => OnlyIngestsDeadlock
  <2> SUFFICES ASSUME LocksInv, NEW T \in SUBSET Transaction, Deadlocked(T),
                      \A t \in T : kind[t] # "ingest"
               PROVE  FALSE
    BY DEF OnlyIngestsDeadlock
  <2> DEFINE Wanted(t) == Head(todo[t])
  <2>1. ASSUME NEW t \in T
        PROVE  /\ todo[t] \in Seq(Variant) /\ todo[t] # <<>> /\ SortedTodo(t)
               /\ \E u \in T : rowLock[Wanted(t)] = u
    <3>1. PICK u \in T : WaitsFor(t, u)
      BY DEF Deadlocked
    <3>2. todo[t] # <<>> /\ rowLock[Wanted(t)] = u
      BY <3>1 DEF WaitsFor
    <3>3. todo[t] \in Seq(Variant) /\ Each(t)
      BY DEF LocksInv, Typed
    <3>4. Works(t)
      BY <3>2, <3>3 DEF Each, Idles
    <3>5. QED
      BY <3>2, <3>3, <3>4 DEF Works
  <2>2. ASSUME NEW t \in T PROVE Wanted(t) \in Variant /\ 1 \in DOMAIN todo[t] /\ Wanted(t) = todo[t][1]
    BY <2>1, HeadAndTail
  <2> DEFINE W == {Wanted(t) : t \in T}
  <2>3. W \in SUBSET Nat /\ IsFiniteSet(W) /\ W # {}
    <3>1. W \in SUBSET Variant /\ W # {}
      BY <2>2 DEF Deadlocked
    <3> HIDE DEF W
    <3>2. QED
      BY <3>1, FS_Subset, StockLocksAssumption
  <2>4. PICK t \in T : \A u \in T : Wanted(u) <= Wanted(t)
    <3>1. \E x \in W : \A y \in W : y <= x
      BY <2>3, GreatestRow
    <3>2. QED
      BY <3>1
  <2> HIDE DEF Wanted
  <2>5. PICK u \in T : rowLock[Wanted(t)] = u
    BY <2>1
  <2>6. Wanted(t) < Wanted(u)
    BY <2>1, <2>2, <2>5 DEF SortedTodo
  <2>7. Wanted(t) \in Nat /\ Wanted(u) \in Nat /\ Wanted(u) <= Wanted(t)
    BY <2>2, <2>4, StockLocksAssumption
  <2>8. QED
    BY <2>6, <2>7
<1>2. QED
  BY <1>1, LocksHold, PTL

-----------------------------------------------------------------------------
(* The committed tables in the words of StockPromises.                     *)
LEMMA AsPromised ==
  ASSUME LocksInv
  PROVE  /\ \A v \in Variant : /\ Promises!Committed(v) = image[v].reserved
                               /\ image[v].reserved \in Nat /\ image[v].onHand \in Nat
                               /\ image[v].reserved <= image[v].onHand
         /\ \A o \in Order : /\ Life[o] = "new" <=> status[o] = "none"
                             /\ Life[o] = "promised" <=> status[o] = "open"
<1>1. \A o \in Order : /\ status[o] = "none" => Life[o] = "new"
                       /\ status[o] = "open" => Life[o] = "promised"
                       /\ status[o] = "settled" => Life[o] = "settled"
  BY DEF Life
<1>2. \A o \in Order : status[o] \in {"none", "open", "settled"}
  BY DEF LocksInv, Typed
<1>3. \A o \in Order : /\ Life[o] = "new" <=> status[o] = "none"
                       /\ Life[o] = "promised" <=> status[o] = "open"
  BY <1>1, <1>2
<1>4. Promises!Promised = Open
  BY <1>3 DEF Promises!Promised, Open
<1>5. ASSUME NEW v \in Variant
      PROVE  /\ Promises!Committed(v) = image[v].reserved
             /\ image[v].reserved \in Nat /\ image[v].onHand \in Nat
             /\ image[v].reserved <= image[v].onHand
  <2>1. \A o \in Open : Promised[o] = lines[o]
    BY DEF Promised, Open
  <2>2. HoldCount(Open, Promised, v) = HoldCount(Open, lines, v)
    BY <2>1, OnlyHoldersCount
  <2>3. Promises!Committed(v) = HoldCount(Open, Promised, v)
    BY <1>4, Zenon DEF Promises!Committed, Promises!HoldCount, Promises!Units, HoldCount, Units,
                         Promises!Cardinality, Cardinality
  <2>4. image[v] \in Row /\ image[v].reserved = HoldCount(Open, lines, v)
        /\ image[v].reserved <= image[v].onHand
    BY DEF LocksInv, Typed, Counted
  <2>5. QED
    BY <2>2, <2>3, <2>4, StockLocksAssumption DEF Row
<1>6. QED
  BY <1>3, <1>5

(* Two functions that differ in one place.                                 *)
LEMMA OneChanges ==
  ASSUME NEW S, NEW T, NEW f \in [S -> T], NEW g \in [S -> T],
         NEW x \in S, NEW y, g[x] = y, \A p \in S \ {x} : g[p] = f[p]
  PROVE  g = [f EXCEPT ![x] = y]
OBVIOUS

(* A commit is one promise, release or shipment.                           *)
LEMMA CommitPromises ==
  ASSUME LocksInv, NEW t \in Transaction, Commit(t)
  PROVE  Promises!Next
<1> DEFINE o == order[t]
<1>1. /\ kind[t] \in Kind \ {"idle"} /\ o \in Order /\ image' \in [Variant -> Row] /\ lines' = lines
      /\ status' = [status EXCEPT ![o] = IF kind[t] \in {"place", "ingest"} THEN "open" ELSE "settled"]
      /\ status[o] = IF kind[t] \in {"place", "ingest"} THEN "none" ELSE "open"
      /\ \A v \in Variant :
           /\ lines[o][v] \in 0..MaxQuantity
           /\ kind[t] \in {"place", "ingest"} =>
                /\ image'[v].onHand = image[v].onHand
                /\ image'[v].reserved = image[v].reserved + lines[o][v]
                /\ image'[v].reserved <= image[v].onHand
           /\ kind[t] = "release" => image'[v].onHand = image[v].onHand
           /\ kind[t] = "ship" => image'[v].onHand = image[v].onHand - lines[o][v]
  BY CommitMoves
<1>2. /\ status \in [Order -> {"none", "open", "settled"}] /\ lines \in [Order -> Quantities]
  BY DEF LocksInv, Typed
<1> HIDE DEF o
<1>a. o \in Order
  BY <1>1
<1>b. \A p \in Order : /\ status[p] = "none" => Life[p] = "new"
                       /\ status[p] = "open" => Life[p] = "promised"
                       /\ status[p] = "settled" => Life[p] = "settled"
                       /\ status'[p] = "none" => Life'[p] = "new"
                       /\ status'[p] = "open" => Life'[p] = "promised"
                       /\ status'[p] = "settled" => Life'[p] = "settled"
  BY DEF Life
<1>c. /\ Life \in [Order -> {"new", "promised", "settled"}]
      /\ Life' \in [Order -> {"new", "promised", "settled"}]
  <2>1. status' \in [Order -> {"none", "open", "settled"}]
    BY <1>1, <1>2
  <2>2. \A p \in Order : /\ Life[p] \in {"new", "promised", "settled"}
                         /\ Life'[p] \in {"new", "promised", "settled"}
    BY <1>2, <1>b, <2>1
  <2>3. QED
    BY <2>2 DEF Life
<1>3. /\ \A p \in Order \ {o} : status'[p] = status[p]
      /\ status'[o] = IF kind[t] \in {"place", "ingest"} THEN "open" ELSE "settled"
  BY <1>1, <1>2
<1>4. CASE kind[t] \in {"place", "ingest"}
  <2>1. status[o] = "none" /\ status'[o] = "open"
    BY <1>1, <1>3, <1>4
  <2>2. Life[o] = "new" /\ lines[o] \in Quantities
    BY <1>1, <1>2, <2>1, AsPromised
  <2>3. ASSUME NEW v \in Variant PROVE Promises!Committed(v) + lines[o][v] <= OnHand[v]
    <3>1. Promises!Committed(v) = image[v].reserved
      BY AsPromised
    <3>2. image[v].reserved + lines[o][v] <= image[v].onHand
      BY <1>1, <1>4
    <3>3. QED
      BY <3>1, <3>2 DEF OnHand
  <2>4. Life' = [Life EXCEPT ![o] = "promised"]
    <3>1. Life'[o] = "promised"
      BY <1>a, <1>b, <2>1
    <3>2. \A p \in Order \ {o} : Life'[p] = Life[p]
      BY <1>2, <1>3, <1>b
    <3>3. QED
      BY <1>a, <1>c, <3>1, <3>2, OneChanges
  <2>5. Promised' = [Promised EXCEPT ![o] = lines[o]]
    BY <1>1, <1>3, <2>1 DEF Promised
  <2>6. OnHand' = OnHand
    BY <1>1, <1>4 DEF OnHand
  <2>7. Promises!Promise(o, lines[o])
    BY <2>2, <2>3, <2>4, <2>5, <2>6 DEF Promises!Promise
  <2>8. QED
    BY <1>1, <2>2, <2>7 DEF Promises!Next, Promises!Quantities, Quantities
<1>5. CASE kind[t] \in {"release", "ship"}
  <2>1. status[o] = "open" /\ status'[o] = "settled"
    BY <1>1, <1>3, <1>5
  <2>2. Life[o] = "promised"
    BY <1>1, <2>1, AsPromised
  <2>3. Life' = [Life EXCEPT ![o] = "settled"]
    <3>1. Life'[o] = "settled"
      BY <1>a, <1>b, <2>1
    <3>2. \A p \in Order \ {o} : Life'[p] = Life[p]
      BY <1>2, <1>3, <1>b
    <3>3. QED
      BY <1>a, <1>c, <3>1, <3>2, OneChanges
  <2>4. Promised' = Promised
    BY <1>1, <1>3, <2>1 DEF Promised
  <2>5. kind[t] = "release" => OnHand' = OnHand
    BY <1>1 DEF OnHand
  <2>6. kind[t] = "ship" => OnHand' = [v \in Variant |-> OnHand[v] - Promised[o][v]]
    <3>1. Promised[o] = lines[o]
      BY <1>1, <2>1 DEF Promised
    <3>2. QED
      BY <1>1, <3>1 DEF OnHand
  <2>7. Promises!CallOff(o) \/ Promises!Ship(o)
    BY <1>5, <2>2, <2>3, <2>4, <2>5, <2>6 DEF Promises!CallOff, Promises!Ship
  <2>8. QED
    BY <1>1, <2>7 DEF Promises!Next
<1>6. QED
  BY <1>1, <1>4, <1>5 DEF Kind

(* What module Orders takes for granted: the transactions, which lock and  *)
(* write row by row, overlap and roll back, commit as single steps.        *)
THEOREM CommitsAreWhole == Spec => CommitsAreAtomic
<1>1. Init => Promises!Init
  <2> SUFFICES ASSUME Init PROVE Promises!Init
    OBVIOUS
  <2>1. OnHand \in [Variant -> Nat]
    BY StockLocksAssumption DEF Init, OnHand
  <2>2. Life = [o \in Order |-> "new"] /\ Promised = [o \in Order |-> [v \in Variant |-> 0]]
    BY DEF Init, Life, Promised
  <2>3. QED
    BY <2>1, <2>2 DEF Promises!Init
<1>2. LocksInv /\ [Next]_vars => [Promises!Next]_(Promises!vars)
  <2> SUFFICES ASSUME LocksInv, [Next]_vars
               PROVE  Promises!Next \/ UNCHANGED Promises!vars
    OBVIOUS
  <2>1. CASE UNCHANGED <<lines, status, image>>
    BY <2>1 DEF Promises!vars, OnHand, Life, Promised
  <2>2. ASSUME NEW t \in Transaction, NEW o \in Order,
               BeginPlace(t, o) \/ BeginIngest(t, o) \/ BeginSettle(t, o)
        PROVE  UNCHANGED <<lines, status, image>>
    BY <2>2 DEF BeginPlace, BeginIngest, BeginSettle
  <2>3. ASSUME NEW t \in Transaction, UpdateRow(t) \/ Rollback(t)
        PROVE  UNCHANGED <<lines, status, image>>
    BY <2>3 DEF UpdateRow, Rollback, End
  <2>4. CASE UNCHANGED vars
    BY <2>1, <2>4 DEF vars
  <2>5. QED
    BY <2>1, <2>2, <2>3, <2>4, CommitPromises DEF Next
<1>3. QED
  BY <1>1, <1>2, LocksHold, PTL DEF Spec, CommitsAreAtomic, Promises!Spec

(* And so no committed state promises a unit twice, whatever rows are      *)
(* being written at the time.                                              *)
THEOREM CommittedNeverOversold == Spec => []Promises!NoOversell
<1>1. LocksInv => Promises!NoOversell
  BY AsPromised DEF Promises!NoOversell, OnHand
<1>2. QED
  BY <1>1, LocksHold, PTL

-----------------------------------------------------------------------------
(* StockPromises itself, over variables of its own. *)
VARIABLES stock, life, promise

Abstract == INSTANCE StockPromises

(* It counts as Holds does.                                                *)
LEMMA AbstractWords ==
  /\ Abstract!Quantities = Quantities
  /\ \A v : /\ Abstract!Committed(v) = HoldCount(Abstract!Promised, promise, v)
            /\ Abstract!Committed(v)' = HoldCount(Abstract!Promised', promise', v)
<1>1. Abstract!Quantities = Quantities
  BY DEF Abstract!Quantities, Quantities
<1>2. ASSUME NEW v
      PROVE  /\ Abstract!Committed(v) = HoldCount(Abstract!Promised, promise, v)
             /\ Abstract!Committed(v)' = HoldCount(Abstract!Promised', promise', v)
  BY Zenon DEF Abstract!Committed, Abstract!HoldCount, Abstract!Units, HoldCount, Units,
               Abstract!Cardinality, Cardinality
<1>3. QED
  BY <1>1, <1>2

(* The units promised to all orders together are in the building, whatever *)
(* sequence of promises, settlements and stock counts led here.            *)
THEOREM NeverOversold == Abstract!Spec => [](Abstract!TypeOK /\ Abstract!NoOversell)
<1> DEFINE Inv == Abstract!TypeOK /\ Abstract!NoOversell
<1>1. Abstract!Init => Inv
  <2> SUFFICES ASSUME Abstract!Init PROVE Inv
    OBVIOUS
  <2>1. Abstract!TypeOK
    BY HoldsAssumption, AbstractWords DEF Abstract!Init, Abstract!TypeOK, Abstract!Life, Quantities
  <2>2. ASSUME NEW v \in Variant PROVE Abstract!Committed(v) <= stock[v]
    <3>1. Units(Abstract!Promised, promise, v) = {}
      BY DEF Abstract!Init, Abstract!Promised, Units
    <3>2. Abstract!Committed(v) = 0
      BY <3>1, FS_EmptySet, AbstractWords, Zenon DEF HoldCount
    <3>3. QED
      BY <3>2 DEF Abstract!Init
  <2>3. QED
    BY <2>1, <2>2 DEF Abstract!NoOversell
<1>2. Inv /\ [Abstract!Next]_Abstract!vars => Inv'
  <2> SUFFICES ASSUME Inv, [Abstract!Next]_Abstract!vars PROVE Inv'
    OBVIOUS
  <2>0. /\ promise \in [Order -> Quantities] /\ Abstract!Promised \in SUBSET Order
        /\ \A v \in Variant : /\ Abstract!Committed(v) \in Nat /\ stock[v] \in Nat
                              /\ Abstract!Committed(v) <= stock[v]
        /\ \A o \in Order, v \in Variant : promise[o][v] \in Nat
    <3>1. promise \in [Order -> Quantities] /\ Abstract!Promised \in SUBSET Order
      BY AbstractWords DEF Abstract!TypeOK, Abstract!Promised
    <3>2. \A v \in Variant : /\ Abstract!Committed(v) \in Nat /\ stock[v] \in Nat
                             /\ Abstract!Committed(v) <= stock[v]
      BY <3>1, HoldsFinite, AbstractWords DEF Abstract!TypeOK, Abstract!NoOversell
    <3>3. \A o \in Order, v \in Variant : promise[o][v] \in Nat
      BY <3>1, HoldsAssumption DEF Quantities
    <3>4. QED
      BY <3>1, <3>2, <3>3
  <2>1. ASSUME NEW o \in Order, NEW q \in Quantities, Abstract!Promise(o, q)
        PROVE  Inv'
    <3>1. Abstract!TypeOK'
      BY <2>1, AbstractWords DEF Abstract!Promise, Abstract!TypeOK, Abstract!Life
    <3>2. ASSUME NEW v \in Variant PROVE Abstract!Committed(v)' <= stock'[v]
      <4>1. o \notin Abstract!Promised /\ Abstract!Promised' = Abstract!Promised \cup {o}
        BY <2>1 DEF Abstract!Promise, Abstract!Promised, Abstract!TypeOK
      <4>2. /\ promise' \in [Order -> Quantities] /\ promise'[o] = q
            /\ \A i \in Abstract!Promised : promise'[i] = promise[i]
        BY <2>1, <4>1, AbstractWords DEF Abstract!Promise, Abstract!TypeOK, Abstract!Promised
      <4>3. \A p \in [Order -> Quantities] :
              HoldCount(Abstract!Promised \cup {o}, p, v) = HoldCount(Abstract!Promised, p, v) + p[o][v]
        BY <2>0, <4>1, HoldAdded
      <4>4. HoldCount(Abstract!Promised, promise', v) = HoldCount(Abstract!Promised, promise, v)
        BY <4>2, OnlyHoldersCount
      <4>5. Abstract!Committed(v)' = Abstract!Committed(v) + q[v]
        BY <4>1, <4>2, <4>3, <4>4, AbstractWords, Zenon
      <4>6. q[v] \in Nat /\ (q[v] > 0 => Abstract!Committed(v) + q[v] <= stock[v]) /\ stock' = stock
        BY <2>1, HoldsAssumption DEF Abstract!Promise, Quantities
      <4>7. QED
        BY <2>0, <4>5, <4>6
    <3>3. QED
      BY <3>1, <3>2 DEF Abstract!NoOversell
  <2>2. ASSUME NEW o \in Order, Abstract!CallOff(o) \/ Abstract!Ship(o)
        PROVE  Inv'
    <3>1. o \in Abstract!Promised /\ Abstract!Promised' = Abstract!Promised \ {o} /\ promise' = promise
      BY <2>2 DEF Abstract!CallOff, Abstract!Ship, Abstract!Promised, Abstract!TypeOK
    <3>2. ASSUME NEW v \in Variant
          PROVE  /\ Abstract!Committed(v)' + promise[o][v] = Abstract!Committed(v)
                 /\ Abstract!Committed(v)' \in Nat
      <4>1. HoldCount(Abstract!Promised, promise, v)
              = HoldCount(Abstract!Promised \ {o}, promise, v) + promise[o][v]
        BY <2>0, <3>1, HolderWithinHolds
      <4>2. HoldCount(Abstract!Promised \ {o}, promise, v) \in Nat
        BY <2>0, HoldsFinite
      <4>3. Abstract!Committed(v)' = HoldCount(Abstract!Promised \ {o}, promise, v)
        BY <3>1, AbstractWords, Zenon
      <4>4. QED
        BY <4>1, <4>2, <4>3, AbstractWords, Zenon
    <3>3. ASSUME NEW v \in Variant PROVE Abstract!Committed(v)' <= stock'[v] /\ stock'[v] \in Nat
      <4>1. stock'[v] = stock[v] \/ stock'[v] = stock[v] - promise[o][v]
        BY <2>2 DEF Abstract!CallOff, Abstract!Ship
      <4>2. QED
        BY <2>0, <3>2, <4>1
    <3>4. Abstract!TypeOK'
      BY <2>2, <3>3 DEF Abstract!CallOff, Abstract!Ship, Abstract!TypeOK, Abstract!Life
    <3>5. QED
      BY <3>3, <3>4 DEF Abstract!NoOversell
  <2>3. ASSUME NEW w \in Variant, Abstract!Count(w)
        PROVE  Inv'
    <3>1. Abstract!TypeOK'
      BY <2>3 DEF Abstract!Count, Abstract!TypeOK
    <3>2. ASSUME NEW v \in Variant PROVE Abstract!Committed(v)' <= stock'[v]
      <4>1. Abstract!Committed(v)' = Abstract!Committed(v)
        BY <2>3 DEF Abstract!Count, Abstract!Committed, Abstract!Promised
      <4>2. QED
        BY <2>0, <2>3, <4>1 DEF Abstract!Count, Abstract!TypeOK
    <3>3. QED
      BY <3>1, <3>2 DEF Abstract!NoOversell
  <2>4. CASE UNCHANGED Abstract!vars
    BY <2>4 DEF Abstract!vars, Abstract!TypeOK, Abstract!NoOversell, Abstract!Committed, Abstract!Promised
  <2>5. QED
    BY <2>1, <2>2, <2>3, <2>4, AbstractWords DEF Abstract!Next
<1>3. QED
  BY <1>1, <1>2, PTL DEF Abstract!Spec

=============================================================================
