------------------------------ MODULE Settlement ------------------------------
(***************************************************************************)
(* The import of Walmart's settlement reports.  A call keys every row of a *)
(* report by its identity, drops what an earlier call has persisted, adds  *)
(* up each order's Sale rows, and writes the rest one by one in a          *)
(* transaction that ends with an audit record.  Reports are pulled again,  *)
(* overlap, repeat identities or lack them; two calls may run at once (the *)
(* old and the new worker of a deployment), and orders are ingested while  *)
(* they run.                                                               *)
(*                                                                         *)
(* Definitions marked "variant" are not the code's: each takes the place   *)
(* of the definition after it to see that a property notices.              *)
(***************************************************************************)
EXTENDS Integers, Sequences, FiniteSetsExt, Functions

CONSTANTS
  PO,
  Reports,    \* what Walmart may answer: a day and its rows
  Payloads,   \* the order lines of order_created events; NoFigure stands for none
  Importer,   \* calls of importSettlementRows that may run at once
  NoFigure,   \* null
  None,       \* a column that is absent or blank
  MaxCalls,   \* bound on the calls
  MaxFaults   \* bound on calls that die or cannot be written

ASSUME SettlementAssumption ==
  /\ MaxCalls \in Nat /\ MaxFaults \in Nat /\ NoFigure \notin Int
  /\ \A rep \in Reports :
       /\ Len(rep.rows) \in Nat /\ DOMAIN rep.rows = 1..Len(rep.rows)
       /\ \A k \in DOMAIN rep.rows : rep.rows[k].po \in PO /\ rep.rows[k].amount \in Int
  /\ \A lines \in Payloads \ {NoFigure} :
       /\ Len(lines) \in Nat /\ DOMAIN lines = 1..Len(lines)
       /\ \A k \in DOMAIN lines :
            /\ lines[k].ordered \in Int /\ lines[k].cancelled \in Int
            /\ lines[k].product \in Int /\ lines[k].tax \in Int /\ lines[k].shipping \in Int

VARIABLES
  payload,    \* channel_events.raw of each purchase order
  orders,     \* purchase orders with a row in orders
  ledger,     \* channel_settlements, with the call that wrote each row
  audits,     \* the audit records of finished calls
  import,     \* per importer: its call
  calls, faults

vars == <<payload, orders, ledger, audits, import, calls, faults>>

-----------------------------------------------------------------------------
(* Figures *)

Sold(line) == line.ordered - line.cancelled

(* A line is refused by both readers if more was cancelled than ordered.   *)
WellFormed(line) == line.ordered > 0 /\ line.cancelled \in 0..line.ordered

(* reconstructOrderGrossCents: every charge, with its tax, of what was     *)
(* sold; no figure at all if a line is not understood.                     *)
Gross(lines) ==
  IF lines = NoFigure \/ lines = <<>> \/ \E k \in DOMAIN lines : ~WellFormed(lines[k])
  THEN NoFigure
  ELSE SumFunction([k \in DOMAIN lines |->
                      (lines[k].product + lines[k].tax + lines[k].shipping) * Sold(lines[k])])

(* toCanonicalOrder, and what ingest makes of it: the lines with units     *)
(* left, their product price and its tax.                                  *)
OrderTotal(lines) ==
  LET kept == {k \in DOMAIN lines : lines[k].ordered # lines[k].cancelled}
  IN  SumFunction([k \in kept |->
                     (lines[k].product + lines[k].tax) * (lines[k].ordered - lines[k].cancelled)])

-----------------------------------------------------------------------------
(* Keys *)

(* item stands for the line number and the Amount Type together. *)
BaseKey(r, day) ==
  CASE r.key # None                   -> <<"tk", r.key, r.type, r.item>>
    [] r.key = None /\ r.item # None  -> <<"po", r.po, r.type, r.item, day>>
    [] r.key = None /\ r.item = None  -> <<"raw", day, r>>

(* variant: a row counts itself *)
UsesWithItself(rep, k) == Cardinality({j \in 1..k : BaseKey(rep.rows[j], rep.day) = BaseKey(rep.rows[k], rep.day)})

(* Rows of the report before the k-th that have its identity. *)
Uses(rep, k) == Cardinality({j \in 1..(k - 1) : BaseKey(rep.rows[j], rep.day) = BaseKey(rep.rows[k], rep.day)})

(* The N-th reuse of a key within a report has a key of its own. *)
LedgerKey(rep, k) == <<BaseKey(rep.rows[k], rep.day), Uses(rep, k)>>

Sale(r) == r.type = "Sale"

Anomalies(rep, k) ==
  LET r == rep.rows[k] IN
  (IF r.key = None /\ r.item = None THEN {"no_identity"} ELSE {})
  \cup (IF Uses(rep, k) > 0 THEN {"identity_collision"} ELSE {})
  \cup (IF Sale(r) /\ r.fee > 0 THEN {"positive_commission"} ELSE {})

Persisted == {e.key : e \in ledger}

(* variant: a row like an earlier one of the report is taken for the same *)
PlanOfDistinct(rep) ==
  {k \in DOMAIN rep.rows : LedgerKey(rep, k) \notin Persisted /\ Uses(rep, k) = 0}

(* What a call will write: the rows that no earlier call has written.      *)
Plan(rep) == {k \in DOMAIN rep.rows : LedgerKey(rep, k) \notin Persisted}

-----------------------------------------------------------------------------
(* Comparison, by order *)

Group(imp, po) == {k \in imp.plan : Sale(imp.rep.rows[k]) /\ imp.rep.rows[k].po = po}

Amounts(imp) == [k \in DOMAIN imp.rep.rows |-> imp.rep.rows[k].amount]

(* variant: the whole report is added up, persisted before or not *)
SumOfReport(imp, po) ==
  SumFunctionOnSet(Amounts(imp), Group([imp EXCEPT !.plan = DOMAIN imp.rep.rows], po))

GroupSum(imp, po) == SumFunctionOnSet(Amounts(imp), Group(imp, po))

(* One row that cannot be told apart or understood blocks its order. *)
Blocked(imp, po) == \E k \in Group(imp, po) : Anomalies(imp.rep, k) # {}

Compared(imp, k) ==
  LET r == imp.rep.rows[k] IN
  Sale(r) /\ r.po \in orders /\ ~Blocked(imp, r.po) /\ Gross(payload[r.po]) # NoFigure

Discrepancy(imp, k) ==
  LET po == imp.rep.rows[k].po IN
  IF Compared(imp, k) THEN GroupSum(imp, po) - Gross(payload[po]) ELSE NoFigure

StatusOf(po, discrepancy) ==
  CASE po \notin orders                              -> "unmatched"
    [] po \in orders /\ discrepancy = NoFigure       -> "unreconciled"
    [] po \in orders /\ discrepancy \notin {NoFigure, 0} -> "discrepant"
    [] po \in orders /\ discrepancy = 0              -> "matched"

Entry(imp, k) ==
  LET d == Discrepancy(imp, k) IN
  [key |-> LedgerKey(imp.rep, k), row |-> imp.rep.rows[k], reasons |-> Anomalies(imp.rep, k),
   call |-> imp.id, discrepancy |-> d, status |-> StatusOf(imp.rep.rows[k].po, d)]

-----------------------------------------------------------------------------
(* A call plans rows of its report, writes those that are left one by one. *)
IdleImport == [at |-> "idle", id |-> 0, rep |-> CHOOSE r \in Reports : TRUE, plan |-> {},
               left |-> {}, written |-> {}, retried |-> FALSE]

Init ==
  /\ payload \in [PO -> Payloads]
  /\ orders = {} /\ ledger = {} /\ audits = {}
  /\ import = [i \in Importer |-> IdleImport]
  /\ calls = 0 /\ faults = 0

(* An order is ingested with its event. *)
IngestOrder(po) ==
  /\ po \notin orders
  /\ orders' = orders \cup {po}
  /\ UNCHANGED <<payload, ledger, audits, import, calls, faults>>

(* fetchAndImportSettlement: a report comes. *)
Fetch(i, rep) ==
  /\ import[i].at = "idle" /\ calls < MaxCalls
  /\ calls' = calls + 1
  /\ import' = [import EXCEPT ![i] = [IdleImport EXCEPT !.at = "keys", !.id = calls + 1, !.rep = rep]]
  /\ UNCHANGED <<payload, orders, ledger, audits, faults>>

(* The transaction begins; rows are keyed and the known ones skipped. *)
PlanRows(i) ==
  /\ import[i].at = "keys"
  /\ import' = [import EXCEPT ![i].at = "write", ![i].plan = Plan(import[i].rep),
                              ![i].left = Plan(import[i].rep)]
  /\ UNCHANGED <<payload, orders, ledger, audits, calls, faults>>

HasNext(imp) == imp.at = "write" /\ imp.left # {}
NextRow(imp) == Min(imp.left)
NextKey(imp) == LedgerKey(imp.rep, NextRow(imp))

(* Other transactions that have written the key and not yet committed. *)
WaitsFor(i) ==
  {j \in Importer \ {i} :
     HasNext(import[i]) /\ NextKey(import[i]) \in {e.key : e \in import[j].written}}

(* Each row looks its order up anew. *)
WriteRow(i) ==
  /\ HasNext(import[i]) /\ WaitsFor(i) = {}
  /\ NextKey(import[i]) \notin Persisted
  /\ import' = [import EXCEPT ![i].left = @ \ {NextRow(import[i])},
                              ![i].written = @ \cup {Entry(import[i], NextRow(import[i]))}]
  /\ UNCHANGED <<payload, orders, ledger, audits, calls, faults>>

(* Nothing of the transaction stays; a lost race is tried once more. *)
RollBack(i) ==
  import' = [import EXCEPT ![i] =
    IF @.retried THEN IdleImport
    ELSE [@ EXCEPT !.at = "keys", !.plan = {}, !.left = {}, !.written = {}, !.retried = TRUE]]

LoseRace(i) ==
  /\ HasNext(import[i]) /\ WaitsFor(i) = {}
  /\ NextKey(import[i]) \in Persisted
  /\ RollBack(i)
  /\ UNCHANGED <<payload, orders, ledger, audits, calls, faults>>

(* Two calls that wait for each other: the database ends one of them. *)
BreakDeadlock(i) ==
  /\ \E j \in WaitsFor(i) : i \in WaitsFor(j)
  /\ import' = [import EXCEPT ![i] = IdleImport]
  /\ UNCHANGED <<payload, orders, ledger, audits, calls, faults>>

(* The process dies, or a figure that is no number cannot be written. *)
Abort(i) ==
  /\ import[i].at # "idle" /\ faults < MaxFaults
  /\ faults' = faults + 1
  /\ import' = [import EXCEPT ![i] = IdleImport]
  /\ UNCHANGED <<payload, orders, ledger, audits, calls>>

With(s, written) == Cardinality({e \in written : e.status = s})

Audit(imp) ==
  [call |-> imp.id, rep |-> imp.rep,
   imported |-> Cardinality(imp.written),
   skipped |-> Len(imp.rep.rows) - Cardinality(imp.plan),
   linked |-> Cardinality(imp.written) - With("unmatched", imp.written),
   byStatus |-> [s \in {"matched", "unmatched", "discrepant", "unreconciled"} |-> With(s, imp.written)]]

Commit(i) ==
  /\ import[i].at = "write" /\ ~HasNext(import[i])
  /\ ledger' = ledger \cup import[i].written
  /\ audits' = audits \cup {Audit(import[i])}
  /\ import' = [import EXCEPT ![i] = IdleImport]
  /\ UNCHANGED <<payload, orders, calls, faults>>

Step(i) == PlanRows(i) \/ WriteRow(i) \/ LoseRace(i) \/ BreakDeadlock(i) \/ Commit(i)

Next ==
  \/ \E po \in PO : IngestOrder(po)
  \/ \E i \in Importer : (\E rep \in Reports : Fetch(i, rep)) \/ Step(i) \/ Abort(i)

Spec == Init /\ [][Next]_vars

-----------------------------------------------------------------------------
TypeOK ==
  /\ payload \in [PO -> Payloads] /\ orders \subseteq PO
  /\ \A i \in Importer :
       /\ import[i].at \in {"idle", "keys", "write"} /\ import[i].retried \in BOOLEAN
       /\ import[i].at # "idle" => import[i].rep \in Reports
       /\ import[i].left \subseteq import[i].plan /\ import[i].plan \subseteq DOMAIN import[i].rep.rows
  /\ \A a \in audits : a.rep \in Reports /\ a.call \in 1..calls
  /\ \A e \in ledger : \E a \in audits :
       a.call = e.call /\ e.key[2] < Len(a.rep.rows)
  /\ calls \in 0..MaxCalls /\ faults \in 0..MaxFaults

Like(rep, base) == {k \in DOMAIN rep.rows : BaseKey(rep.rows[k], rep.day) = base}

(* Nothing a report delivers is lost, and nothing is counted twice: of the *)
(* rows with one identity the ledger has as many as the imported report    *)
(* that has the most, however the reports overlap, repeat identities, race *)
(* each other or are pulled again; and each audit counts what its call     *)
(* wrote.                                                                  *)
LedgerHoldsTheReports ==
  /\ \A a \in audits :
       /\ a.imported = Cardinality({e \in ledger : e.call = a.call})
       /\ a.imported + a.skipped = Len(a.rep.rows)
       /\ a.byStatus["unmatched"] + a.linked = a.imported
  /\ \A base \in {e.key[1] : e \in ledger}
              \cup UNION {{BaseKey(r, a.rep.day) : r \in {a.rep.rows[k] : k \in DOMAIN a.rep.rows}} : a \in audits} :
       Cardinality({e \in ledger : e.key[1] = base}) = Max({Cardinality(Like(a.rep, base)) : a \in audits})

SoldShipping(lines) == SumFunction([k \in DOMAIN lines |-> lines[k].shipping * Sold(lines[k])])

(* A figure is put only on a group whose rows are all understood, and it   *)
(* is what the group's rows of that call amount to, against the order as   *)
(* it was ingested and its shipping: "matched" is exactly right.           *)
ComparedGroupsAreExact ==
  \A e \in {x \in ledger : x.discrepancy # NoFigure} :
    LET lines == payload[e.row.po]
        group == {x \in ledger : x.call = e.call /\ x.row.po = e.row.po /\ Sale(x.row)}
    IN  /\ e \in group /\ \A x \in group : x.reasons = {}
        /\ e.discrepancy = SumFunction([x \in group |-> x.row.amount]) - (OrderTotal(lines) + SoldShipping(lines))
        /\ e.status = IF e.discrepancy = 0 THEN "matched" ELSE "discrepant"
=============================================================================
