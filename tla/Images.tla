------------------------------- MODULE Images -------------------------------
(***************************************************************************)
(* The photos of one product in the core service.  A call reads rows,      *)
(* talks to the object storage and writes rows in a transaction, and other *)
(* calls come in between: an upload first sweeps photos that were never    *)
(* confirmed, then takes the next position under a lock on the product; a  *)
(* confirmation looks at the stored bytes before it writes; a reorder and  *)
(* a delete write positions computed from rows read before their           *)
(* transaction, whose commit fails if two photos share a position.         *)
(*                                                                         *)
(* Positions and orders are functions from photos to 0, 1, ...  Who calls, *)
(* and what a caller does with the answer, is in ImagesTab.                *)
(*                                                                         *)
(* Definitions marked "variant" are not the code's: each takes the place   *)
(* of the definition after it to see that a property notices.              *)
(***************************************************************************)
EXTENDS Integers, FiniteSets

CONSTANTS
  Image,    \* row ids, in the order rows are created; bounds the table
  Caller    \* requests that may be in flight at once

ASSUME ImagesAssumption == Image \subseteq Nat \ {0} /\ IsFiniteSet(Image) /\ Image # {}

VARIABLES
  row,      \* the rows of images: status, position, whether older than 24 hours
  object,   \* what the storage has under the photo's key
  lock,     \* the callers (at most one) with the row lock on the product
  call      \* per caller: the request in flight

coreVars == <<row, object, lock, call>>

NoImage == 0
Free == {}   \* nobody holds the lock

(* A position is never higher than there were rows before it. *)
Row == [status : {"none", "pending", "ready", "gone"},
        pos : 0..Cardinality(Image) - 1, old : BOOLEAN]
NoRow == [status |-> "none", pos |-> 0, old |-> FALSE]

With(s) == {i \in Image : row[i].status = s}
Rows == With("pending") \cup With("ready")

(* ORDER BY position, as the place of each row of I among them. *)
Ranks(I) == [i \in I |-> Cardinality({j \in I : row[j].pos < row[i].pos})]

(* The photos that visitors and administrators see, in their order. *)
Shown == Ranks(With("ready"))

NextImage == CHOOSE i \in With("none") : \A j \in With("none") : i <= j

Idle == [op |-> "none", at |-> "idle", img |-> NoImage, pos |-> 0, order |-> <<>>, todo |-> {}]

(* A call goes on, or it is answered: "ok", "failed", or "stale" when what *)
(* the caller knows of the photos is out of date.                          *)
Goes(c, at) == call' = [call EXCEPT ![c].at = at]
Answer(c, how) == call' = [call EXCEPT ![c] = [Idle EXCEPT !.op = call[c].op, !.at = how, !.img = call[c].img]]

Request(c, op, i, order) ==
  call' = [call EXCEPT ![c] = [Idle EXCEPT !.op = op, !.at = "start", !.img = i, !.order = order]]

At(c, op, at) == call[c].op = op /\ call[c].at = at

Answers == {"ok", "failed", "stale"}

-----------------------------------------------------------------------------
(* requestUpload, which begins with sweepPendingImages *)

Stale == {i \in With("pending") : row[i].old}

FindStale(c) ==
  /\ At(c, "upload", "start") /\ Stale # {}
  /\ call' = [call EXCEPT ![c].at = "sweep", ![c].todo = Stale]
  /\ UNCHANGED <<row, object, lock>>

Gone == [NoRow EXCEPT !.status = "gone"]

(* variant: the bytes go whether or not this call removed the row *)
SweepAnyRow(c, i) ==
  /\ At(c, "upload", "sweep") /\ i \in call[c].todo
  /\ row' = IF row[i].status = "pending" THEN [row EXCEPT ![i] = Gone] ELSE row
  /\ call' = [call EXCEPT ![c].todo = @ \ {i}, ![c].at = "drop", ![c].img = i]
  /\ UNCHANGED <<object, lock>>

(* Whoever removes a row that is still pending drops its bytes. *)
SweepRow(c, i) ==
  /\ At(c, "upload", "sweep") /\ i \in call[c].todo
  /\ \/ /\ row[i].status = "pending"
        /\ row' = [row EXCEPT ![i] = Gone]
        /\ call' = [call EXCEPT ![c].todo = @ \ {i}, ![c].at = "drop", ![c].img = i]
     \/ /\ row[i].status # "pending"
        /\ call' = [call EXCEPT ![c].todo = @ \ {i}]
        /\ UNCHANGED row
  /\ UNCHANGED <<object, lock>>

(* Nothing is lost if the storage fails here: the bytes have no row. *)
SweepObject(c) ==
  /\ At(c, "upload", "drop")
  /\ object' = [object EXCEPT ![call[c].img] = "none"]
  /\ call' = [call EXCEPT ![c].at = "sweep", ![c].img = NoImage]
  /\ UNCHANGED <<row, lock>>

NextPosition ==
  IF Rows = {} THEN 0 ELSE 1 + CHOOSE p \in {row[i].pos : i \in Rows} : \A i \in Rows : row[i].pos <= p

Swept(c) ==
  \/ At(c, "upload", "start") /\ Stale = {}
  \/ At(c, "upload", "sweep") /\ call[c].todo = {}

(* variant: the product is not locked while the next position is read *)
ReadPosition(c) ==
  /\ Swept(c)
  /\ call' = [call EXCEPT ![c].at = "insert", ![c].pos = NextPosition]
  /\ UNCHANGED <<row, object, lock>>

LockProduct(c) ==
  /\ Swept(c)
  /\ lock = Free
  /\ lock' = {c}
  /\ call' = [call EXCEPT ![c].at = "insert", ![c].pos = NextPosition]
  /\ UNCHANGED <<row, object>>

(* Would be refused by the unique constraint if the position were taken. *)
InsertPending(c) ==
  /\ At(c, "upload", "insert")
  /\ With("none") # {}
  /\ lock' = lock \ {c}
  /\ IF \E i \in Rows : row[i].pos = call[c].pos
     THEN Answer(c, "failed") /\ UNCHANGED row
     ELSE /\ row' = [row EXCEPT ![NextImage] = [status |-> "pending", pos |-> call[c].pos, old |-> FALSE]]
          /\ call' = [call EXCEPT ![c] = [Idle EXCEPT !.op = "upload", !.at = "ok", !.img = NextImage]]
  /\ UNCHANGED object

-----------------------------------------------------------------------------
(* confirmUpload *)

(* The row, then the bytes, are read outside the transaction. *)
CheckObject(c) ==
  LET i == call[c].img IN
  /\ At(c, "confirm", "start")
  /\ Goes(c, CASE row[i].status = "ready" -> "ok"
               [] row[i].status = "pending" /\ object[i] = "good" -> "ready"
               [] row[i].status = "pending" /\ object[i] = "bad" -> "reject"
               [] OTHER -> "failed")
  /\ UNCHANGED <<row, object, lock>>

(* A row that was swept meanwhile is no longer there to be updated. *)
MakeReady(c) ==
  LET i == call[c].img IN
  /\ At(c, "confirm", "ready")
  /\ \/ i \in Rows /\ row' = [row EXCEPT ![i].status = "ready"] /\ Answer(c, "ok")
     \/ i \notin Rows /\ Answer(c, "failed") /\ UNCHANGED row
  /\ UNCHANGED <<object, lock>>

RejectObject(c) ==
  /\ At(c, "confirm", "reject")
  /\ object' = [object EXCEPT ![call[c].img] = "none"]
  /\ Goes(c, "rejectRow")
  /\ UNCHANGED <<row, lock>>

RejectRow(c) ==
  LET i == call[c].img IN
  /\ At(c, "confirm", "rejectRow")
  /\ row' = IF row[i].status = "pending" THEN [row EXCEPT ![i] = Gone] ELSE row
  /\ Answer(c, "failed")
  /\ UNCHANGED <<object, lock>>

-----------------------------------------------------------------------------
(* A transaction gives each photo i of new its place new[i].  It fails if  *)
(* one of them is gone, or if two rows would end up in one place.          *)
Renumbered(new) ==
  [i \in Image |-> IF i \in DOMAIN new THEN [row[i] EXCEPT !.pos = new[i]] ELSE row[i]]

Collide(rs) ==
  \E i, j \in {k \in Image : rs[k].status \in {"pending", "ready"}} : i # j /\ rs[i].pos = rs[j].pos

(* reorderImages: the order must list every ready photo once. *)
CheckOrder(c) ==
  /\ At(c, "reorder", "start")
  /\ IF DOMAIN call[c].order = With("ready") THEN Goes(c, "write") ELSE Answer(c, "stale")
  /\ UNCHANGED <<row, object, lock>>

(* variant: a place is left free between the ready and the pending rows *)
SpacedOrder(order) ==
  LET after == 1 + Cardinality(DOMAIN order)
      pending == Ranks(With("pending"))
  IN  [i \in DOMAIN order \cup DOMAIN pending |->
         IF i \in DOMAIN order THEN order[i] ELSE after + pending[i]]

(* The order asked for, then the pending rows in the order they have. *)
NewOrder(order) ==
  LET after == Cardinality(DOMAIN order)
      pending == Ranks(With("pending"))
  IN  [i \in DOMAIN order \cup DOMAIN pending |->
         IF i \in DOMAIN order THEN order[i] ELSE after + pending[i]]

WriteOrder(c) ==
  LET rs == Renumbered(NewOrder(call[c].order))
      fits == DOMAIN call[c].order \subseteq Rows /\ ~Collide(rs)
  IN  /\ At(c, "reorder", "write")
      /\ row' = IF fits THEN rs ELSE row
      /\ Answer(c, IF fits THEN "ok" ELSE "failed")
      /\ UNCHANGED <<object, lock>>

(* deleteImage: what remains is read before the transaction. *)
ReadRemaining(c) ==
  LET i == call[c].img IN
  /\ At(c, "delete", "start")
  /\ call' = IF i \in Rows
             THEN [call EXCEPT ![c].at = "write", ![c].order = Ranks(Rows \ {i})]
             ELSE [call EXCEPT ![c].at = "stale"]
  /\ UNCHANGED <<row, object, lock>>

WriteDelete(c) ==
  LET i == call[c].img
      rs == [Renumbered(call[c].order) EXCEPT ![i] = Gone]
      fits == {i} \cup DOMAIN call[c].order \subseteq Rows /\ ~Collide(rs)
  IN  /\ At(c, "delete", "write")
      /\ row' = IF fits THEN rs ELSE row
      /\ Answer(c, IF fits THEN "dropDeleted" ELSE "failed")
      /\ UNCHANGED <<object, lock>>

DeleteObject(c) ==
  /\ At(c, "delete", "dropDeleted")
  /\ object' = [object EXCEPT ![call[c].img] = "none"]
  /\ Answer(c, "ok")
  /\ UNCHANGED <<row, lock>>

(* updateImageAlt: the words are no concern here, only the answer is. *)
WriteAlt(c) ==
  /\ At(c, "alt", "start")
  /\ Answer(c, IF call[c].img \in Rows THEN "ok" ELSE "stale")
  /\ UNCHANGED <<row, object, lock>>

-----------------------------------------------------------------------------
CoreStep(c) ==
  \/ FindStale(c) \/ (\E i \in Image : SweepRow(c, i)) \/ SweepObject(c)
  \/ LockProduct(c) \/ InsertPending(c)
  \/ CheckObject(c) \/ MakeReady(c) \/ RejectObject(c) \/ RejectRow(c)
  \/ CheckOrder(c) \/ WriteOrder(c)
  \/ ReadRemaining(c) \/ WriteDelete(c) \/ DeleteObject(c)
  \/ WriteAlt(c)

(* A pending row becomes older than PENDING_TTL_MS. *)
Age(i) ==
  /\ row[i].status = "pending" /\ ~row[i].old
  /\ row' = [row EXCEPT ![i].old = TRUE]
  /\ UNCHANGED <<object, lock, call>>

-----------------------------------------------------------------------------
CallTypeOK(cl) ==
  /\ cl.op \in {"none", "upload", "confirm", "reorder", "delete", "alt"}
  /\ cl.img \in Image \cup {NoImage}
  /\ DOMAIN cl.order \subseteq Image /\ cl.todo \subseteq Image

CoreTypeOK ==
  /\ row \in [Image -> Row]
  /\ object \in [Image -> {"none", "good", "bad"}]
  /\ lock \subseteq Caller
  /\ \A c \in Caller : CallTypeOK(call[c])

(* A photo on the site has its bytes, through confirmations that race the  *)
(* sweeps of other uploads, and through deletes: the row always goes first.*)
ReadyHasObject == \A i \in With("ready") : object[i] = "good"

(* The product lock does what its comment says: no upload dies on the      *)
(* position constraint, although deletes and reorders do not take it.      *)
UploadsNeverCollide ==
  \A c \in Caller : At(c, "upload", "insert") => \A i \in Rows : row[i].pos # call[c].pos
=============================================================================
