--------------------------- MODULE ImagesTabProofs ---------------------------
(***************************************************************************)
(* What holds of the photos of a product for any number of photos, files   *)
(* and administrators, whatever answers are lost: the types, that no two   *)
(* photos share a position and no upload dies on one, that the photos on   *)
(* the site have their bytes, that the grid which an administrator may act *)
(* on is the order in core, and that a card moves by one place.            *)
(***************************************************************************)
EXTENDS ImagesTab, FiniteSetTheorems, WellFoundedInduction, TLAPS

(* Least and greatest of sets of numbers; NextImage and NextPosition are   *)
(* chosen as such.                                                         *)
Below == {p \in Nat \X Nat : p[1] < p[2]}

LEMMA BelowIsWellFounded == IsWellFoundedOn(Below, Nat)
BY NatLessThanWellFounded DEF OpToRel, Below

LEMMA LeastExists ==
  ASSUME NEW T \in SUBSET Nat, T # {}
  PROVE  \E x \in T : \A y \in T : x <= y
<1>1. PICK x \in T : \A y \in T : ~(<<y, x>> \in Below)
  BY BelowIsWellFounded, WFMin
<1>2. ASSUME NEW y \in T PROVE x <= y
  <2>1. x \in Nat /\ y \in Nat
    OBVIOUS
  <2>2. <<y, x>> \in Nat \X Nat
    BY <2>1
  <2>3. ~(y < x)
    BY <1>1, <2>2 DEF Below
  <2>4. QED
    BY <2>1, <2>3
<1>3. QED
  BY <1>2

(* The greatest is the least of the upper bounds. *)
LEMMA GreatestExists ==
  ASSUME NEW T \in SUBSET Nat, T # {}, NEW b \in Nat, \A x \in T : x <= b
  PROVE  \E x \in T : \A y \in T : y <= x
<1> DEFINE Above == {m \in Nat : \A x \in T : x <= m}
<1>1. PICK m \in Above : \A n \in Above : m <= n
  <2>1. Above \in SUBSET Nat /\ b \in Above
    OBVIOUS
  <2>2. QED
    BY <2>1, LeastExists
<1>2. m \in Nat /\ \A x \in T : x \in Nat /\ x <= m
  OBVIOUS
<1>3. m \in T
  <2> SUFFICES ASSUME m \notin T PROVE FALSE
    OBVIOUS
  <2>1. PICK x \in T : TRUE
    OBVIOUS
  <2>2. \A y \in T : y \in Nat /\ y < m
    BY <1>2
  <2>3. m - 1 \in Nat
    BY <1>2, <2>1, <2>2
  <2>4. m - 1 \in Above
    BY <1>2, <2>2, <2>3
  <2>5. QED
    BY <1>1, <1>2, <2>4
<1>4. QED
  BY <1>2, <1>3

(* A part of a finite set is finite, and no larger. *)
LEMMA Parts ==
  ASSUME NEW S \in SUBSET Image
  PROVE  /\ IsFiniteSet(S) /\ Cardinality(S) \in Nat /\ Cardinality(S) <= Cardinality(Image)
         /\ Cardinality(Image) \in Nat /\ Cardinality(Image) > 0
         /\ \A T \in SUBSET S : Cardinality(T) <= Cardinality(S)
         /\ \A T \in SUBSET S : T # S => Cardinality(T) < Cardinality(S)
<1>1. IsFiniteSet(Image) /\ Image # {}
  BY ImagesAssumption
<1>2. IsFiniteSet(S) /\ Cardinality(S) <= Cardinality(Image)
  BY <1>1, FS_Subset
<1>3. Cardinality(S) \in Nat /\ Cardinality(Image) \in Nat
  BY <1>1, <1>2, FS_CardinalityType
<1>4. Cardinality(Image) > 0
  BY <1>1, <1>3, FS_EmptySet
<1>5. ASSUME NEW T \in SUBSET S
      PROVE  Cardinality(T) <= Cardinality(S) /\ (T # S => Cardinality(T) < Cardinality(S))
  <2>1. IsFiniteSet(T) /\ Cardinality(T) <= Cardinality(S) /\ (Cardinality(S) = Cardinality(T) => S = T)
    BY <1>2, FS_Subset
  <2>2. Cardinality(T) \in Nat
    BY <2>1, FS_CardinalityType
  <2>3. QED
    BY <1>3, <2>1, <2>2
<1>6. QED
  BY <1>2, <1>3, <1>4, <1>5

(* Disjoint parts of a part fit in it together. *)
LEMMA DisjointParts ==
  ASSUME NEW S \in SUBSET Image, NEW A \in SUBSET S, NEW B \in SUBSET S, A \cap B = {}
  PROVE  Cardinality(A) + Cardinality(B) <= Cardinality(S)
<1>1. /\ IsFiniteSet(A) /\ IsFiniteSet(B)
      /\ Cardinality(A) \in Nat /\ Cardinality(B) \in Nat /\ Cardinality(S) \in Nat
  BY Parts
<1>2. Cardinality(A \cup B) <= Cardinality(S)
  BY Parts
<1>3. Cardinality(A \cup B) = Cardinality(A) + Cardinality(B) - Cardinality(A \cap B)
  BY <1>1, FS_Union
<1>4. Cardinality(A \cap B) = 0
  BY FS_EmptySet
<1>5. QED
  BY <1>1, <1>2, <1>3, <1>4

-----------------------------------------------------------------------------
(* Orders of photos: each photo's place is among as many places. *)
OrderSet ==
  {q \in UNION {[S -> Nat] : S \in SUBSET Image} :
     \A i \in DOMAIN q : q[i] < Cardinality(DOMAIN q)}

LEMMA OrderFacts ==
  ASSUME NEW q \in OrderSet
  PROVE  /\ DOMAIN q \in SUBSET Image /\ q \in [DOMAIN q -> Nat]
         /\ \A i \in DOMAIN q : q[i] \in Nat /\ q[i] < Cardinality(DOMAIN q)
BY DEF OrderSet

LEMMA IsOrder ==
  ASSUME NEW S \in SUBSET Image, NEW q \in [S -> Nat], \A i \in S : q[i] < Cardinality(S)
  PROVE  q \in OrderSet
BY DEF OrderSet

LEMMA EmptyOrder == <<>> \in OrderSet
BY DEF OrderSet

(* The photos before a photo are fewer than all. *)
LEMMA RankFacts ==
  ASSUME row \in [Image -> Row], NEW I \in SUBSET Image
  PROVE  /\ Ranks(I) \in OrderSet /\ Ranks(I) \in [I -> Nat] /\ DOMAIN Ranks(I) = I
         /\ \A i \in I : Ranks(I)[i] < Cardinality(I)
<1>1. ASSUME NEW i \in I
      PROVE  /\ Cardinality({j \in I : row[j].pos < row[i].pos}) \in Nat
             /\ Cardinality({j \in I : row[j].pos < row[i].pos}) < Cardinality(I)
  <2> DEFINE before == {j \in I : row[j].pos < row[i].pos}
  <2>1. row[i].pos \in Int
    BY DEF Row
  <2>2. before \in SUBSET I /\ i \notin before
    BY <2>1
  <2>3. before # I /\ before \in SUBSET Image
    BY <2>2
  <2> HIDE DEF before
  <2>4. Cardinality(before) \in Nat /\ Cardinality(before) < Cardinality(I)
    BY <2>2, <2>3, Parts
  <2>5. QED
    BY <2>4 DEF before
<1>2. Ranks(I) \in [I -> Nat] /\ \A i \in I : Ranks(I)[i] < Cardinality(I)
  BY <1>1 DEF Ranks
<1>3. QED
  BY <1>2, IsOrder

(* The order shown is an order of the ready photos.                        *)
LEMMA ShownIsOrder ==
  ASSUME row \in [Image -> Row]
  PROVE  Shown \in OrderSet /\ DOMAIN Shown = With("ready")
BY RankFacts DEF Shown, With

(* Two photos that change places leave an order an order.                  *)
LEMMA SwappedIsOrder ==
  ASSUME NEW q \in OrderSet, NEW i \in DOMAIN q, NEW j \in DOMAIN q
  PROVE  Swapped(q, i, j) \in OrderSet
<1>1. /\ DOMAIN q \in SUBSET Image /\ q \in [DOMAIN q -> Nat]
      /\ \A k \in DOMAIN q : q[k] \in Nat /\ q[k] < Cardinality(DOMAIN q)
  BY OrderFacts
<1>2. Swapped(q, i, j) \in [DOMAIN q -> Nat]
  BY <1>1 DEF Swapped
<1>3. \A k \in DOMAIN q : Swapped(q, i, j)[k] < Cardinality(DOMAIN q)
  BY <1>1 DEF Swapped
<1>4. QED
  BY <1>1, <1>2, <1>3, IsOrder

-----------------------------------------------------------------------------
(* What the variables range over. *)
Op == {"none", "upload", "confirm", "reorder", "delete", "alt"}
Place == {"idle", "start", "sweep", "drop", "insert", "ok", "failed", "stale", "ready", "reject",
          "rejectRow", "write", "dropDeleted", "settled", "refreshing"}

CallRec ==
  [op : Op, at : Place, img : Image \cup {NoImage}, pos : Nat, order : OrderSet, todo : SUBSET Image]

RefreshRec ==
  [at : {"none", "sent", "read"}, data : OrderSet, files : SUBSET File, newest : BOOLEAN]

CoreTypes ==
  /\ row \in [Image -> Row] /\ object \in [Image -> {"none", "good", "bad"}]
  /\ lock \subseteq Caller /\ call \in [Caller -> CallRec]

TabTypes ==
  /\ grid \in OrderSet /\ listStale \in BOOLEAN /\ astray \in BOOLEAN
  /\ upload \in [File -> Stage] /\ token \in [File -> Image \cup {NoImage}]
  /\ refresh \in [Caller -> RefreshRec]
  /\ clicks \in 0..MaxClicks /\ faults \in 0..MaxFaults

(* Calls about a photo name one, and the stage of a file says which call   *)
(* its row waits for.                                                      *)
FileRole(f) ==
  /\ upload[f] = "uploading" => call[f].op = "upload" /\ call[f].at # "settled"
  /\ upload[f] = "confirming" => call[f].op = "confirm" /\ call[f].at # "settled"

Roles ==
  /\ \A c \in Caller :
       /\ call[c].op \in {"confirm", "delete", "alt"} => call[c].img \in Image
       /\ At(c, "upload", "ok") \/ At(c, "upload", "drop") => call[c].img \in Image
  /\ \A f \in File : FileRole(f)

(* A photo that was ever created keeps its row id. *)
Created == Image \ With("none")

(* Positions differ, and are lower than there are photos; one that is      *)
(* about to be used is above them all, and no lower than there are rows.   *)
(* The photos of an order that is about to be written do not go back to    *)
(* pending.                                                                *)
Positions ==
  /\ \A i \in Rows : row[i].pos < Cardinality(Created)
  /\ \A i, j \in Rows : i # j => row[i].pos # row[j].pos
  /\ \A c \in Caller : At(c, "upload", "insert") =>
       /\ lock = {c} /\ call[c].pos <= Cardinality(Created) /\ Cardinality(Rows) <= call[c].pos
       /\ \A i \in Rows : row[i].pos < call[c].pos
  /\ \A c \in Caller : At(c, "reorder", "write") =>
       \A i \in DOMAIN call[c].order : row[i].status \in {"ready", "gone"}

Typed == CoreTypes /\ TabTypes /\ Roles

-----------------------------------------------------------------------------
(* One call changes, into what is said. *)
Becomes(c, op, at, img, pos, order, todo) ==
  /\ call' \in [Caller -> CallRec]
  /\ \A d \in Caller \ {c} : call'[d] = call[d]
  /\ call'[c].op = op /\ call'[c].at = at /\ call'[c].img = img
  /\ call'[c].pos = pos /\ call'[c].order = order /\ call'[c].todo = todo

LEMMA IdleCall ==
  /\ Idle \in CallRec /\ Idle.op = "none" /\ Idle.at = "idle" /\ Idle.img = NoImage
  /\ Idle.pos = 0 /\ Idle.order = <<>> /\ Idle.todo = {}
BY EmptyOrder DEF CallRec, Idle, Op, Place, NoImage

LEMMA GoesBecomes ==
  ASSUME CoreTypes, NEW c \in Caller, NEW a \in Place, Goes(c, a)
  PROVE  Becomes(c, call[c].op, a, call[c].img, call[c].pos, call[c].order, call[c].todo)
BY DEF CoreTypes, Goes, Becomes, CallRec

LEMMA AnswerBecomes ==
  ASSUME CoreTypes, NEW c \in Caller, NEW a \in Place, Answer(c, a)
  PROVE  Becomes(c, call[c].op, a, call[c].img, 0, <<>>, {})
BY IdleCall DEF CoreTypes, Answer, Becomes, CallRec

LEMMA RequestBecomes ==
  ASSUME CoreTypes, NEW c \in Caller, NEW op \in Op, NEW i \in Image \cup {NoImage},
         NEW o \in OrderSet, Request(c, op, i, o)
  PROVE  Becomes(c, op, "start", i, 0, o, {})
BY IdleCall DEF CoreTypes, Request, Becomes, CallRec, Place

LEMMA DoneBecomes ==
  ASSUME CoreTypes, NEW c \in Caller, call' = [call EXCEPT ![c] = Idle]
  PROVE  Becomes(c, "none", "idle", NoImage, 0, <<>>, {})
BY IdleCall DEF CoreTypes, Becomes, CallRec

-----------------------------------------------------------------------------
(* What the steps of core do to the call. *)
LEMMA FindStaleDoes ==
  ASSUME CoreTypes, NEW c \in Caller, FindStale(c)
  PROVE  Becomes(c, "upload", "sweep", call[c].img, call[c].pos, call[c].order, Stale)
<1>1. Stale \in SUBSET Image /\ "sweep" \in Place
  BY DEF Stale, With, Place
<1> HIDE DEF Stale
<1>2. QED
  BY <1>1 DEF FindStale, At, CoreTypes, Becomes, CallRec

(* A step of a call by the record it leaves: one lemma per handler of      *)
(* core.                                                                   *)
LEMMA SweepRowDoes ==
  ASSUME CoreTypes, NEW c \in Caller, NEW i \in Image, SweepRow(c, i)
  PROVE  \/ /\ row[i].status = "pending" /\ row' = [row EXCEPT ![i] = Gone]
            /\ Becomes(c, "upload", "drop", i, call[c].pos, call[c].order, call[c].todo \ {i})
         \/ /\ row[i].status # "pending" /\ row' = row
            /\ Becomes(c, "upload", "sweep", call[c].img, call[c].pos, call[c].order,
                       call[c].todo \ {i})
BY DEF SweepRow, At, CoreTypes, Becomes, CallRec, Place

LEMMA SweepObjectDoes ==
  ASSUME CoreTypes, NEW c \in Caller, SweepObject(c)
  PROVE  Becomes(c, "upload", "sweep", NoImage, call[c].pos, call[c].order, call[c].todo)
BY DEF SweepObject, At, CoreTypes, Becomes, CallRec, Place, NoImage

LEMMA LockProductDoes ==
  ASSUME CoreTypes, NEW c \in Caller, LockProduct(c), NextPosition \in Nat
  PROVE  Becomes(c, "upload", "insert", call[c].img, NextPosition, call[c].order, call[c].todo)
BY DEF LockProduct, Swept, At, CoreTypes, Becomes, CallRec, Place

LEMMA InsertPendingDoes ==
  ASSUME CoreTypes, NEW c \in Caller, InsertPending(c), NextImage \in Image
  PROVE  \/ Becomes(c, "upload", "failed", call[c].img, 0, <<>>, {}) /\ row' = row
         \/ /\ Becomes(c, "upload", "ok", NextImage, 0, <<>>, {})
            /\ row' = [row EXCEPT ![NextImage] =
                         [status |-> "pending", pos |-> call[c].pos, old |-> FALSE]]
<1>1. CASE \E i \in Rows : row[i].pos = call[c].pos
  BY <1>1, AnswerBecomes DEF InsertPending, At, Place
<1>2. CASE ~ \E i \in Rows : row[i].pos = call[c].pos
  <2>1. call' = [call EXCEPT ![c] = [Idle EXCEPT !.op = "upload", !.at = "ok", !.img = NextImage]]
    BY <1>2 DEF InsertPending
  <2>2. Becomes(c, "upload", "ok", NextImage, 0, <<>>, {})
    BY <2>1, IdleCall DEF CoreTypes, Becomes, CallRec, Op, Place
  <2>3. QED
    BY <1>2, <2>2 DEF InsertPending
<1>3. QED
  BY <1>1, <1>2

LEMMA CheckObjectDoes ==
  ASSUME CoreTypes, Roles, NEW c \in Caller, CheckObject(c)
  PROVE  \E a \in {"ok", "failed", "ready", "reject"} :
           /\ Becomes(c, "confirm", a, call[c].img, call[c].pos, call[c].order, call[c].todo)
           /\ call[c].img \in Image
           /\ a \in {"ready", "reject"} => row[call[c].img].status = "pending"
           /\ a = "ready" => object[call[c].img] = "good"
<1>1. call[c].img \in Image /\ call[c].op = "confirm"
  BY DEF CheckObject, At, Roles, FileRole
<1>2. PICK i \in Image : i = call[c].img
  BY <1>1
<1>3. row[i].status \in {"none", "pending", "ready", "gone"} /\ object[i] \in {"none", "good", "bad"}
  BY DEF CoreTypes, Row
<1>4. PICK a \in {"ok", "failed", "ready", "reject"} :
        /\ Goes(c, a)
        /\ a \in {"ready", "reject"} => row[i].status = "pending"
        /\ a = "ready" => object[i] = "good"
  <2>1. Goes(c, CASE row[i].status = "ready" -> "ok"
                  [] row[i].status = "pending" /\ object[i] = "good" -> "ready"
                  [] row[i].status = "pending" /\ object[i] = "bad" -> "reject"
                  [] OTHER -> "failed")
    BY <1>2 DEF CheckObject
  <2>2. CASE row[i].status = "ready"
    <3>1. Goes(c, "ok")
      BY <2>1, <2>2
    <3>2. QED
      BY <2>2, <3>1
  <2>3. CASE row[i].status # "ready" /\ (row[i].status # "pending" \/ object[i] = "none")
    <3>1. Goes(c, "failed")
      BY <2>1, <2>3
    <3>2. QED
      BY <3>1
  <2>4. CASE row[i].status = "pending" /\ object[i] = "good"
    <3>1. Goes(c, "ready")
      BY <2>1, <2>4
    <3>2. QED
      BY <2>4, <3>1
  <2>5. CASE row[i].status = "pending" /\ object[i] = "bad"
    <3>1. Goes(c, "reject")
      BY <2>1, <2>5
    <3>2. QED
      BY <2>5, <3>1
  <2>6. QED
    BY <1>3, <2>2, <2>3, <2>4, <2>5
<1>5. a \in Place
  BY DEF Place
<1>6. QED
  BY <1>1, <1>2, <1>4, <1>5, GoesBecomes

LEMMA MakeReadyDoes ==
  ASSUME CoreTypes, NEW c \in Caller, MakeReady(c)
  PROVE  \/ /\ call[c].img \in Rows /\ row' = [row EXCEPT ![call[c].img].status = "ready"]
            /\ Becomes(c, "confirm", "ok", call[c].img, 0, <<>>, {})
         \/ /\ call[c].img \notin Rows /\ row' = row
            /\ Becomes(c, "confirm", "failed", call[c].img, 0, <<>>, {})
BY AnswerBecomes DEF MakeReady, At, Place

LEMMA RejectObjectDoes ==
  ASSUME CoreTypes, NEW c \in Caller, RejectObject(c)
  PROVE  Becomes(c, "confirm", "rejectRow", call[c].img, call[c].pos, call[c].order, call[c].todo)
BY GoesBecomes DEF RejectObject, At, Place

LEMMA RejectRowDoes ==
  ASSUME CoreTypes, NEW c \in Caller, RejectRow(c)
  PROVE  Becomes(c, "confirm", "failed", call[c].img, 0, <<>>, {})
BY AnswerBecomes DEF RejectRow, At, Place

LEMMA CheckOrderDoes ==
  ASSUME CoreTypes, NEW c \in Caller, CheckOrder(c)
  PROVE  \/ /\ DOMAIN call[c].order = With("ready")
            /\ Becomes(c, "reorder", "write", call[c].img, call[c].pos, call[c].order, call[c].todo)
         \/ Becomes(c, "reorder", "stale", call[c].img, 0, <<>>, {})
BY GoesBecomes, AnswerBecomes DEF CheckOrder, At, Place

LEMMA WriteOrderDoes ==
  ASSUME CoreTypes, NEW c \in Caller, WriteOrder(c)
  PROVE  \/ /\ Becomes(c, "reorder", "ok", call[c].img, 0, <<>>, {})
            /\ row' = Renumbered(NewOrder(call[c].order))
            /\ DOMAIN call[c].order \subseteq Rows
            /\ ~Collide(Renumbered(NewOrder(call[c].order)))
         \/ Becomes(c, "reorder", "failed", call[c].img, 0, <<>>, {}) /\ row' = row
<1> DEFINE fits == /\ DOMAIN call[c].order \subseteq Rows
                   /\ ~Collide(Renumbered(NewOrder(call[c].order)))
<1>1. CASE fits
  <2>1. Answer(c, "ok")
    BY <1>1 DEF WriteOrder
  <2>2. Becomes(c, "reorder", "ok", call[c].img, 0, <<>>, {})
    BY <2>1, AnswerBecomes DEF WriteOrder, At, Place
  <2>3. QED
    BY <1>1, <2>2 DEF WriteOrder
<1>2. CASE ~fits
  <2>1. Answer(c, "failed")
    BY <1>2 DEF WriteOrder
  <2>2. Becomes(c, "reorder", "failed", call[c].img, 0, <<>>, {})
    BY <2>1, AnswerBecomes DEF WriteOrder, At, Place
  <2>3. QED
    BY <1>2, <2>2 DEF WriteOrder
<1>3. QED
  BY <1>1, <1>2

LEMMA ReadRemainingDoes ==
  ASSUME CoreTypes, NEW c \in Caller, ReadRemaining(c)
  PROVE  \/ Becomes(c, "delete", "write", call[c].img, call[c].pos, Ranks(Rows \ {call[c].img}),
                    call[c].todo)
         \/ Becomes(c, "delete", "stale", call[c].img, call[c].pos, call[c].order, call[c].todo)
<1>1. Rows \ {call[c].img} \in SUBSET Image
  BY DEF Rows, With
<1>2. PICK o \in OrderSet : o = Ranks(Rows \ {call[c].img})
  BY <1>1, RankFacts DEF CoreTypes
<1>3. CASE call[c].img \in Rows
  <2>1. call' = [call EXCEPT ![c].at = "write", ![c].order = o] /\ call[c].op = "delete"
    BY <1>2, <1>3 DEF ReadRemaining, At
  <2>2. Becomes(c, "delete", "write", call[c].img, call[c].pos, o, call[c].todo)
    BY <2>1 DEF CoreTypes, Becomes, CallRec, Place
  <2>3. QED
    BY <1>2, <2>2
<1>4. CASE call[c].img \notin Rows
  BY <1>4 DEF ReadRemaining, At, CoreTypes, Becomes, CallRec, Place
<1>5. QED
  BY <1>3, <1>4

LEMMA WriteDeleteDoes ==
  ASSUME CoreTypes, NEW c \in Caller, WriteDelete(c)
  PROVE  LET rs == [Renumbered(call[c].order) EXCEPT ![call[c].img] = Gone]
         IN  \/ /\ Becomes(c, "delete", "dropDeleted", call[c].img, 0, <<>>, {})
                /\ row' = rs /\ ~Collide(rs)
                /\ {call[c].img} \cup DOMAIN call[c].order \subseteq Rows
             \/ Becomes(c, "delete", "failed", call[c].img, 0, <<>>, {}) /\ row' = row
<1> DEFINE rs == [Renumbered(call[c].order) EXCEPT ![call[c].img] = Gone]
           fits == {call[c].img} \cup DOMAIN call[c].order \subseteq Rows /\ ~Collide(rs)
<1>1. CASE fits
  <2>1. Answer(c, "dropDeleted")
    BY <1>1 DEF WriteDelete
  <2>2. Becomes(c, "delete", "dropDeleted", call[c].img, 0, <<>>, {})
    BY <2>1, AnswerBecomes DEF WriteDelete, At, Place
  <2>3. QED
    BY <1>1, <2>2 DEF WriteDelete
<1>2. CASE ~fits
  <2>1. Answer(c, "failed")
    BY <1>2 DEF WriteDelete
  <2>2. Becomes(c, "delete", "failed", call[c].img, 0, <<>>, {})
    BY <2>1, AnswerBecomes DEF WriteDelete, At, Place
  <2>3. QED
    BY <1>2, <2>2 DEF WriteDelete
<1>3. QED
  BY <1>1, <1>2

LEMMA DeleteObjectDoes ==
  ASSUME CoreTypes, NEW c \in Caller, DeleteObject(c)
  PROVE  Becomes(c, "delete", "ok", call[c].img, 0, <<>>, {})
BY AnswerBecomes DEF DeleteObject, At, Place

LEMMA WriteAltDoes ==
  ASSUME CoreTypes, NEW c \in Caller, WriteAlt(c)
  PROVE  \E a \in {"ok", "stale"} : Becomes(c, "alt", a, call[c].img, 0, <<>>, {})
BY AnswerBecomes DEF WriteAlt, At, Place

-----------------------------------------------------------------------------
(* What the tab and the other administrator do to calls in core: nothing,  *)
(* or one call begins or ends; only Put does more.                         *)
Quiet(c) ==
  /\ call' \in [Caller -> CallRec] /\ \A d \in Caller \ {c} : call'[d] = call[d]
  /\ call'[c].at \in {"idle", "start", "failed", "settled", "refreshing"}
  /\ call'[c].at = "start" => call'[c].op # "confirm"
  /\ call'[c].op \in {"confirm", "delete", "alt"} => call'[c].img \in Image

QuietStep(c) ==
  Quiet(c) /\ row' = row /\ object' = object /\ (lock' = lock \/ lock' = lock \ {c})

LEMMA CallersAre == File \subseteq Caller /\ Image \subseteq Caller /\ Other \subseteq Caller
BY TabAssumption

LEMMA DoneIsQuiet ==
  ASSUME CoreTypes, NEW c \in Caller, call' = [call EXCEPT ![c] = Idle]
  PROVE  Quiet(c) /\ call'[c].op = "none" /\ call'[c].at = "idle"
BY DoneBecomes DEF Becomes, Quiet

LEMMA RequestIsQuiet ==
  ASSUME CoreTypes, NEW c \in Caller, NEW op \in Op \ {"confirm"}, NEW o \in OrderSet,
         NEW i \in Image \cup {NoImage}, op \in {"delete", "alt"} => i \in Image,
         Request(c, op, i, o)
  PROVE  Quiet(c) /\ call'[c].op = op /\ call'[c].at = "start"
BY RequestBecomes DEF Becomes, Quiet

(* How calls change in a step of the tab's. *)
LEMMA OverCalls ==
  ASSUME Typed, NEW c \in Caller, Over(c)
  PROVE  /\ UNCHANGED <<row, object, lock>>
         /\ call' = call \/ (c \in Image /\ Quiet(c) /\ Done(c))
<1>1. CASE c \in Image
  <2>1. CoreTypes /\ call' = [call EXCEPT ![c] = Idle] /\ UNCHANGED <<row, object, lock>>
    BY <1>1 DEF Over, Typed
  <2>2. Quiet(c)
    BY <2>1, DoneIsQuiet
  <2>3. QED
    BY <1>1, <2>1, <2>2 DEF Done
<1>2. CASE c \notin Image
  <2>1. call' = call /\ UNCHANGED <<row, object, lock>>
    BY <1>2 DEF Over
  <2>2. QED
    BY <2>1
<1>3. QED
  BY <1>1, <1>2

(* What a card asks for when it is moved is an order.                      *)
LEMMA GridFacts ==
  ASSUME TabTypes, NEW i \in Image, NEW j \in Image, {i, j} \subseteq DOMAIN grid
  PROVE  Swapped(grid, i, j) \in OrderSet
BY SwappedIsOrder DEF TabTypes

(* The other administrator only makes requests.                            *)
LEMMA OtherActsQuietly ==
  ASSUME Typed, NEW c \in Other, OtherActs(c)
  PROVE  QuietStep(c)
<1>1. c \in Caller /\ CoreTypes
  BY CallersAre DEF Typed
<1>2. CASE Request(c, "upload", NoImage, <<>>)
  BY <1>1, <1>2, RequestIsQuiet, EmptyOrder DEF OtherActs, QuietStep, Op
<1>3. ASSUME NEW i \in Rows, Request(c, "delete", i, <<>>) PROVE QuietStep(c)
  <2>1. i \in Image
    BY DEF Rows, With
  <2>2. QED
    BY <1>1, <1>3, <2>1, RequestIsQuiet, EmptyOrder DEF OtherActs, QuietStep, Op
<1>4. ASSUME NEW i \in With("ready"), NEW j \in With("ready"),
             Request(c, "reorder", NoImage, Swapped(Shown, i, j))
      PROVE  QuietStep(c)
  <2>1. Swapped(Shown, i, j) \in OrderSet
    BY <1>1, ShownIsOrder, SwappedIsOrder DEF CoreTypes
  <2>2. QED
    BY <1>1, <1>4, <2>1, RequestIsQuiet DEF OtherActs, QuietStep, Op
<1>5. QED
  BY <1>2, <1>3, <1>4 DEF OtherActs

(* Every step is of one of these kinds. *)
LEMMA StepKinds ==
  ASSUME Typed, [Next]_vars
  PROVE  \/ UNCHANGED coreVars
         \/ \E c \in Caller : QuietStep(c)
         \/ \E c \in Caller : CoreStep(c)
         \/ \E f \in File : \E b \in {"good", "bad"} : Put(f, b)
         \/ \E i \in Image : Age(i)
<1> USE CallersAre DEF Typed
<1>1. ASSUME NEW c \in Caller, TabStep(c)
      PROVE  \/ UNCHANGED coreVars \/ QuietStep(c)
             \/ \E f \in File : \E b \in {"good", "bad"} : Put(f, b)
  <2>1. CASE GetProduct(c)
    BY <2>1 DEF GetProduct
  <2>2. CASE Apply(c)
    BY <2>2, OverCalls DEF Apply, coreVars, QuietStep
  <2>3. ASSUME c \in File, NEW b \in {"good", "bad"}, Put(c, b)
        PROVE  \E f \in File : \E d \in {"good", "bad"} : Put(f, d)
    BY <2>3
  <2>4. CASE c \in File /\ Confirmed(c)
    <3>1. Becomes(c, call[c].op, "settled", call[c].img, call[c].pos, call[c].order, call[c].todo)
      BY <2>4, GoesBecomes DEF Confirmed, Place
    <3>2. QED
      BY <2>4, <3>1 DEF Confirmed, QuietStep, Becomes, Quiet, Roles, FileRole
  <2>5. CASE c \in File /\ BatchSettled(c)
    BY <2>5, DoneIsQuiet DEF BatchSettled, Done, QuietStep
  <2>6. CASE c \in Image /\ CardAnswered(c)
    <3>1. Becomes(c, call[c].op, "refreshing", call[c].img, call[c].pos, call[c].order, call[c].todo)
      BY <2>6, GoesBecomes DEF CardAnswered, Place
    <3>2. QED
      BY <2>6, <3>1 DEF CardAnswered, QuietStep, Becomes, Quiet, Roles, FileRole
  <2>7. QED
    BY <1>1, <2>1, <2>2, <2>3, <2>4, <2>5, <2>6 DEF TabStep
<1>2. ASSUME NEW c \in Caller, RefreshFails(c) PROVE UNCHANGED coreVars \/ QuietStep(c)
  BY <1>2, OverCalls DEF RefreshFails, coreVars, QuietStep
<1>3. ASSUME NEW c \in Caller, RefreshAgain(c) PROVE UNCHANGED coreVars
  BY <1>3 DEF RefreshAgain
<1>4. ASSUME NEW c \in Caller, ServerError(c) PROVE QuietStep(c)
  <2>1. Becomes(c, call[c].op, "failed", call[c].img, 0, <<>>, {})
    BY <1>4, AnswerBecomes DEF ServerError, Place
  <2>2. QED
    BY <1>4, <2>1 DEF ServerError, QuietStep, Becomes, Quiet, Roles, FileRole
<1>5. ASSUME NEW f \in File, Upload(f) PROVE QuietStep(f)
  BY <1>5, RequestIsQuiet, EmptyOrder DEF Upload, QuietStep, Op
<1>6. ASSUME NEW f \in File, UploadFails(f) PROVE QuietStep(f)
  BY <1>6, DoneIsQuiet DEF UploadFails, Done, QuietStep
<1>7. ASSUME NEW i \in Image, Remove(i) PROVE QuietStep(i)
  BY <1>7, RequestIsQuiet, EmptyOrder DEF Remove, CardUnchanged, QuietStep, Op
<1>8. ASSUME NEW i \in Image, SaveAlt(i) PROVE QuietStep(i)
  BY <1>8, RequestIsQuiet, EmptyOrder DEF SaveAlt, CardUnchanged, QuietStep, Op
<1>9. ASSUME NEW i \in Image, CardFails(i) PROVE QuietStep(i)
  BY <1>9, DoneIsQuiet DEF CardFails, Done, QuietStep
<1>10. ASSUME NEW i \in Image, NEW j \in Image, Move(i, j) PROVE QuietStep(i)
  BY <1>10, RequestIsQuiet, GridFacts DEF Move, CardUnchanged, QuietStep, Op
<1>11. ASSUME NEW c \in Other, OtherAnswered(c) PROVE QuietStep(c)
  BY <1>11, DoneIsQuiet DEF OtherAnswered, Done, QuietStep
<1>12. CASE UNCHANGED vars
  BY <1>12 DEF vars
<1>13. CASE Next
  BY <1>13, <1>1, <1>2, <1>3, <1>4, <1>5, <1>6, <1>7, <1>8, <1>9, <1>10, <1>11,
     OtherActsQuietly DEF Next, Core
<1>14. QED
  BY <1>12, <1>13

-----------------------------------------------------------------------------
(* The tab's own variables stay typed. *)
LEMMA NoRefreshTyped == NoRefresh \in RefreshRec
BY EmptyOrder DEF NoRefresh, RefreshRec

LEMMA OverTyped ==
  ASSUME TabTypes, NEW c \in Caller, Over(c)
  PROVE  refresh' \in [Caller -> RefreshRec]
BY NoRefreshTyped DEF TabTypes, Over

LEMMA IssueTyped ==
  ASSUME TabTypes, NEW c \in Caller, NEW stages, Issue(c, stages)
  PROVE  refresh' \in [Caller -> RefreshRec]
<1>1. ASSUME NEW d \in Caller PROVE [refresh[d] EXCEPT !.newest = FALSE] \in RefreshRec
  BY DEF TabTypes, RefreshRec
<1>2. [at |-> "sent", data |-> <<>>, newest |-> TRUE,
       files |-> {f \in File : stages[f] \in {"saved", "refresh-error"}}] \in RefreshRec
  BY EmptyOrder DEF RefreshRec
<1>3. QED
  BY <1>1, <1>2 DEF Issue

LEMMA FaultTyped ==
  ASSUME TabTypes, Fault
  PROVE  faults' \in 0..MaxFaults
BY TabAssumption DEF TabTypes, Fault

LEMMA ClickTyped ==
  ASSUME TabTypes, Click
  PROVE  clicks' \in 0..MaxClicks
BY TabAssumption DEF TabTypes, Click

(* Every step leaves the tab with values of their types.                   *)
LEMMA TabTypesStay ==
  ASSUME Typed, [Next]_vars
  PROVE  TabTypes'
<1> USE CallersAre DEF Typed
<1>1. ASSUME NEW c \in Caller, Core(c) PROVE TabTypes'
  BY <1>1 DEF Core, TabTypes, tabVars
<1>2. ASSUME NEW c \in Caller, GetProduct(c) PROVE TabTypes'
  <2>1. Shown \in OrderSet
    BY ShownIsOrder DEF CoreTypes
  <2>2. PICK q \in OrderSet : q = Shown
    BY <2>1
  <2>3. refresh' = [refresh EXCEPT ![c].at = "read", ![c].data = q]
    BY <1>2, <2>2 DEF GetProduct
  <2>4. refresh' \in [Caller -> RefreshRec]
    BY <2>3 DEF TabTypes, RefreshRec
  <2>5. QED
    BY <1>2, <2>4 DEF GetProduct, TabTypes
<1>3. ASSUME NEW c \in Caller, Apply(c) PROVE TabTypes'
  <2>1. refresh' \in [Caller -> RefreshRec] /\ UNCHANGED <<token, astray, clicks, faults>>
    BY <1>3, OverTyped DEF Apply, Over
  <2>2. CASE refresh[c].newest
    <3>1. refresh[c].data \in OrderSet
      BY DEF TabTypes, RefreshRec
    <3>2. upload' \in [File -> Stage]
      BY <1>3, <2>2 DEF Apply, TabTypes, Stage
    <3>3. QED
      BY <1>3, <2>1, <2>2, <3>1, <3>2 DEF Apply, TabTypes
  <2>3. CASE ~refresh[c].newest
    BY <1>3, <2>1, <2>3 DEF Apply, TabTypes
  <2>4. QED
    BY <2>2, <2>3
<1>4. ASSUME NEW f \in File, NEW b \in {"good", "bad"}, Put(f, b) PROVE TabTypes'
  <2>1. call[f].img \in Image \cup {NoImage}
    BY DEF CoreTypes, CallRec
  <2>2. QED
    BY <1>4, <2>1 DEF Put, Moves, TabTypes, Stage
<1>5. ASSUME NEW f \in File, Confirmed(f) PROVE TabTypes'
  BY <1>5 DEF Confirmed, Moves, TabTypes, Stage
<1>6. ASSUME NEW f \in File, BatchSettled(f) PROVE TabTypes'
  BY <1>6, IssueTyped DEF BatchSettled, TabTypes
<1>7. ASSUME NEW c \in Image, CardAnswered(c) PROVE TabTypes'
  BY <1>7, IssueTyped DEF CardAnswered, TabTypes
<1>8. ASSUME NEW c \in Caller, RefreshFails(c) PROVE TabTypes'
  <2>1. refresh' \in [Caller -> RefreshRec] /\ UNCHANGED <<token, astray, clicks, grid>>
    BY <1>8, OverTyped DEF RefreshFails, Over
  <2>2. faults' \in 0..MaxFaults
    BY <1>8, FaultTyped DEF RefreshFails
  <2>3. upload' \in [File -> Stage] /\ listStale' \in BOOLEAN
    BY <1>8 DEF RefreshFails, TabTypes, Stage
  <2>4. QED
    BY <2>1, <2>2, <2>3 DEF TabTypes
<1>9. ASSUME NEW c \in Caller, RefreshAgain(c) PROVE TabTypes'
  BY <1>9, IssueTyped DEF RefreshAgain, TabTypes
<1>10. ASSUME NEW c \in Caller, ServerError(c) PROVE TabTypes'
  BY <1>10, FaultTyped DEF ServerError, TabTypes
<1>11. ASSUME NEW f \in File, Upload(f) PROVE TabTypes'
  BY <1>11 DEF Upload, Moves, TabTypes, Stage
<1>12. ASSUME NEW f \in File, UploadFails(f) PROVE TabTypes'
  <2>1. upload' \in [File -> Stage]
    BY <1>12 DEF UploadFails, Moves, TabTypes, Stage
  <2>2. faults' \in 0..MaxFaults /\ astray' \in BOOLEAN
    BY <1>12, FaultTyped DEF UploadFails, TabTypes
  <2>3. QED
    BY <1>12, <2>1, <2>2 DEF UploadFails, TabTypes
<1>13. ASSUME NEW i \in Image, Remove(i) \/ SaveAlt(i) \/ \E j \in Image : Move(i, j) PROVE TabTypes'
  <2>1. clicks' \in 0..MaxClicks /\ UNCHANGED <<tabVars, faults>>
    BY <1>13, ClickTyped DEF Remove, SaveAlt, Move, CardUnchanged
  <2>2. QED
    BY <2>1 DEF TabTypes, tabVars
<1>14. ASSUME NEW i \in Image, CardFails(i) PROVE TabTypes'
  <2>1. faults' \in 0..MaxFaults /\ astray' \in BOOLEAN
    BY <1>14, FaultTyped DEF CardFails, TabTypes
  <2>2. QED
    BY <1>14, <2>1 DEF CardFails, TabTypes
<1>15. ASSUME NEW c \in Other, OtherActs(c) PROVE TabTypes'
  <2>1. clicks' \in 0..MaxClicks /\ astray' \in BOOLEAN
    BY <1>15, ClickTyped DEF OtherActs, TabTypes
  <2>2. QED
    BY <1>15, <2>1 DEF OtherActs, TabTypes
<1>16. ASSUME NEW c \in Other, OtherAnswered(c) PROVE TabTypes'
  BY <1>16 DEF OtherAnswered, TabTypes, tabVars
<1>17. ASSUME UNCHANGED <<tabVars, clicks, faults>> PROVE TabTypes'
  BY <1>17 DEF TabTypes, tabVars
<1>18. CASE UNCHANGED vars
  BY <1>17, <1>18 DEF vars
<1>19. CASE Next
  BY <1>1, <1>2, <1>3, <1>4, <1>5, <1>6, <1>7, <1>8, <1>9, <1>10, <1>11, <1>12, <1>13, <1>14, <1>15,
     <1>16, <1>17, <1>19 DEF Next, TabStep
<1>20. QED
  BY <1>18, <1>19

-----------------------------------------------------------------------------
(* A step of core keeps the operation of its call, and the rows that wait. *)
LEMMA CoreKeeps ==
  ASSUME Typed, NEW c \in Caller, CoreStep(c), NextPosition \in Nat,
         With("none") # {} => NextImage \in Image
  PROVE  /\ call' \in [Caller -> CallRec] /\ \A d \in Caller \ {c} : call'[d] = call[d]
         /\ call'[c].op = call[c].op
         /\ call'[c].op \in {"confirm", "delete", "alt"} => call'[c].img = call[c].img
         /\ At(c, "upload", "ok")' \/ At(c, "upload", "drop")' => call'[c].img \in Image
         /\ call'[c].at \notin {"idle", "start", "settled", "refreshing"}
<1> USE DEF Typed
<1>1. CASE FindStale(c)
  BY <1>1, FindStaleDoes DEF FindStale, At, Becomes
<1>2. ASSUME NEW i \in Image, SweepRow(c, i) PROVE At(c, "upload", "sweep")
  BY <1>2 DEF SweepRow
<1>3. CASE \E i \in Image : SweepRow(c, i)
  BY <1>2, <1>3, SweepRowDoes DEF At, Becomes
<1>4. CASE SweepObject(c)
  BY <1>4, SweepObjectDoes DEF SweepObject, At, Becomes
<1>5. CASE LockProduct(c)
  BY <1>5, LockProductDoes DEF LockProduct, Swept, At, Becomes
<1>6. CASE InsertPending(c)
  BY <1>6, InsertPendingDoes DEF InsertPending, At, Becomes
<1>7. CASE CheckObject(c)
  BY <1>7, CheckObjectDoes DEF CheckObject, At, Becomes
<1>8. CASE MakeReady(c)
  BY <1>8, MakeReadyDoes DEF MakeReady, At, Becomes
<1>9. CASE RejectObject(c)
  BY <1>9, RejectObjectDoes DEF RejectObject, At, Becomes
<1>10. CASE RejectRow(c)
  BY <1>10, RejectRowDoes DEF RejectRow, At, Becomes
<1>11. CASE CheckOrder(c)
  BY <1>11, CheckOrderDoes DEF CheckOrder, At, Becomes
<1>12. CASE WriteOrder(c)
  BY <1>12, WriteOrderDoes DEF WriteOrder, At, Becomes
<1>13. CASE ReadRemaining(c)
  BY <1>13, ReadRemainingDoes DEF ReadRemaining, At, Becomes
<1>14. CASE WriteDelete(c)
  BY <1>14, WriteDeleteDoes DEF WriteDelete, At, Becomes
<1>15. CASE DeleteObject(c)
  BY <1>15, DeleteObjectDoes DEF DeleteObject, At, Becomes
<1>16. CASE WriteAlt(c)
  BY <1>16, WriteAltDoes DEF WriteAlt, At, Becomes
<1>17. QED
  BY <1>1, <1>3, <1>4, <1>5, <1>6, <1>7, <1>8, <1>9, <1>10, <1>11, <1>12, <1>13, <1>14, <1>15, <1>16
     DEF CoreStep

(* A file's stage and its call change together. *)
LEMMA FileRoles ==
  ASSUME Typed, [Next]_vars, NEW f \in File, NextPosition \in Nat,
         With("none") # {} => NextImage \in Image
  PROVE  FileRole(f)'
<1> USE CallersAre DEF Typed
<1>a. ASSUME call'[f] = call[f], upload'[f] = upload[f] \/ upload'[f] \notin {"uploading", "confirming"}
      PROVE  FileRole(f)'
  BY <1>a DEF Roles, FileRole
<1>b. f \notin Image /\ f \notin Other /\ f \in Caller
  BY TabAssumption
<1>1. ASSUME NEW c \in Caller, Core(c) PROVE FileRole(f)'
  <2>1. upload' = upload /\ CoreStep(c)
    BY <1>1 DEF Core, tabVars
  <2>2. CASE c = f
    BY <2>1, <2>2, CoreKeeps DEF Roles, FileRole
  <2>3. CASE c # f
    BY <2>1, <2>3, <1>a, <1>b, CoreKeeps
  <2>4. QED
    BY <2>2, <2>3
<1>c. ASSUME NEW c \in Caller, Over(c) PROVE call'[f] = call[f]
  BY <1>c, <1>b DEF Over, CoreTypes
<1>2. ASSUME NEW c \in Caller, GetProduct(c) PROVE FileRole(f)'
  BY <1>2, <1>a DEF GetProduct, coreVars
<1>3. ASSUME NEW c \in Caller, Apply(c) PROVE FileRole(f)'
  <2>1. upload'[f] = upload[f] \/ upload'[f] = "cleared"
    BY <1>3 DEF Apply, TabTypes
  <2>2. QED
    BY <1>3, <2>1, <1>a, <1>c DEF Apply
<1>4. ASSUME NEW g \in File, NEW b \in {"good", "bad"}, Put(g, b) PROVE FileRole(f)'
  <2>1. Becomes(g, "confirm", "start", call[g].img, 0, <<>>, {})
    BY <1>4, RequestBecomes, EmptyOrder DEF Put, Op, CoreTypes, CallRec
  <2>2. upload' = [upload EXCEPT ![g] = "confirming"]
    BY <1>4 DEF Put, Moves
  <2>3. QED
    BY <2>1, <2>2, <1>a, <1>b DEF Becomes, TabTypes, FileRole
<1>5. ASSUME NEW g \in File, Confirmed(g) PROVE FileRole(f)'
  <2>1. upload' = [upload EXCEPT ![g] = "saved"] /\ call' = [call EXCEPT ![g].at = "settled"]
    BY <1>5 DEF Confirmed, Moves, Goes
  <2>2. CASE g = f
    BY <2>1, <2>2 DEF TabTypes, FileRole
  <2>3. CASE g # f
    BY <2>1, <2>3, <1>a, <1>b DEF CoreTypes, TabTypes
  <2>4. QED
    BY <2>2, <2>3
<1>6. ASSUME NEW g \in File, BatchSettled(g) PROVE FileRole(f)'
  <2>1. upload' = upload /\ call' = [call EXCEPT ![g] = Idle] /\ call[g].at = "settled"
    BY <1>6 DEF BatchSettled, Done, At
  <2>2. CASE g = f
    BY <2>1, <2>2 DEF TabTypes, Roles, FileRole
  <2>3. CASE g # f
    BY <2>1, <2>3, <1>a, <1>b DEF CoreTypes, TabTypes
  <2>4. QED
    BY <2>2, <2>3
<1>7. ASSUME NEW c \in Image, CardAnswered(c) PROVE FileRole(f)'
  BY <1>7, <1>a, <1>b DEF CardAnswered, Goes, CoreTypes
<1>8. ASSUME NEW c \in Caller, RefreshFails(c) PROVE FileRole(f)'
  <2>1. upload'[f] = upload[f] \/ upload'[f] = "refresh-error"
    BY <1>8 DEF RefreshFails, TabTypes
  <2>2. QED
    BY <1>8, <2>1, <1>a, <1>c DEF RefreshFails
<1>9. ASSUME NEW c \in Caller, RefreshAgain(c) PROVE FileRole(f)'
  BY <1>9, <1>a DEF RefreshAgain, coreVars
<1>10. ASSUME NEW c \in Caller, ServerError(c) PROVE FileRole(f)'
  <2>1. Becomes(c, call[c].op, "failed", call[c].img, 0, <<>>, {}) /\ upload' = upload
    BY <1>10, AnswerBecomes DEF ServerError, Place
  <2>2. CASE c = f
    BY <2>1, <2>2 DEF Becomes, Roles, FileRole
  <2>3. CASE c # f
    BY <2>1, <2>3, <1>a, <1>b DEF Becomes
  <2>4. QED
    BY <2>2, <2>3
<1>11. ASSUME NEW g \in File, Upload(g) PROVE FileRole(f)'
  <2>1. Becomes(g, "upload", "start", NoImage, 0, <<>>, {})
    BY <1>11, RequestBecomes, EmptyOrder DEF Upload, Op
  <2>2. upload' = [upload EXCEPT ![g] = "uploading"]
    BY <1>11 DEF Upload, Moves
  <2>3. QED
    BY <2>1, <2>2, <1>a, <1>b DEF Becomes, TabTypes, FileRole
<1>12. ASSUME NEW g \in File, UploadFails(g) PROVE FileRole(f)'
  <2>1. upload' = [upload EXCEPT ![g] = "error"] /\ call' = [call EXCEPT ![g] = Idle]
    BY <1>12 DEF UploadFails, Moves, Done
  <2>2. CASE g = f
    BY <2>1, <2>2 DEF TabTypes, FileRole
  <2>3. CASE g # f
    BY <2>1, <2>3, <1>a, <1>b DEF CoreTypes, TabTypes
  <2>4. QED
    BY <2>2, <2>3
<1>13. ASSUME NEW i \in Image, Remove(i) \/ SaveAlt(i) \/ CardFails(i) \/ \E j \in Image : Move(i, j)
       PROVE  FileRole(f)'
  <2>1. upload' = upload
    BY <1>13 DEF Remove, SaveAlt, CardFails, Move, CardUnchanged, tabVars
  <2>2. call'[f] = call[f]
    BY <1>13, <1>b DEF Remove, SaveAlt, CardFails, Move, Request, Done, CoreTypes
  <2>3. QED
    BY <2>1, <2>2, <1>a
<1>14. ASSUME NEW c \in Other, OtherActs(c) \/ OtherAnswered(c) PROVE FileRole(f)'
  <2>1. upload' = upload
    BY <1>14 DEF OtherActs, OtherAnswered, tabVars
  <2>2. call'[f] = call[f]
    BY <1>14, <1>b DEF OtherActs, OtherAnswered, Request, Done, CoreTypes
  <2>3. QED
    BY <2>1, <2>2, <1>a
<1>15. ASSUME call' = call, upload' = upload PROVE FileRole(f)'
  BY <1>15, <1>a
<1>16. CASE UNCHANGED vars
  BY <1>15, <1>16 DEF vars, coreVars, tabVars
<1>17. ASSUME NEW i \in Image, Age(i) /\ UNCHANGED <<tabVars, clicks, faults>> PROVE FileRole(f)'
  BY <1>15, <1>17 DEF Age, tabVars
<1>18. ASSUME NEW c \in Caller, TabStep(c) PROVE FileRole(f)'
  BY <1>2, <1>3, <1>4, <1>5, <1>6, <1>7, <1>18 DEF TabStep
<1>19. CASE Next
  BY <1>1, <1>8, <1>9, <1>10, <1>11, <1>12, <1>13, <1>14, <1>17, <1>18, <1>19 DEF Next
<1>20. QED
  BY <1>16, <1>19

-----------------------------------------------------------------------------
(* Ids and positions are chosen well. *)
LEMMA PhotosAre == Rows \in SUBSET Image /\ Created \in SUBSET Image /\ \A s : With(s) \in SUBSET Image
BY DEF Rows, Created, With

(* The id that is given to a new row is one that no row has.               *)
LEMMA NextImageIsFree ==
  ASSUME With("none") # {}
  PROVE  NextImage \in With("none")
<1>1. With("none") \in SUBSET Nat
  BY ImagesAssumption DEF With
<1>2. \E i \in With("none") : \A j \in With("none") : i <= j
  BY <1>1, LeastExists
<1>3. QED
  BY <1>2 DEF NextImage

(* The next position is the first above those in use. *)
LEMMA NextPositionFacts ==
  ASSUME CoreTypes
  PROVE  /\ NextPosition \in Nat
         /\ \A i \in Rows : row[i].pos \in Nat /\ row[i].pos < NextPosition
         /\ NextPosition # 0 => \E i \in Rows : NextPosition = row[i].pos + 1
<1>1. CASE Rows = {}
  BY <1>1 DEF NextPosition
<1>2. CASE Rows # {}
  <2> DEFINE T == {row[i].pos : i \in Rows}
  <2>1. Cardinality(Image) \in Nat
    BY Parts
  <2>2. \A i \in Rows : row[i].pos \in Nat /\ row[i].pos <= Cardinality(Image)
    BY <2>1, PhotosAre DEF CoreTypes, Row
  <2>3. T \in SUBSET Nat /\ T # {} /\ \A x \in T : x <= Cardinality(Image)
    BY <1>2, <2>2
  <2> HIDE DEF T
  <2>4. \E p \in T : \A q \in T : q <= p
    BY <2>1, <2>3, GreatestExists
  <2>5. \E p \in T : \A i \in Rows : row[i].pos <= p
    BY <2>4 DEF T
  <2>6. PICK p \in T : (\A i \in Rows : row[i].pos <= p) /\ NextPosition = 1 + p
    BY <1>2, <2>5 DEF NextPosition, T
  <2>7. PICK i \in Rows : p = row[i].pos
    BY DEF T
  <2>8. QED
    BY <2>2, <2>6, <2>7
<1>3. QED
  BY <1>1, <1>2

(* As positions differ, it is no lower than there are rows. *)
LEMMA NextPositionIsFar ==
  ASSUME CoreTypes, \A i, j \in Rows : i # j => row[i].pos # row[j].pos
  PROVE  Cardinality(Rows) <= NextPosition
<1> DEFINE f == [i \in Rows |-> row[i].pos]
<1>1. NextPosition \in Nat /\ \A i \in Rows : row[i].pos \in Nat /\ row[i].pos < NextPosition
  BY NextPositionFacts
<1>2. f \in [Rows -> 0 .. NextPosition - 1]
  BY <1>1
<1>3. f \in Injection(Rows, 0 .. NextPosition - 1)
  BY <1>2 DEF Injection, IsInjective
<1>4. IsFiniteSet(0 .. NextPosition - 1) /\ Cardinality(0 .. NextPosition - 1) = NextPosition
  BY <1>1, FS_Interval
<1>5. QED
  BY <1>3, <1>4, FS_Injection

-----------------------------------------------------------------------------
(* A step that creates no photo: rows may leave, and those that stay keep  *)
(* their positions or get new ones below the number of rows.               *)
Settles ==
  /\ \A i \in Image : row'[i].status = "none" <=> row[i].status = "none"
  /\ \A i \in Image : row'[i].status \in {"pending", "ready"} =>
       /\ row[i].status \in {"pending", "ready"}
       /\ row'[i].pos = row[i].pos \/ row'[i].pos < Cardinality(Rows)
  /\ \A i \in Image : row[i].status \in {"ready", "gone"} => row'[i].status \in {"ready", "gone"}
  /\ \A i, j \in Rows' : i # j => row'[i].pos # row'[j].pos

(* In such a step no call gets to where Positions speaks of it, but an     *)
(* order that was checked against the photos.                              *)
NoneArrives ==
  \A d \in Caller :
    /\ At(d, "upload", "insert")' =>
         At(d, "upload", "insert") /\ call'[d].pos = call[d].pos /\ lock' = {d}
    /\ At(d, "reorder", "write")' =>
         \/ At(d, "reorder", "write") /\ call'[d].order = call[d].order
         \/ DOMAIN call'[d].order = With("ready") /\ row' = row

(* Positions stay few and distinct if rows are only removed or numbered    *)
(* anew.                                                                   *)
LEMMA SettlingKeepsPositions ==
  ASSUME CoreTypes, CoreTypes', Positions, Settles, NoneArrives
  PROVE  Positions'
<1>1. Rows' \in SUBSET Rows /\ Created' = Created
  BY DEF Settles, Rows, Created, With
<1>2. /\ Cardinality(Rows) \in Nat /\ Cardinality(Created) \in Nat
      /\ Cardinality(Rows') <= Cardinality(Rows) /\ Cardinality(Rows) <= Cardinality(Created)
      /\ Cardinality(Rows') \in Nat
  <2>1. Rows \in SUBSET Created
    BY DEF Rows, Created, With
  <2>2. QED
    BY <1>1, <2>1, PhotosAre, Parts
<1>3. ASSUME NEW i \in Rows'
      PROVE  /\ i \in Rows /\ row[i].pos \in Nat /\ row'[i].pos \in Nat
             /\ row'[i].pos = row[i].pos \/ row'[i].pos < Cardinality(Rows)
  BY <1>1 DEF Settles, Rows, With, CoreTypes, Row
<1>4. ASSUME NEW i \in Rows' PROVE row'[i].pos < Cardinality(Created')
  BY <1>1, <1>2, <1>3 DEF Positions
<1>5. ASSUME NEW d \in Caller, At(d, "upload", "insert")'
      PROVE  /\ lock' = {d} /\ call'[d].pos <= Cardinality(Created')
             /\ Cardinality(Rows') <= call'[d].pos
             /\ \A i \in Rows' : row'[i].pos < call'[d].pos
  <2>1. At(d, "upload", "insert") /\ call'[d].pos = call[d].pos /\ lock' = {d}
    BY <1>5 DEF NoneArrives
  <2>2. call[d].pos \in Nat
    BY DEF CoreTypes, CallRec
  <2>3. /\ call[d].pos <= Cardinality(Created) /\ Cardinality(Rows) <= call[d].pos
        /\ \A i \in Rows : row[i].pos < call[d].pos
    BY <2>1 DEF Positions
  <2>4. ASSUME NEW i \in Rows' PROVE row'[i].pos < call'[d].pos
    BY <1>2, <1>3, <2>1, <2>2, <2>3
  <2>5. QED
    BY <1>1, <1>2, <2>1, <2>2, <2>3, <2>4
<1>6. ASSUME NEW d \in Caller, At(d, "reorder", "write")', NEW i \in DOMAIN call'[d].order
      PROVE  row'[i].status \in {"ready", "gone"}
  <2>1. CASE At(d, "reorder", "write") /\ call'[d].order = call[d].order
    <3>1. i \in Image
      BY OrderFacts DEF CoreTypes, CallRec
    <3>2. row[i].status \in {"ready", "gone"}
      BY <2>1, <1>6 DEF Positions
    <3>3. QED
      BY <3>1, <3>2 DEF Settles
  <2>2. CASE DOMAIN call'[d].order = With("ready") /\ row' = row
    BY <2>2, <1>6 DEF With
  <2>3. QED
    BY <1>6, <2>1, <2>2 DEF NoneArrives
<1>7. \A i, j \in Rows' : i # j => row'[i].pos # row'[j].pos
  BY DEF Settles
<1>8. QED
  BY <1>4, <1>5, <1>6, <1>7 DEF Positions

(* Rows that do not change, and rows one of which leaves or is saved. *)
LEMMA SameRowsSettle ==
  ASSUME Positions, row' = row
  PROVE  Settles
BY DEF Settles, Positions, Rows, With

(* One row that becomes ready, older or gone is such a change.             *)
LEMMA OneRowSettles ==
  ASSUME CoreTypes, Positions, NEW i \in Image, row' \in [Image -> Row],
         \A j \in Image \ {i} : row'[j] = row[j],
         \/ row[i].status = "pending" /\ row'[i].status = "gone"
         \/ /\ row[i].status \in {"pending", "ready"} /\ row'[i].pos = row[i].pos
            /\ row'[i].status = "ready" \/ row'[i].status = row[i].status
  PROVE  Settles
BY DEF Settles, Positions, Rows, With, CoreTypes

(* No position is written that is not below the number of rows. *)
LEMMA RenumberedRows ==
  ASSUME CoreTypes, NEW new, DOMAIN new \subseteq Rows,
         \A i \in DOMAIN new : new[i] \in Nat /\ new[i] < Cardinality(Rows)
  PROVE  /\ Renumbered(new) \in [Image -> Row]
         /\ \A i \in Image :
              /\ Renumbered(new)[i].status = row[i].status
              /\ \/ Renumbered(new)[i].pos = row[i].pos
                 \/ Renumbered(new)[i].pos < Cardinality(Rows)
<1>1. /\ Cardinality(Rows) <= Cardinality(Image) /\ Cardinality(Rows) \in Nat
      /\ Cardinality(Image) \in Nat
  BY PhotosAre, Parts
<1>2. ASSUME NEW i \in Image
      PROVE  /\ Renumbered(new)[i] \in Row /\ Renumbered(new)[i].status = row[i].status
             /\ \/ Renumbered(new)[i].pos = row[i].pos
                \/ Renumbered(new)[i].pos < Cardinality(Rows)
  <2>1. row[i] \in Row
    BY DEF CoreTypes
  <2>2. CASE i \in DOMAIN new
    <3>1. Renumbered(new)[i] = [row[i] EXCEPT !.pos = new[i]]
      BY <2>2 DEF Renumbered
    <3>2. new[i] \in 0 .. Cardinality(Image) - 1 /\ new[i] < Cardinality(Rows)
      BY <1>1, <2>2
    <3>3. QED
      BY <2>1, <3>1, <3>2 DEF Row
  <2>3. CASE i \notin DOMAIN new
    BY <2>1, <2>3 DEF Renumbered
  <2>4. QED
    BY <2>2, <2>3
<1>3. Renumbered(new) \in [Image -> Row]
  BY <1>2 DEF Renumbered
<1>4. QED
  BY <1>2, <1>3

LEMMA GoneRow == Gone \in Row /\ Gone.status = "gone"
<1>1. Cardinality(Image) \in Nat /\ Cardinality(Image) > 0
  BY Parts
<1>2. 0 \in 0 .. Cardinality(Image) - 1
  BY <1>1
<1>3. NoRow \in Row
  BY <1>2 DEF NoRow, Row
<1>4. QED
  BY <1>3 DEF Gone, Row

(* So is a transaction that numbers rows anew and commits.                 *)
LEMMA ReorderSettles ==
  ASSUME CoreTypes, Positions, NEW new, DOMAIN new \subseteq Rows,
         \A i \in DOMAIN new : new[i] \in Nat /\ new[i] < Cardinality(Rows),
         row' = Renumbered(new), ~Collide(Renumbered(new))
  PROVE  row' \in [Image -> Row] /\ Settles
<1>1. /\ row' \in [Image -> Row]
      /\ \A i \in Image : /\ row'[i].status = row[i].status
                          /\ row'[i].pos = row[i].pos \/ row'[i].pos < Cardinality(Rows)
  BY RenumberedRows
<1>2. \A i, j \in Rows' : i # j => row'[i].pos # row'[j].pos
  BY DEF Collide, Rows, With
<1>3. QED
  BY <1>1, <1>2 DEF Settles

(* And one that removes a row besides.                                     *)
LEMMA DeleteSettles ==
  ASSUME CoreTypes, Positions, NEW new, NEW k \in Rows, DOMAIN new \subseteq Rows,
         \A i \in DOMAIN new : new[i] \in Nat /\ new[i] < Cardinality(Rows),
         row' = [Renumbered(new) EXCEPT ![k] = Gone], ~Collide([Renumbered(new) EXCEPT ![k] = Gone])
  PROVE  row' \in [Image -> Row] /\ Settles
<1>1. /\ Renumbered(new) \in [Image -> Row]
      /\ \A i \in Image :
              /\ Renumbered(new)[i].status = row[i].status
              /\ \/ Renumbered(new)[i].pos = row[i].pos
                 \/ Renumbered(new)[i].pos < Cardinality(Rows)
  BY RenumberedRows
<1>2. k \in Image /\ row[k].status \in {"pending", "ready"}
  BY DEF Rows, With
<1>3. row' \in [Image -> Row] /\ row'[k] = Gone /\ \A i \in Image \ {k} : row'[i] = Renumbered(new)[i]
  BY <1>1, <1>2, GoneRow
<1>4. \A i, j \in Rows' : i # j => row'[i].pos # row'[j].pos
  BY DEF Collide, Rows, With
<1>5. QED
  BY <1>1, <1>2, <1>3, <1>4, GoneRow DEF Settles

(* The order that is written has the pending rows after all others. *)
LEMMA NewOrderFits ==
  ASSUME CoreTypes, NEW order \in OrderSet, DOMAIN order \subseteq With("ready")
  PROVE  /\ DOMAIN NewOrder(order) = DOMAIN order \cup With("pending")
         /\ DOMAIN NewOrder(order) \subseteq Rows
         /\ \A i \in DOMAIN NewOrder(order) :
              NewOrder(order)[i] \in Nat /\ NewOrder(order)[i] < Cardinality(Rows)
         /\ \A i \in DOMAIN order : NewOrder(order)[i] = order[i]
<1> DEFINE D == DOMAIN order
           P == With("pending")
<1>1. D \in SUBSET Rows /\ P \in SUBSET Rows /\ D \cap P = {} /\ Rows \in SUBSET Image
  BY PhotosAre DEF Rows, With
<1>2. Cardinality(D) + Cardinality(P) <= Cardinality(Rows)
  BY <1>1, DisjointParts
<1>3. Cardinality(D) \in Nat /\ Cardinality(P) \in Nat /\ Cardinality(Rows) \in Nat
  BY <1>1, Parts
<1>4. /\ \A i \in D : order[i] \in Nat /\ order[i] < Cardinality(D)
      /\ \A i \in P : Ranks(P)[i] \in Nat /\ Ranks(P)[i] < Cardinality(P)
      /\ DOMAIN Ranks(P) = P
  BY <1>1, OrderFacts, RankFacts DEF CoreTypes
<1> HIDE DEF P
<1>5. NewOrder(order) =
        [i \in D \cup P |-> IF i \in D THEN order[i] ELSE Cardinality(D) + Ranks(P)[i]]
  BY <1>4 DEF NewOrder, P
<1>6. ASSUME NEW i \in D \cup P
      PROVE  NewOrder(order)[i] \in Nat /\ NewOrder(order)[i] < Cardinality(Rows)
  BY <1>2, <1>3, <1>4, <1>5
<1>7. QED
  BY <1>1, <1>5, <1>6 DEF P

(* One call moves, the lock is not taken, and no photo gets a position. *)
LEMMA OneCallArrives ==
  ASSUME Positions, NEW c \in Caller, \A d \in Caller \ {c} : call'[d] = call[d],
         lock' = lock \/ lock' = lock \ {c}, ~At(c, "upload", "insert")',
         At(c, "reorder", "write")' => DOMAIN call'[c].order = With("ready") /\ row' = row
  PROVE  NoneArrives
<1>1. ASSUME NEW d \in Caller, At(d, "upload", "insert")'
      PROVE  At(d, "upload", "insert") /\ call'[d].pos = call[d].pos /\ lock' = {d}
  <2>1. d # c /\ call'[d] = call[d]
    BY <1>1
  <2>2. At(d, "upload", "insert")
    BY <1>1, <2>1 DEF At
  <2>3. QED
    BY <2>1, <2>2 DEF Positions
<1>2. ASSUME NEW d \in Caller, At(d, "reorder", "write")'
      PROVE  \/ At(d, "reorder", "write") /\ call'[d].order = call[d].order
             \/ DOMAIN call'[d].order = With("ready") /\ row' = row
  BY <1>2 DEF At
<1>3. QED
  BY <1>1, <1>2 DEF NoneArrives

(* So for every step of core but the two that take a position. *)
LEMMA CoreSettles ==
  ASSUME Typed, Positions, NEW c \in Caller, CoreStep(c), ~LockProduct(c), ~InsertPending(c)
  PROVE  CoreTypes' /\ Settles /\ NoneArrives
<1> USE DEF Typed
<1>a. ASSUME call' \in [Caller -> CallRec], row' \in [Image -> Row], lock' = lock,
             object' = object \/ \E i : object' = [object EXCEPT ![i] = "none"]
      PROVE  CoreTypes'
  BY <1>a DEF CoreTypes
<1>b. row \in [Image -> Row] /\ (row' = row => Settles)
  BY SameRowsSettle DEF CoreTypes
<1>1. CASE FindStale(c)
  <2>1. Becomes(c, "upload", "sweep", call[c].img, call[c].pos, call[c].order, Stale)
    BY <1>1, FindStaleDoes
  <2>2. NoneArrives
    BY <2>1, <1>1, OneCallArrives DEF FindStale, Becomes, At
  <2>3. QED
    BY <1>1, <2>1, <2>2, <1>a, <1>b DEF FindStale, Becomes
<1>2. ASSUME NEW i \in Image, SweepRow(c, i) PROVE CoreTypes' /\ Settles /\ NoneArrives
  <2>1. CASE row[i].status = "pending" /\ row' = [row EXCEPT ![i] = Gone]
    <3>1. row' \in [Image -> Row] /\ Settles
      BY <2>1, <1>b, GoneRow, OneRowSettles
    <3>2. Becomes(c, "upload", "drop", i, call[c].pos, call[c].order, call[c].todo \ {i})
      BY <2>1, <1>2, SweepRowDoes
    <3>3. NoneArrives
      BY <3>2, <1>2, OneCallArrives DEF SweepRow, Becomes, At
    <3>4. QED
      BY <1>2, <3>1, <3>2, <3>3, <1>a DEF SweepRow, Becomes
  <2>2. CASE row[i].status # "pending"
    <3>1. /\ row' = row
          /\ Becomes(c, "upload", "sweep", call[c].img, call[c].pos, call[c].order, call[c].todo \ {i})
      BY <2>2, <1>2, SweepRowDoes
    <3>2. NoneArrives
      BY <3>1, <1>2, OneCallArrives DEF SweepRow, Becomes, At
    <3>3. QED
      BY <1>2, <3>1, <3>2, <1>a, <1>b DEF SweepRow, Becomes
  <2>3. QED
    BY <1>2, <2>1, <2>2 DEF SweepRow
<1>3. CASE SweepObject(c)
  <2>1. Becomes(c, "upload", "sweep", NoImage, call[c].pos, call[c].order, call[c].todo)
    BY <1>3, SweepObjectDoes
  <2>2. NoneArrives
    BY <2>1, <1>3, OneCallArrives DEF SweepObject, Becomes, At
  <2>3. QED
    BY <1>3, <2>1, <2>2, <1>a, <1>b DEF SweepObject, Becomes
<1>4. CASE CheckObject(c)
  <2>1. PICK a \in {"ok", "failed", "ready", "reject"} :
          Becomes(c, "confirm", a, call[c].img, call[c].pos, call[c].order, call[c].todo)
    BY <1>4, CheckObjectDoes
  <2>2. NoneArrives
    BY <2>1, <1>4, OneCallArrives DEF CheckObject, Becomes, At
  <2>3. QED
    BY <1>4, <2>1, <2>2, <1>a, <1>b DEF CheckObject, Becomes
<1>5. CASE MakeReady(c)
  <2>1. CASE call[c].img \in Rows /\ row' = [row EXCEPT ![call[c].img].status = "ready"]
    <3>1. PICK i \in Image : i = call[c].img /\ row[i].status \in {"pending", "ready"}
      BY <2>1 DEF Rows, With
    <3>2. row' \in [Image -> Row] /\ row'[i].pos = row[i].pos /\ row'[i].status = "ready"
      BY <1>b, <2>1, <3>1 DEF Row
    <3>3. \A j \in Image \ {i} : row'[j] = row[j]
      BY <1>b, <2>1, <3>1
    <3>4. Settles
      BY <3>1, <3>2, <3>3, OneRowSettles
    <3>5. Becomes(c, "confirm", "ok", call[c].img, 0, <<>>, {})
      BY <2>1, <1>5, MakeReadyDoes
    <3>6. NoneArrives
      BY <3>5, <1>5, OneCallArrives DEF MakeReady, Becomes, At
    <3>7. QED
      BY <1>5, <3>2, <3>4, <3>5, <3>6, <1>a DEF MakeReady, Becomes
  <2>2. CASE call[c].img \notin Rows
    <3>1. row' = row /\ Becomes(c, "confirm", "failed", call[c].img, 0, <<>>, {})
      BY <2>2, <1>5, MakeReadyDoes
    <3>2. NoneArrives
      BY <3>1, <1>5, OneCallArrives DEF MakeReady, Becomes, At
    <3>3. QED
      BY <1>5, <3>1, <3>2, <1>a, <1>b DEF MakeReady, Becomes
  <2>3. QED
    BY <1>5, <2>1, <2>2 DEF MakeReady
<1>6. CASE RejectObject(c)
  <2>1. Becomes(c, "confirm", "rejectRow", call[c].img, call[c].pos, call[c].order, call[c].todo)
    BY <1>6, RejectObjectDoes
  <2>2. NoneArrives
    BY <2>1, <1>6, OneCallArrives DEF RejectObject, Becomes, At
  <2>3. QED
    BY <1>6, <2>1, <2>2, <1>a, <1>b DEF RejectObject, Becomes
<1>7. CASE RejectRow(c)
  <2>1. Becomes(c, "confirm", "failed", call[c].img, 0, <<>>, {})
    BY <1>7, RejectRowDoes
  <2>2. NoneArrives
    BY <2>1, <1>7, OneCallArrives DEF RejectRow, Becomes, At
  <2>3. row' \in [Image -> Row] /\ Settles
    <3>1. PICK i \in Image : i = call[c].img
      BY <1>7 DEF RejectRow, At, Roles
    <3>2. CASE row[i].status = "pending"
      <4>1. row' = [row EXCEPT ![i] = Gone]
        BY <1>7, <3>1, <3>2 DEF RejectRow
      <4>2. QED
        BY <3>2, <4>1, <1>b, GoneRow, OneRowSettles
    <3>3. CASE row[i].status # "pending"
      BY <1>7, <3>1, <3>3, <1>b DEF RejectRow
    <3>4. QED
      BY <3>2, <3>3
  <2>4. QED
    BY <1>7, <2>1, <2>2, <2>3, <1>a DEF RejectRow, Becomes
<1>8. CASE CheckOrder(c)
  <2>1. \/ /\ DOMAIN call[c].order = With("ready")
           /\ Becomes(c, "reorder", "write", call[c].img, call[c].pos, call[c].order, call[c].todo)
        \/ Becomes(c, "reorder", "stale", call[c].img, 0, <<>>, {})
    BY <1>8, CheckOrderDoes
  <2>2. NoneArrives
    BY <2>1, <1>8, OneCallArrives DEF CheckOrder, Becomes, At
  <2>3. QED
    BY <1>8, <2>1, <2>2, <1>a, <1>b DEF CheckOrder, Becomes
<1>9. CASE WriteOrder(c)
  <2>1. \/ Becomes(c, "reorder", "ok", call[c].img, 0, <<>>, {})
        \/ Becomes(c, "reorder", "failed", call[c].img, 0, <<>>, {})
    BY <1>9, WriteOrderDoes
  <2>2. NoneArrives
    BY <2>1, <1>9, OneCallArrives DEF WriteOrder, Becomes, At
  <2>3. row' \in [Image -> Row] /\ Settles
    <3>1. CASE /\ row' = Renumbered(NewOrder(call[c].order)) /\ DOMAIN call[c].order \subseteq Rows
               /\ ~Collide(Renumbered(NewOrder(call[c].order)))
      <4>1. call[c].order \in OrderSet
        BY DEF CoreTypes, CallRec
      <4>2. DOMAIN call[c].order \subseteq With("ready")
        BY <1>9, <3>1 DEF WriteOrder, Positions, Rows, With
      <4>3. PICK new : new = NewOrder(call[c].order)
        OBVIOUS
      <4>4. /\ DOMAIN new \subseteq Rows
            /\ \A i \in DOMAIN new : new[i] \in Nat /\ new[i] < Cardinality(Rows)
        BY <4>1, <4>2, <4>3, NewOrderFits
      <4>5. QED
        BY <3>1, <4>3, <4>4, ReorderSettles
    <3>2. CASE row' = row
      BY <3>2, <1>b
    <3>3. QED
      BY <1>9, <3>1, <3>2, WriteOrderDoes
  <2>4. QED
    BY <1>9, <2>1, <2>2, <2>3, <1>a DEF WriteOrder, Becomes
<1>10. CASE ReadRemaining(c)
  <2>1. \/ Becomes(c, "delete", "write", call[c].img, call[c].pos, Ranks(Rows \ {call[c].img}),
                    call[c].todo)
        \/ Becomes(c, "delete", "stale", call[c].img, call[c].pos, call[c].order, call[c].todo)
    BY <1>10, ReadRemainingDoes
  <2>2. NoneArrives
    BY <2>1, <1>10, OneCallArrives DEF ReadRemaining, Becomes, At
  <2>3. QED
    BY <1>10, <2>1, <2>2, <1>a, <1>b DEF ReadRemaining, Becomes
<1>11. CASE WriteDelete(c)
  <2>1. \/ Becomes(c, "delete", "dropDeleted", call[c].img, 0, <<>>, {})
        \/ Becomes(c, "delete", "failed", call[c].img, 0, <<>>, {})
    BY <1>11, WriteDeleteDoes
  <2>2. NoneArrives
    BY <2>1, <1>11, OneCallArrives DEF WriteDelete, Becomes, At
  <2>3. row' \in [Image -> Row] /\ Settles
    <3>1. PICK new \in OrderSet : new = call[c].order
      BY DEF CoreTypes, CallRec
    <3>2. PICK k : k = call[c].img
      OBVIOUS
    <3>3. CASE /\ row' = [Renumbered(new) EXCEPT ![k] = Gone]
               /\ ~Collide([Renumbered(new) EXCEPT ![k] = Gone])
               /\ {k} \cup DOMAIN new \subseteq Rows
      <4>1. Cardinality(DOMAIN new) <= Cardinality(Rows) /\ Cardinality(Rows) \in Nat
            /\ Cardinality(DOMAIN new) \in Nat
        BY <3>3, PhotosAre, Parts
      <4>2. \A i \in DOMAIN new : new[i] \in Nat /\ new[i] < Cardinality(Rows)
        BY <4>1, OrderFacts
      <4>3. QED
        BY <3>3, <4>2, DeleteSettles
    <3>4. CASE row' = row
      BY <3>4, <1>b
    <3>5. QED
      BY <1>11, <3>1, <3>2, <3>3, <3>4, WriteDeleteDoes
  <2>4. QED
    BY <1>11, <2>1, <2>2, <2>3, <1>a DEF WriteDelete, Becomes
<1>12. CASE DeleteObject(c)
  <2>1. Becomes(c, "delete", "ok", call[c].img, 0, <<>>, {})
    BY <1>12, DeleteObjectDoes
  <2>2. NoneArrives
    BY <2>1, <1>12, OneCallArrives DEF DeleteObject, Becomes, At
  <2>3. QED
    BY <1>12, <2>1, <2>2, <1>a, <1>b DEF DeleteObject, Becomes
<1>13. CASE WriteAlt(c)
  <2>1. PICK a \in {"ok", "stale"} : Becomes(c, "alt", a, call[c].img, 0, <<>>, {})
    BY <1>13, WriteAltDoes
  <2>2. NoneArrives
    BY <2>1, <1>13, OneCallArrives DEF WriteAlt, Becomes, At
  <2>3. QED
    BY <1>13, <2>1, <2>2, <1>a, <1>b DEF WriteAlt, Becomes
<1>14. QED
  BY <1>1, <1>2, <1>3, <1>4, <1>5, <1>6, <1>7, <1>8, <1>9, <1>10, <1>11, <1>12, <1>13 DEF CoreStep

(* The position that is taken is free until it is used. *)
LEMMA LockTakesPosition ==
  ASSUME Typed, Positions, NEW c \in Caller, LockProduct(c)
  PROVE  CoreTypes' /\ Positions'
<1>1. /\ NextPosition \in Nat /\ Cardinality(Rows) <= NextPosition
      /\ \A i \in Rows : row[i].pos \in Nat /\ row[i].pos < NextPosition
      /\ NextPosition # 0 => \E i \in Rows : NextPosition = row[i].pos + 1
  BY NextPositionFacts, NextPositionIsFar DEF Typed, Positions
<1>2. Cardinality(Created) \in Nat
  BY PhotosAre, Parts
<1>3. NextPosition <= Cardinality(Created)
  BY <1>1, <1>2 DEF Positions
<1>4. Becomes(c, "upload", "insert", call[c].img, NextPosition, call[c].order, call[c].todo)
  BY <1>1, LockProductDoes DEF Typed
<1>5. lock = {} /\ lock' = {c} /\ row' = row /\ object' = object
  BY DEF LockProduct, Free
<1>6. Rows' = Rows /\ Created' = Created
  BY <1>5 DEF Rows, Created, With
<1>7. CoreTypes'
  BY <1>4, <1>5 DEF Becomes, CoreTypes, Typed
<1>8. ASSUME NEW d \in Caller, At(d, "upload", "insert")'
      PROVE  /\ lock' = {d} /\ call'[d].pos <= Cardinality(Created')
             /\ Cardinality(Rows') <= call'[d].pos
             /\ \A i \in Rows' : row'[i].pos < call'[d].pos
  <2>1. CASE d = c
    BY <1>1, <1>3, <1>4, <1>5, <1>6, <2>1 DEF Becomes
  <2>2. CASE d # c
    <3>1. At(d, "upload", "insert")
      BY <1>4, <1>8, <2>2 DEF Becomes, At
    <3>2. QED
      BY <1>5, <3>1 DEF Positions
  <2>3. QED
    BY <2>1, <2>2
<1>9. ASSUME NEW d \in Caller, At(d, "reorder", "write")', NEW i \in DOMAIN call'[d].order
      PROVE  row'[i].status \in {"ready", "gone"}
  <2>1. d # c /\ call'[d] = call[d]
    BY <1>4, <1>9 DEF Becomes, At
  <2>2. QED
    BY <2>1, <1>5, <1>9 DEF Positions, At
<1>10. QED
  BY <1>5, <1>6, <1>7, <1>8, <1>9 DEF Positions

(* The row an upload inserts takes the place it read under the lock.       *)
LEMMA InsertUsesPosition ==
  ASSUME Typed, Positions, NEW c \in Caller, InsertPending(c)
  PROVE  CoreTypes' /\ Positions'
<1>1. PICK n \in With("none") : n = NextImage
  BY NextImageIsFree DEF InsertPending
<1>2. n \in Image /\ row[n].status = "none" /\ n \notin Rows /\ n \notin Created
  BY DEF With, Rows, Created
<1>3. At(c, "upload", "insert") /\ lock' = lock \ {c} /\ object' = object
  BY DEF InsertPending
<1>4. /\ lock = {c} /\ call[c].pos <= Cardinality(Created)
      /\ \A i \in Rows : row[i].pos < call[c].pos
      /\ call[c].pos \in Nat
  BY <1>3 DEF Positions, Typed, CoreTypes, CallRec
<1>5. CASE Becomes(c, "upload", "failed", call[c].img, 0, <<>>, {}) /\ row' = row
  <2>1. CoreTypes'
    BY <1>3, <1>5 DEF Becomes, CoreTypes, Typed
  <2>2. Settles
    BY <1>5, SameRowsSettle
  <2>3. NoneArrives
    BY <1>3, <1>5, OneCallArrives DEF Becomes, At
  <2>4. QED
    BY <2>1, <2>2, <2>3, SettlingKeepsPositions DEF Typed
<1>6. CASE /\ Becomes(c, "upload", "ok", n, 0, <<>>, {})
           /\ row' = [row EXCEPT ![n] = [status |-> "pending", pos |-> call[c].pos, old |-> FALSE]]
  <2>1. Cardinality(Created \cup {n}) = Cardinality(Created) + 1 /\ Cardinality(Created) \in Nat
    <3>1. IsFiniteSet(Created) /\ Cardinality(Created) \in Nat
      BY PhotosAre, Parts
    <3>2. QED
      BY <3>1, <1>2, FS_AddElement
  <2>2. Cardinality(Created \cup {n}) <= Cardinality(Image) /\ Cardinality(Image) \in Nat
    BY <1>2, PhotosAre, Parts
  <2>3. call[c].pos \in 0 .. Cardinality(Image) - 1
    BY <1>4, <2>1, <2>2
  <2>4. /\ row' \in [Image -> Row] /\ row'[n].status = "pending" /\ row'[n].pos = call[c].pos
        /\ \A i \in Image \ {n} : row'[i] = row[i]
    BY <1>2, <1>6, <2>3 DEF Typed, CoreTypes, Row
  <2>5. Rows' = Rows \cup {n} /\ Created' = Created \cup {n}
    BY <1>2, <2>4 DEF Rows, Created, With
  <2>6. CoreTypes'
    BY <1>3, <1>6, <2>4 DEF Becomes, CoreTypes, Typed
  <2>7. \A i \in Rows : i \in Image /\ row'[i] = row[i] /\ row[i].pos \in Nat
    BY <1>2, <2>4, PhotosAre DEF Typed, CoreTypes, Row
  <2>8. ASSUME NEW i \in Rows' PROVE row'[i].pos < Cardinality(Created')
    BY <1>4, <2>1, <2>4, <2>5, <2>7 DEF Positions
  <2>9. ASSUME NEW i \in Rows', NEW j \in Rows', i # j PROVE row'[i].pos # row'[j].pos
    <3>1. CASE i = n
      BY <1>4, <2>4, <2>5, <2>7, <2>9, <3>1
    <3>2. CASE j = n
      BY <1>4, <2>4, <2>5, <2>7, <2>9, <3>2
    <3>3. CASE i # n /\ j # n
      BY <2>5, <2>7, <2>9, <3>3 DEF Positions
    <3>4. QED
      BY <3>1, <3>2, <3>3
  <2>10. ASSUME NEW d \in Caller PROVE ~At(d, "upload", "insert")'
    <3>1. CASE d = c
      BY <1>6, <3>1 DEF Becomes, At
    <3>2. CASE d # c
      BY <1>4, <1>6, <3>2 DEF Becomes, At, Positions
    <3>3. QED
      BY <3>1, <3>2
  <2>11. ASSUME NEW d \in Caller, At(d, "reorder", "write")', NEW i \in DOMAIN call'[d].order
         PROVE  row'[i].status \in {"ready", "gone"}
    <3>1. d # c /\ call'[d] = call[d]
      BY <1>6, <2>11 DEF Becomes, At
    <3>2. row[i].status \in {"ready", "gone"} /\ i \in Image
      BY <3>1, <2>11, OrderFacts DEF Positions, At, Typed, CoreTypes, CallRec
    <3>3. QED
      BY <1>2, <2>4, <3>2
  <2>12. QED
    BY <2>6, <2>8, <2>9, <2>10, <2>11 DEF Positions
<1>7. QED
  BY <1>1, <1>2, <1>5, <1>6, InsertPendingDoes DEF Typed

(* The steps of the tab, and of time. *)
LEMMA QuietKeepsPositions ==
  ASSUME Typed, Positions, NEW c \in Caller, QuietStep(c)
  PROVE  CoreTypes' /\ Positions'
<1>1. CoreTypes'
  BY DEF QuietStep, Quiet, Typed, CoreTypes
<1>2. Settles
  BY SameRowsSettle DEF QuietStep
<1>3. NoneArrives
  BY OneCallArrives DEF QuietStep, Quiet, At
<1>4. QED
  BY <1>1, <1>2, <1>3, SettlingKeepsPositions DEF Typed

(* The bytes that arrive change no row.                                    *)
LEMMA PutKeepsPositions ==
  ASSUME Typed, Positions, NEW f \in File, NEW b \in {"good", "bad"}, Put(f, b)
  PROVE  CoreTypes' /\ Positions' /\ Becomes(f, "confirm", "start", call[f].img, 0, <<>>, {})
         /\ call[f].img \in Image /\ At(f, "upload", "ok")
<1>1. /\ f \in Caller /\ row' = row /\ lock' = lock /\ upload[f] = "uploading" /\ call[f].at = "ok"
      /\ object' = [object EXCEPT ![call[f].img] = b]
      /\ Request(f, "confirm", call[f].img, <<>>)
  BY CallersAre DEF Put, Answered
<1>2. At(f, "upload", "ok")
  BY <1>1 DEF Typed, Roles, FileRole, At
<1>3. call[f].img \in Image
  BY <1>1, <1>2 DEF Typed, Roles
<1>4. Becomes(f, "confirm", "start", call[f].img, 0, <<>>, {})
  BY <1>1, <1>3, RequestBecomes, EmptyOrder DEF Typed, Op
<1>5. CoreTypes'
  BY <1>1, <1>4 DEF Typed, CoreTypes, Becomes
<1>6. Settles
  BY <1>1, SameRowsSettle
<1>7. NoneArrives
  BY <1>1, <1>4, OneCallArrives DEF Becomes, At
<1>8. QED
  BY <1>2, <1>3, <1>4, <1>5, <1>6, <1>7, SettlingKeepsPositions DEF Typed

(* Nor does time.                                                          *)
LEMMA AgeKeepsPositions ==
  ASSUME Typed, Positions, NEW i \in Image, Age(i)
  PROVE  CoreTypes' /\ Positions'
<1>1. UNCHANGED <<object, lock, call>> /\ row[i].status = "pending"
  BY DEF Age
<1>2. /\ row' \in [Image -> Row] /\ row'[i].pos = row[i].pos /\ row'[i].status = row[i].status
      /\ \A j \in Image \ {i} : row'[j] = row[j]
  BY DEF Age, Typed, CoreTypes, Row
<1>3. CoreTypes'
  BY <1>1, <1>2 DEF Typed, CoreTypes
<1>4. Settles
  BY <1>1, <1>2, OneRowSettles DEF Typed
<1>5. NoneArrives
  BY <1>1 DEF NoneArrives, At, Positions
<1>6. QED
  BY <1>3, <1>4, <1>5, SettlingKeepsPositions DEF Typed

LEMMA NothingKeepsPositions ==
  ASSUME Typed, Positions, UNCHANGED coreVars
  PROVE  CoreTypes' /\ Positions'
<1>1. row' = row /\ object' = object /\ lock' = lock /\ call' = call
  BY DEF coreVars
<1>2. QED
  BY <1>1 DEF Typed, CoreTypes, Positions, Rows, Created, With, At

-----------------------------------------------------------------------------
(* Calls about a photo name one, whatever the step. *)
LEMMA PhotosNamed ==
  ASSUME Typed, Positions, [Next]_vars, NEW d \in Caller
  PROVE  /\ call'[d].op \in {"confirm", "delete", "alt"} => call'[d].img \in Image
         /\ At(d, "upload", "ok")' \/ At(d, "upload", "drop")' => call'[d].img \in Image
<1>1. NextPosition \in Nat /\ (With("none") # {} => NextImage \in Image)
  BY NextPositionFacts, NextImageIsFree, PhotosAre DEF Typed
<1>2. /\ call[d].op \in {"confirm", "delete", "alt"} => call[d].img \in Image
      /\ At(d, "upload", "ok") \/ At(d, "upload", "drop") => call[d].img \in Image
  BY DEF Typed, Roles
<1>3. CASE call'[d] = call[d]
  BY <1>2, <1>3 DEF At
<1>4. ASSUME NEW c \in Caller, QuietStep(c)
      PROVE  /\ call'[d].op \in {"confirm", "delete", "alt"} => call'[d].img \in Image
             /\ At(d, "upload", "ok")' \/ At(d, "upload", "drop")' => call'[d].img \in Image
  BY <1>3, <1>4 DEF QuietStep, Quiet, At
<1>5. ASSUME NEW c \in Caller, CoreStep(c)
      PROVE  /\ call'[d].op \in {"confirm", "delete", "alt"} => call'[d].img \in Image
             /\ At(d, "upload", "ok")' \/ At(d, "upload", "drop")' => call'[d].img \in Image
  <2>1. CASE c = d
    BY <1>1, <1>2, <1>5, <2>1, CoreKeeps
  <2>2. CASE c # d
    BY <1>1, <1>3, <1>5, <2>2, CoreKeeps
  <2>3. QED
    BY <2>1, <2>2
<1>6. ASSUME NEW f \in File, NEW b \in {"good", "bad"}, Put(f, b)
      PROVE  /\ call'[d].op \in {"confirm", "delete", "alt"} => call'[d].img \in Image
             /\ At(d, "upload", "ok")' \/ At(d, "upload", "drop")' => call'[d].img \in Image
  BY <1>3, <1>6, PutKeepsPositions DEF Becomes, At
<1>7. ASSUME NEW i \in Image, Age(i) PROVE call'[d] = call[d]
  BY <1>7 DEF Age
<1>8. CASE UNCHANGED coreVars
  BY <1>3, <1>8 DEF coreVars
<1>9. QED
  BY <1>3, <1>4, <1>5, <1>6, <1>7, <1>8, StepKinds

(* The inductive invariant of the types. *)
LEMMA TypedStep ==
  ASSUME Typed, Positions, [Next]_vars
  PROVE  Typed' /\ Positions'
<1>1. TabTypes'
  BY TabTypesStay
<1>2. NextPosition \in Nat /\ (With("none") # {} => NextImage \in Image)
  BY NextPositionFacts, NextImageIsFree, PhotosAre DEF Typed
<1>3. \A f \in File : FileRole(f)'
  BY <1>2, FileRoles
<1>4. Roles'
  BY <1>3, PhotosNamed DEF Roles
<1>5. ASSUME NEW c \in Caller, CoreStep(c) PROVE CoreTypes' /\ Positions'
  BY <1>5, CoreSettles, SettlingKeepsPositions, LockTakesPosition, InsertUsesPosition DEF Typed
<1>6. CoreTypes' /\ Positions'
  BY <1>5, StepKinds, QuietKeepsPositions, PutKeepsPositions, AgeKeepsPositions,
     NothingKeepsPositions
<1>7. QED
  BY <1>1, <1>4, <1>6 DEF Typed

(* The photos on the site are numbered in the order they were created. *)
LEMMA InitialPositions ==
  ASSUME NEW i \in OnSite, NEW j \in OnSite, i < j
  PROVE  Cardinality({k \in OnSite : k < i}) < Cardinality({k \in OnSite : k < j})
<1> DEFINE A == {k \in OnSite : k < i}
           B == {k \in OnSite : k < j}
<1>1. OnSite \subseteq Image /\ \A k \in OnSite : k \in Int
  BY TabAssumption, ImagesAssumption
<1>2. A \in SUBSET B /\ i \in B /\ i \notin A /\ B \in SUBSET Image
  <2>1. \A k \in A : k \in B
    BY <1>1
  <2>2. i \in B /\ i \notin A
    BY <1>1
  <2>3. B \subseteq Image
    BY <1>1
  <2>4. QED
    BY <2>1, <2>2, <2>3
<1>3. A # B
  BY <1>2
<1> HIDE DEF A, B
<1>4. Cardinality(A) < Cardinality(B)
  BY <1>2, <1>3, Parts
<1>5. QED
  BY <1>4 DEF A, B

(* The photos on the site at first stand in the order of their ids.        *)
LEMMA InitTyped ==
  ASSUME Init
  PROVE  Typed /\ Positions
<1>1. Cardinality(Image) \in Nat /\ Cardinality(Image) > 0 /\ OnSite \in SUBSET Image
      /\ OnSite \subseteq Nat
  BY Parts, TabAssumption, ImagesAssumption
<1>2. ASSUME NEW i \in OnSite
      PROVE  /\ Cardinality({j \in OnSite : j < i}) \in Nat
             /\ Cardinality({j \in OnSite : j < i}) < Cardinality(OnSite)
  <2> DEFINE A == {j \in OnSite : j < i}
  <2>1. A \in SUBSET OnSite /\ i \notin A
    BY <1>1
  <2>2. A # OnSite /\ A \in SUBSET Image
    BY <1>1, <2>1
  <2> HIDE DEF A
  <2>3. Cardinality(A) \in Nat /\ Cardinality(A) < Cardinality(OnSite)
    BY <1>1, <2>1, <2>2, Parts
  <2>4. QED
    BY <2>3 DEF A
<1>3. Cardinality(OnSite) \in Nat /\ Cardinality(OnSite) <= Cardinality(Image)
  BY <1>1, Parts
<1>4. ASSUME NEW i \in Image
      PROVE  /\ InitialRow(i) \in Row
             /\ i \in OnSite => /\ InitialRow(i).status = "ready"
                                /\ InitialRow(i).pos = Cardinality({j \in OnSite : j < i})
             /\ i \notin OnSite => InitialRow(i).status = "none"
  <2>1. CASE i \in OnSite
    <3>1. PICK p \in 0 .. Cardinality(Image) - 1 : p = Cardinality({j \in OnSite : j < i})
      <4> DEFINE n == Cardinality({j \in OnSite : j < i})
      <4>1. n \in Nat /\ n < Cardinality(OnSite)
        BY <1>2, <2>1
      <4> HIDE DEF n
      <4>2. n \in 0 .. Cardinality(Image) - 1
        BY <1>1, <1>3, <4>1
      <4>3. QED
        BY <4>2 DEF n
    <3>2. InitialRow(i) = [status |-> "ready", pos |-> p, old |-> FALSE]
      BY <2>1, <3>1 DEF InitialRow
    <3>3. QED
      BY <2>1, <3>1, <3>2 DEF Row
  <2>2. CASE i \notin OnSite
    <3>1. 0 \in 0 .. Cardinality(Image) - 1
      BY <1>1
    <3>2. InitialRow(i) = [status |-> "none", pos |-> 0, old |-> FALSE]
      BY <2>2 DEF InitialRow
    <3>3. QED
      BY <2>2, <3>1, <3>2 DEF Row
  <2>3. QED
    BY <2>1, <2>2
<1>5. row \in [Image -> Row] /\ \A i \in Image : row[i] = InitialRow(i)
  BY <1>4 DEF Init
<1>6. CoreTypes
  BY <1>5, IdleCall DEF Init, CoreTypes, Free
<1>7. TabTypes
  <2>1. Shown \in OrderSet
    BY <1>5, ShownIsOrder
  <2>2. 0 \in 0 .. MaxClicks /\ 0 \in 0 .. MaxFaults
    BY TabAssumption
  <2>3. QED
    BY <2>1, <2>2, NoRefreshTyped DEF Init, TabTypes, Stage
<1>8. Roles
  BY CallersAre, IdleCall DEF Init, Roles, FileRole, At
<1>9. Rows = OnSite /\ Created = OnSite
  BY <1>1, <1>4, <1>5 DEF Rows, Created, With
<1>10. \A i, j \in Rows : i # j => row[i].pos # row[j].pos
  <2> SUFFICES ASSUME NEW i \in OnSite, NEW j \in OnSite, i # j PROVE row[i].pos # row[j].pos
    BY <1>9
  <2>1. /\ i \in Nat /\ j \in Nat
        /\ row[i].pos = Cardinality({k \in OnSite : k < i}) /\ row[i].pos \in Nat
        /\ row[j].pos = Cardinality({k \in OnSite : k < j}) /\ row[j].pos \in Nat
    BY <1>1, <1>2, <1>4, <1>5
  <2>2. CASE i < j
    BY <2>1, <2>2, InitialPositions
  <2>3. CASE j < i
    BY <2>1, <2>3, InitialPositions
  <2>4. QED
    BY <2>1, <2>2, <2>3
<1>11. \A c \in Caller : ~At(c, "upload", "insert") /\ ~At(c, "reorder", "write")
  BY IdleCall DEF Init, At
<1>12. \A i \in Rows : row[i].pos < Cardinality(Created)
  BY <1>1, <1>2, <1>4, <1>5, <1>9
<1>13. QED
  BY <1>6, <1>7, <1>8, <1>10, <1>11, <1>12 DEF Typed, Positions

(* Types and positions are kept by every step, and so hold always.         *)
LEMMA TypedAlways == Spec => [](Typed /\ Positions)
<1>1. Init => Typed /\ Positions
  BY InitTyped
<1>2. Typed /\ Positions /\ [Next]_vars => (Typed /\ Positions)'
  BY TypedStep
<1>3. QED
  BY <1>1, <1>2, PTL DEF Spec

(* Rows, positions, calls, the grid and the upload rows stay in their      *)
(* ranges, in particular positions below the number of photos, through     *)
(* uploads, reorders and deletes in any order.                             *)
THEOREM TypeCorrect == Spec => []TypeOK
<1>1. Typed => TypeOK
  <2> SUFFICES ASSUME Typed PROVE TypeOK
    OBVIOUS
  <2>1. ASSUME NEW c \in Caller PROVE CallTypeOK(call[c])
    <3>1. call[c] \in CallRec
      BY DEF Typed, CoreTypes
    <3>2. DOMAIN call[c].order \subseteq Image
      BY <3>1, OrderFacts DEF CallRec
    <3>3. QED
      BY <3>1, <3>2 DEF CallRec, CallTypeOK, Op
  <2>2. ASSUME NEW c \in Caller
        PROVE  /\ refresh[c].at \in {"none", "sent", "read"}
               /\ DOMAIN refresh[c].data \subseteq Image /\ refresh[c].files \subseteq File
    <3>1. refresh[c] \in RefreshRec
      BY DEF Typed, TabTypes
    <3>2. DOMAIN refresh[c].data \subseteq Image
      BY <3>1, OrderFacts DEF RefreshRec
    <3>3. QED
      BY <3>1, <3>2 DEF RefreshRec
  <2>3. DOMAIN grid \subseteq Image
    BY OrderFacts DEF Typed, TabTypes
  <2>4. QED
    BY <2>1, <2>2, <2>3 DEF Typed, CoreTypes, TabTypes, TypeOK, CoreTypeOK
<1>2. QED
  BY <1>1, TypedAlways, PTL

(* An upload that waits for its turn to insert never finds its position    *)
(* taken: the row lock on the product, and that reorders and deletes only  *)
(* write positions below the number of rows, see to it.                    *)
THEOREM NoUploadCollides == Spec => []UploadsNeverCollide
<1>1. Typed /\ Positions => UploadsNeverCollide
  <2> SUFFICES ASSUME Typed, Positions, NEW c \in Caller, At(c, "upload", "insert"), NEW i \in Rows
               PROVE  row[i].pos # call[c].pos
    BY DEF UploadsNeverCollide
  <2>1. row[i].pos < call[c].pos
    BY DEF Positions
  <2>2. row[i].pos \in Int /\ call[c].pos \in Int
    BY PhotosAre DEF Typed, CoreTypes, CallRec, Row
  <2>3. QED
    BY <2>1, <2>2
<1>2. QED
  BY <1>1, TypedAlways, PTL

-----------------------------------------------------------------------------
(* Photos and their bytes.  Until it has confirmed a photo, or given it    *)
(* up, one call has it to itself, from the row it inserts on.              *)
Owns(c) ==
  \/ At(c, "upload", "ok")
  \/ call[c].op = "confirm" /\ call[c].at \in {"start", "ready", "reject", "rejectRow"}

Objects ==
  /\ \A c \in Caller : Owns(c) => row[call[c].img].status \in {"pending", "gone"}
  /\ \A c, d \in Caller : c # d /\ Owns(c) /\ Owns(d) => call[c].img # call[d].img
  /\ \A c \in Caller : At(c, "confirm", "ready") =>
       row[call[c].img].status = "gone" \/ object[call[c].img] = "good"
  /\ \A c \in Caller : At(c, "upload", "drop") \/ At(c, "delete", "dropDeleted") =>
       row[call[c].img].status = "gone"

Kept == Objects /\ ReadyHasObject

(* No photo is created or saved, and bytes change only where the row is    *)
(* gone or the photo is the call's own.                                    *)
LEMMA ObjectsStay ==
  ASSUME Typed, Kept, NEW c \in Caller, \A d \in Caller \ {c} : call'[d] = call[d],
         \A i \in Image : row'[i].status = row[i].status \/ row'[i].status = "gone",
         Owns(c)' => Owns(c) /\ call'[c].img = call[c].img,
         At(c, "confirm", "ready")' =>
           row'[call'[c].img].status = "gone" \/ object'[call'[c].img] = "good",
         At(c, "upload", "drop")' \/ At(c, "delete", "dropDeleted")' =>
           row'[call'[c].img].status = "gone",
         \A i \in Image : \/ object'[i] = object[i] \/ row'[i].status = "gone"
                          \/ Owns(c) /\ call[c].img = i
  PROVE  Kept'
<1>1. \A d \in Caller : Owns(d)' => Owns(d) /\ call'[d].img = call[d].img
  BY DEF Owns, At
<1>2. \A d \in Caller : Owns(d) => call[d].img \in Image
  BY DEF Owns, Typed, Roles
<1>3. ASSUME NEW d \in Caller, Owns(d)' PROVE row'[call'[d].img].status \in {"pending", "gone"}
  BY <1>1, <1>2, <1>3 DEF Kept, Objects
<1>4. ASSUME NEW d \in Caller, NEW e \in Caller, d # e, Owns(d)', Owns(e)'
      PROVE  call'[d].img # call'[e].img
  BY <1>1, <1>4 DEF Kept, Objects
<1>5. ASSUME NEW d \in Caller, At(d, "confirm", "ready")'
      PROVE  row'[call'[d].img].status = "gone" \/ object'[call'[d].img] = "good"
  <2>1. CASE d = c
    BY <1>5, <2>1
  <2>2. CASE d # c
    <3>1. call'[d] = call[d] /\ At(d, "confirm", "ready") /\ Owns(d)
      BY <1>5, <2>2 DEF At, Owns
    <3>2. PICK i \in Image : i = call[d].img
      BY <1>2, <3>1
    <3>3. row[i].status = "gone" \/ object[i] = "good"
      BY <3>1, <3>2 DEF Kept, Objects
    <3>4. ~(Owns(c) /\ call[c].img = i)
      BY <2>2, <3>1, <3>2 DEF Kept, Objects
    <3>5. QED
      BY <3>1, <3>2, <3>3, <3>4
  <2>3. QED
    BY <2>1, <2>2
<1>6. ASSUME NEW d \in Caller, At(d, "upload", "drop")' \/ At(d, "delete", "dropDeleted")'
      PROVE  row'[call'[d].img].status = "gone"
  <2>1. CASE d = c
    BY <1>6, <2>1
  <2>2. CASE d # c
    <3>1. call'[d] = call[d] /\ (At(d, "upload", "drop") \/ At(d, "delete", "dropDeleted"))
      BY <1>6, <2>2 DEF At
    <3>2. call[d].img \in Image /\ row[call[d].img].status = "gone"
      BY <3>1 DEF Kept, Objects, Typed, Roles, At
    <3>3. QED
      BY <3>1, <3>2
  <2>3. QED
    BY <2>1, <2>2
<1>7. ASSUME NEW i \in Image, row'[i].status = "ready" PROVE object'[i] = "good"
  <2>1. row[i].status = "ready" /\ object[i] = "good"
    BY <1>7 DEF Kept, ReadyHasObject, With
  <2>2. ~(Owns(c) /\ call[c].img = i)
    BY <2>1 DEF Kept, Objects
  <2>3. QED
    BY <1>7, <2>1, <2>2
<1>8. Objects'
  BY <1>3, <1>4, <1>5, <1>6 DEF Objects
<1>9. ReadyHasObject'
  BY <1>7 DEF ReadyHasObject, With
<1>10. QED
  BY <1>8, <1>9 DEF Kept

(* A photo that is created belongs to the call that created it. *)
LEMMA InsertKeeps ==
  ASSUME Typed, Kept, NEW c \in Caller, InsertPending(c)
  PROVE  Kept'
<1>1. PICK n \in With("none") : n = NextImage
  BY NextImageIsFree DEF InsertPending
<1>2. n \in Image /\ row[n].status = "none"
  BY DEF With
<1>3. At(c, "upload", "insert") /\ object' = object
  BY DEF InsertPending
<1>4. CASE Becomes(c, "upload", "failed", call[c].img, 0, <<>>, {}) /\ row' = row
  BY <1>3, <1>4, ObjectsStay DEF Becomes, Owns, At
<1>5. CASE /\ Becomes(c, "upload", "ok", n, 0, <<>>, {})
           /\ row' = [row EXCEPT ![n] = [status |-> "pending", pos |-> call[c].pos, old |-> FALSE]]
  <2>1. row'[n].status = "pending" /\ \A i \in Image \ {n} : row'[i] = row[i]
    BY <1>2, <1>5 DEF Typed, CoreTypes
  <2>2. \A d \in Caller \ {c} : call'[d] = call[d]
    BY <1>5 DEF Becomes
  <2>3. call'[c].img = n /\ At(c, "upload", "ok")'
    BY <1>5 DEF Becomes, At
  <2>4. ASSUME NEW d \in Caller \ {c}, Owns(d)'
        PROVE  Owns(d) /\ call'[d].img \in Image \ {n} /\ call'[d].img = call[d].img
    <3>1. Owns(d)
      BY <2>2, <2>4 DEF Owns, At
    <3>2. call[d].img \in Image /\ row[call[d].img].status \in {"pending", "gone"}
      BY <3>1 DEF Kept, Objects, Owns, Typed, Roles
    <3>3. QED
      BY <1>2, <2>2, <3>1, <3>2
  <2>5. ASSUME NEW d \in Caller, Owns(d)' PROVE row'[call'[d].img].status \in {"pending", "gone"}
    BY <2>1, <2>3, <2>4, <2>5 DEF Kept, Objects
  <2>6. ASSUME NEW d \in Caller, NEW e \in Caller, d # e, Owns(d)', Owns(e)'
        PROVE  call'[d].img # call'[e].img
    BY <2>3, <2>4, <2>6 DEF Kept, Objects
  <2>7. ASSUME NEW d \in Caller, At(d, "confirm", "ready")'
        PROVE  row'[call'[d].img].status = "gone" \/ object'[call'[d].img] = "good"
    <3>1. d # c /\ Owns(d)' /\ At(d, "confirm", "ready")
      BY <2>2, <2>3, <2>7 DEF At, Owns
    <3>2. QED
      BY <1>3, <2>1, <2>4, <3>1 DEF Kept, Objects
  <2>8. ASSUME NEW d \in Caller, At(d, "upload", "drop")' \/ At(d, "delete", "dropDeleted")'
        PROVE  row'[call'[d].img].status = "gone"
    <3>1. d # c /\ call'[d] = call[d] /\ (At(d, "upload", "drop") \/ At(d, "delete", "dropDeleted"))
      BY <2>2, <2>3, <2>8 DEF At
    <3>2. call[d].img \in Image /\ row[call[d].img].status = "gone"
      BY <3>1 DEF Kept, Objects, Typed, Roles, At
    <3>3. QED
      BY <1>2, <2>1, <3>1, <3>2
  <2>9. Objects'
    BY <2>5, <2>6, <2>7, <2>8 DEF Objects
  <2>10. ReadyHasObject'
    BY <1>3, <2>1 DEF ReadyHasObject, With, Kept
  <2>11. QED
    BY <2>9, <2>10 DEF Kept
<1>6. QED
  BY <1>1, <1>2, <1>4, <1>5, InsertPendingDoes DEF Typed

(* A photo is saved by the call it belongs to, which has seen its bytes. *)
LEMMA MakeReadyKeeps ==
  ASSUME Typed, Kept, NEW c \in Caller, MakeReady(c)
  PROVE  Kept'
<1>1. At(c, "confirm", "ready") /\ object' = object /\ Owns(c)
  BY DEF MakeReady, Owns, At
<1>2. PICK i \in Image : i = call[c].img
  BY <1>1 DEF Typed, Roles, At
<1>3. CASE Becomes(c, "confirm", "failed", i, 0, <<>>, {}) /\ row' = row
  BY <1>2, <1>3, <1>1, ObjectsStay DEF Becomes, Owns, At
<1>4. CASE /\ Becomes(c, "confirm", "ok", i, 0, <<>>, {})
           /\ i \in Rows /\ row' = [row EXCEPT ![i].status = "ready"]
  <2>1. row'[i].status = "ready" /\ \A j \in Image \ {i} : row'[j] = row[j]
    BY <1>4 DEF Typed, CoreTypes, Row
  <2>2. object'[i] = "good"
    BY <1>1, <1>2, <1>4 DEF Kept, Objects, Rows, With
  <2>3. ASSUME NEW d \in Caller, Owns(d)'
        PROVE  /\ Owns(d) /\ call'[d] = call[d] /\ call'[d].img \in Image \ {i}
               /\ row[call[d].img].status \in {"pending", "gone"}
    <3>1. d # c /\ call'[d] = call[d]
      BY <1>4, <2>3 DEF Becomes, Owns, At
    <3>2. Owns(d)
      BY <2>3, <3>1 DEF Owns, At
    <3>3. call[d].img # i
      BY <1>1, <1>2, <3>1, <3>2 DEF Kept, Objects
    <3>4. call[d].img \in Image /\ row[call[d].img].status \in {"pending", "gone"}
      BY <3>2 DEF Kept, Objects, Owns, Typed, Roles
    <3>5. QED
      BY <3>1, <3>2, <3>3, <3>4
  <2>4. ASSUME NEW d \in Caller, Owns(d)' PROVE row'[call'[d].img].status \in {"pending", "gone"}
    BY <2>1, <2>3, <2>4
  <2>5. ASSUME NEW d \in Caller, NEW e \in Caller, d # e, Owns(d)', Owns(e)'
        PROVE  call'[d].img # call'[e].img
    BY <2>3, <2>5 DEF Kept, Objects
  <2>6. ASSUME NEW d \in Caller, At(d, "confirm", "ready")'
        PROVE  row'[call'[d].img].status = "gone" \/ object'[call'[d].img] = "good"
    <3>1. Owns(d)'
      BY <2>6 DEF Owns, At
    <3>2. call'[d] = call[d] /\ call'[d].img \in Image \ {i}
      BY <2>3, <3>1
    <3>3. At(d, "confirm", "ready")
      BY <2>6, <3>2 DEF At
    <3>4. QED
      BY <1>1, <2>1, <3>2, <3>3 DEF Kept, Objects
  <2>7. ASSUME NEW d \in Caller, At(d, "upload", "drop")' \/ At(d, "delete", "dropDeleted")'
        PROVE  row'[call'[d].img].status = "gone"
    <3>1. d # c /\ call'[d] = call[d] /\ (At(d, "upload", "drop") \/ At(d, "delete", "dropDeleted"))
      BY <1>4, <2>7 DEF Becomes, At
    <3>2. call[d].img \in Image /\ row[call[d].img].status = "gone"
      BY <3>1 DEF Kept, Objects, Typed, Roles, At
    <3>3. QED
      BY <1>4, <2>1, <3>1, <3>2 DEF Rows, With
  <2>8. Objects'
    BY <2>4, <2>5, <2>6, <2>7 DEF Objects
  <2>9. ReadyHasObject'
    BY <1>1, <2>1, <2>2 DEF ReadyHasObject, With, Kept
  <2>10. QED
    BY <2>8, <2>9 DEF Kept
<1>5. QED
  BY <1>2, <1>3, <1>4, MakeReadyDoes DEF Typed

(* Every other step of core. *)
LEMMA CoreKeepsObjects ==
  ASSUME Typed, Positions, Kept, NEW c \in Caller, CoreStep(c)
  PROVE  Kept'
<1> USE DEF Typed
<1>a. /\ row \in [Image -> Row] /\ object \in [Image -> {"none", "good", "bad"}]
      /\ call[c].op \in {"confirm", "delete"} => call[c].img \in Image
      /\ At(c, "upload", "drop") => call[c].img \in Image /\ row[call[c].img].status = "gone"
      /\ At(c, "delete", "dropDeleted") => row[call[c].img].status = "gone"
  BY DEF CoreTypes, Roles, Kept, Objects
<1>1. CASE FindStale(c)
  <2>1. Becomes(c, "upload", "sweep", call[c].img, call[c].pos, call[c].order, Stale)
    BY <1>1, FindStaleDoes
  <2>2. row' = row /\ object' = object
    BY <1>1 DEF FindStale
  <2>3. QED
    BY <2>1, <2>2, ObjectsStay DEF Becomes, Owns, At
<1>2. ASSUME NEW i \in Image, SweepRow(c, i) PROVE Kept'
  <2>1. CASE row' = [row EXCEPT ![i] = Gone]
    <3>1. row'[i].status = "gone" /\ \A j \in Image : row'[j].status = row[j].status \/ row'[j].status = "gone"
      BY <2>1, <1>a, GoneRow
    <3>2. object' = object
      BY <1>2 DEF SweepRow
    <3>3. CASE Becomes(c, "upload", "drop", i, call[c].pos, call[c].order, call[c].todo \ {i})
      BY <3>1, <3>2, <3>3, ObjectsStay DEF Becomes, Owns, At
    <3>4. CASE Becomes(c, "upload", "sweep", call[c].img, call[c].pos, call[c].order, call[c].todo \ {i})
      BY <3>1, <3>2, <3>4, ObjectsStay DEF Becomes, Owns, At
    <3>5. QED
      BY <1>2, <3>3, <3>4, SweepRowDoes
  <2>2. CASE row' = row /\ Becomes(c, "upload", "sweep", call[c].img, call[c].pos, call[c].order,
                                   call[c].todo \ {i})
    <3>1. object' = object
      BY <1>2 DEF SweepRow
    <3>2. QED
      BY <2>2, <3>1, ObjectsStay DEF Becomes, Owns, At
  <2>3. QED
    BY <1>2, <2>1, <2>2, SweepRowDoes
<1>3. CASE SweepObject(c)
  <2>1. Becomes(c, "upload", "sweep", NoImage, call[c].pos, call[c].order, call[c].todo)
    BY <1>3, SweepObjectDoes
  <2>2. PICK i \in Image : i = call[c].img /\ row[i].status = "gone"
    BY <1>3, <1>a DEF SweepObject
  <2>3. row' = row /\ \A j \in Image : object'[j] = object[j] \/ row'[j].status = "gone"
    BY <1>3, <1>a, <2>2 DEF SweepObject
  <2>4. QED
    BY <2>1, <2>3, ObjectsStay DEF Becomes, Owns, At
<1>4. CASE LockProduct(c)
  <2>1. Becomes(c, "upload", "insert", call[c].img, NextPosition, call[c].order, call[c].todo)
    BY <1>4, LockProductDoes, NextPositionFacts
  <2>2. row' = row /\ object' = object
    BY <1>4 DEF LockProduct
  <2>3. QED
    BY <2>1, <2>2, ObjectsStay DEF Becomes, Owns, At
<1>5. CASE CheckObject(c)
  <2>1. PICK a \in {"ok", "failed", "ready", "reject"} :
          /\ Becomes(c, "confirm", a, call[c].img, call[c].pos, call[c].order, call[c].todo)
          /\ a = "ready" => object[call[c].img] = "good"
    BY <1>5, CheckObjectDoes
  <2>2. row' = row /\ object' = object /\ Owns(c)
    BY <1>5 DEF CheckObject, Owns, At
  <2>3. QED
    BY <2>1, <2>2, ObjectsStay DEF Becomes, Owns, At
<1>6. CASE RejectObject(c)
  <2>1. Becomes(c, "confirm", "rejectRow", call[c].img, call[c].pos, call[c].order, call[c].todo)
    BY <1>6, RejectObjectDoes
  <2>2. row' = row /\ Owns(c) /\ \A j \in Image : object'[j] = object[j] \/ call[c].img = j
    BY <1>6, <1>a DEF RejectObject, Owns, At
  <2>3. QED
    BY <2>1, <2>2, ObjectsStay DEF Becomes, Owns, At
<1>7. CASE RejectRow(c)
  <2>1. Becomes(c, "confirm", "failed", call[c].img, 0, <<>>, {})
    BY <1>7, RejectRowDoes
  <2>2. object' = object /\ \A j \in Image : row'[j].status = row[j].status \/ row'[j].status = "gone"
    BY <1>7, <1>a, GoneRow DEF RejectRow
  <2>3. QED
    BY <2>1, <2>2, ObjectsStay DEF Becomes, Owns, At
<1>8. CASE CheckOrder(c)
  <2>1. \/ /\ DOMAIN call[c].order = With("ready")
           /\ Becomes(c, "reorder", "write", call[c].img, call[c].pos, call[c].order, call[c].todo)
        \/ Becomes(c, "reorder", "stale", call[c].img, 0, <<>>, {})
    BY <1>8, CheckOrderDoes
  <2>2. row' = row /\ object' = object
    BY <1>8 DEF CheckOrder
  <2>3. QED
    BY <2>1, <2>2, ObjectsStay DEF Becomes, Owns, At
<1>9. CASE WriteOrder(c)
  <2>1. \/ Becomes(c, "reorder", "ok", call[c].img, 0, <<>>, {})
        \/ Becomes(c, "reorder", "failed", call[c].img, 0, <<>>, {})
    BY <1>9, WriteOrderDoes
  <2>2. PICK new : new = NewOrder(call[c].order)
    OBVIOUS
  <2>3. object' = object /\ \A j \in Image : row'[j].status = row[j].status
    BY <1>9, <1>a, <2>2 DEF WriteOrder, Renumbered, Row
  <2>4. QED
    BY <2>1, <2>3, ObjectsStay DEF Becomes, Owns, At
<1>10. CASE ReadRemaining(c)
  <2>1. \/ Becomes(c, "delete", "write", call[c].img, call[c].pos, Ranks(Rows \ {call[c].img}),
                    call[c].todo)
        \/ Becomes(c, "delete", "stale", call[c].img, call[c].pos, call[c].order, call[c].todo)
    BY <1>10, ReadRemainingDoes
  <2>2. row' = row /\ object' = object
    BY <1>10 DEF ReadRemaining
  <2>3. QED
    BY <2>1, <2>2, ObjectsStay DEF Becomes, Owns, At
<1>11. CASE WriteDelete(c)
  <2>1. PICK new : new = call[c].order
    OBVIOUS
  <2>2. PICK k \in Image : k = call[c].img
    BY <1>11, <1>a DEF WriteDelete, At
  <2>3. \A j \in Image : Renumbered(new)[j].status = row[j].status
    BY <1>a DEF Renumbered, Row
  <2>4. object' = object
    BY <1>11 DEF WriteDelete
  <2>5. CASE row' = [Renumbered(new) EXCEPT ![k] = Gone]
    <3>1. row'[k].status = "gone"
          /\ \A j \in Image : row'[j].status = row[j].status \/ row'[j].status = "gone"
      BY <2>3, <2>5, GoneRow DEF Renumbered
    <3>2. \/ Becomes(c, "delete", "dropDeleted", k, 0, <<>>, {})
          \/ Becomes(c, "delete", "failed", k, 0, <<>>, {})
      BY <1>11, <2>2, WriteDeleteDoes
    <3>3. QED
      BY <2>4, <3>1, <3>2, ObjectsStay DEF Becomes, Owns, At
  <2>6. CASE row' = row /\ Becomes(c, "delete", "failed", k, 0, <<>>, {})
    BY <2>4, <2>6, ObjectsStay DEF Becomes, Owns, At
  <2>7. QED
    BY <1>11, <2>1, <2>2, <2>5, <2>6, WriteDeleteDoes
<1>12. CASE DeleteObject(c)
  <2>1. Becomes(c, "delete", "ok", call[c].img, 0, <<>>, {})
    BY <1>12, DeleteObjectDoes
  <2>2. row' = row /\ \A j \in Image : object'[j] = object[j] \/ row'[j].status = "gone"
    BY <1>12, <1>a DEF DeleteObject
  <2>3. QED
    BY <2>1, <2>2, ObjectsStay DEF Becomes, Owns, At
<1>13. CASE WriteAlt(c)
  <2>1. PICK a \in {"ok", "stale"} : Becomes(c, "alt", a, call[c].img, 0, <<>>, {})
    BY <1>13, WriteAltDoes
  <2>2. row' = row /\ object' = object
    BY <1>13 DEF WriteAlt
  <2>3. QED
    BY <2>1, <2>2, ObjectsStay DEF Becomes, Owns, At
<1>14. QED
  BY <1>1, <1>2, <1>3, <1>4, <1>5, <1>6, <1>7, <1>8, <1>9, <1>10, <1>11, <1>12, <1>13,
     InsertKeeps, MakeReadyKeeps DEF CoreStep

(* No step takes the bytes of a ready photo, nor hands them to somebody    *)
(* else.                                                                   *)
LEMMA KeptStep ==
  ASSUME Typed, Positions, Kept, [Next]_vars
  PROVE  Kept'
<1>1. ASSUME NEW c \in Caller, QuietStep(c) PROVE Kept'
  <2>1. /\ \A d \in Caller \ {c} : call'[d] = call[d]
        /\ ~Owns(c)' /\ ~At(c, "confirm", "ready")'
        /\ ~At(c, "upload", "drop")' /\ ~At(c, "delete", "dropDeleted")'
        /\ row' = row /\ object' = object
    BY <1>1 DEF QuietStep, Quiet, Owns, At
  <2>2. QED
    BY <2>1, ObjectsStay
<1>2. ASSUME NEW f \in File, NEW b \in {"good", "bad"}, Put(f, b) PROVE Kept'
  <2>1. /\ Becomes(f, "confirm", "start", call[f].img, 0, <<>>, {})
        /\ At(f, "upload", "ok") /\ call[f].img \in Image /\ f \in Caller
    BY <1>2, PutKeepsPositions, CallersAre
  <2>2. row' = row /\ \A j \in Image : object'[j] = object[j] \/ call[f].img = j
    BY <1>2, <2>1 DEF Put, Typed, CoreTypes
  <2>3. Owns(f) /\ call'[f].img = call[f].img
    BY <2>1 DEF Owns, Becomes
  <2>4. QED
    BY <2>1, <2>2, <2>3, ObjectsStay DEF Becomes, At
<1>3. ASSUME NEW i \in Image, Age(i) PROVE Kept'
  <2>1. object' = object /\ call' = call /\ \A j \in Image : row'[j].status = row[j].status
    BY <1>3 DEF Age, Typed, CoreTypes, Row
  <2>2. \A c \in Caller : /\ Owns(c)' <=> Owns(c)
                          /\ At(c, "confirm", "ready")' <=> At(c, "confirm", "ready")
                          /\ At(c, "upload", "drop")' <=> At(c, "upload", "drop")
                          /\ At(c, "delete", "dropDeleted")' <=> At(c, "delete", "dropDeleted")
    BY <2>1 DEF Owns, At
  <2>3. \A c \in Caller : Owns(c) \/ At(c, "upload", "drop") \/ At(c, "delete", "dropDeleted") =>
          call[c].img \in Image
    BY DEF Typed, Roles, Owns, At
  <2>4. \A c \in Caller : At(c, "confirm", "ready") => Owns(c)
    BY DEF Owns, At
  <2>5. Objects'
    BY <2>1, <2>2, <2>3, <2>4 DEF Kept, Objects
  <2>6. ReadyHasObject'
    BY <2>1 DEF Kept, ReadyHasObject, With
  <2>7. QED
    BY <2>5, <2>6 DEF Kept
<1>4. CASE UNCHANGED coreVars
  <2>1. row' = row /\ object' = object /\ call' = call
    BY <1>4 DEF coreVars
  <2>2. QED
    BY <2>1 DEF Kept, Objects, ReadyHasObject, With, Owns, At
<1>5. QED
  BY <1>1, <1>2, <1>3, <1>4, StepKinds, CoreKeepsObjects

(* A photo on the site has its bytes: confirmations see them, sweeps and   *)
(* deletes remove the row first, and a call that may still change them has *)
(* its photo, which is not on the site, to itself.                         *)
THEOREM ReadyPhotosHaveBytes == Spec => []ReadyHasObject
<1>1. Init => Kept
  <2> SUFFICES ASSUME Init PROVE Kept
    OBVIOUS
  <2>1. \A c \in Caller : call[c] = Idle
    BY DEF Init
  <2>2. Objects
    BY <2>1, IdleCall DEF Objects, Owns, At
  <2>3. \A i \in Image : i \notin OnSite => InitialRow(i).status = "none"
    BY DEF InitialRow
  <2>4. ReadyHasObject
    BY <2>3 DEF Init, ReadyHasObject, With
  <2>5. QED
    BY <2>2, <2>4 DEF Kept
<1>2. Typed /\ Positions /\ Kept /\ [Next]_vars => Kept'
  BY KeptStep
<1>3. Kept => ReadyHasObject
  BY DEF Kept
<1>4. QED
  BY <1>1, <1>2, <1>3, TypedAlways, PTL DEF Spec

-----------------------------------------------------------------------------
(* The grid.  One refresh at most is the newest; a card waits for its own; *)
(* a refresh clears rows that are saved; and what changes the order in     *)
(* core is a card, or another administrator.                               *)
RefreshInv ==
  /\ \A c, d \in Caller : refresh[c].newest /\ refresh[d].newest => c = d
  /\ \A c \in Caller : refresh[c].newest => refresh[c].at # "none"
  /\ \A i \in Image : refresh[i].at # "none" => call[i].at = "refreshing"
  /\ \A c \in Caller : \A f \in refresh[c].files : upload[f] \in {"saved", "refresh-error", "cleared"}
  /\ \A f \in File : call[f].op = "confirm" =>
       IF call[f].at = "settled" THEN upload[f] \in {"saved", "refresh-error", "cleared"}
       ELSE upload[f] = "confirming"
  /\ \A c \in Caller : call[c].op = "confirm" => c \in File
  /\ \A c \in Caller : call[c].op \in {"reorder", "delete"} => c \in Image \/ astray

(* Core has changed by a card or a file, and its refresh is still to come. *)
CardChanged(i) == call[i].op \in {"reorder", "delete"} /\ call[i].at \in {"ok", "dropDeleted"}
FileChanged(f) ==
  /\ call[f].op = "confirm" /\ call[f].at \in {"ok", "settled"}
  /\ upload[f] \in {"confirming", "saved", "refresh-error"}

(* So what the newest refresh has read is the order in core, and so is     *)
(* what the grid shows when there is none, unless such a change is due.    *)
ReadKnown(c) ==
  \/ refresh[c].data = Shown
  \/ \E i \in Image : CardChanged(i)
  \/ \E f \in File \ refresh[c].files : FileChanged(f)

ShownKnown ==
  \/ grid = Shown
  \/ \E i \in Image : CardChanged(i)
  \/ \E f \in File : FileChanged(f)

GridKnown ==
  ~astray =>
    /\ \A c \in Caller : refresh[c].newest /\ refresh[c].at = "read" => ReadKnown(c)
    /\ (\A c \in Caller : ~refresh[c].newest) /\ ~listStale => ShownKnown

Current == RefreshInv /\ GridKnown

(* The order of the photos shown depends on the ready rows alone. *)
LEMMA ShownStays ==
  ASSUME \A i \in Image : row'[i].status = "ready" <=> row[i].status = "ready",
         \A i \in Image : row[i].status = "ready" => row'[i].pos = row[i].pos
  PROVE  Shown' = Shown
<1>1. With("ready")' = With("ready")
  BY DEF With
<1>2. ASSUME NEW I, I = With("ready") PROVE Ranks(I)' = Ranks(I)
  <2>1. \A i \in I : row'[i].pos = row[i].pos
    BY <1>2 DEF With
  <2>2. ASSUME NEW i \in I
        PROVE  {j \in I : row'[j].pos < row'[i].pos} = {j \in I : row[j].pos < row[i].pos}
    BY <2>1
  <2>3. QED
    BY <2>2 DEF Ranks
<1>3. QED
  BY <1>1, <1>2 DEF Shown

(* One call moves, and the tab does not: neither does it gain or lose      *)
(* sight of the order in core.                                             *)
LEMMA CallMoves ==
  ASSUME Typed, Current, NEW c \in Caller, \A d \in Caller \ {c} : call'[d] = call[d],
         UNCHANGED <<grid, listStale, upload, refresh>>, astray => astray',
         call[c].at # "refreshing",
         call'[c].op = "confirm" =>
           call[c].op = "confirm" /\ call[c].at # "settled" /\ call'[c].at # "settled",
         call'[c].op \in {"reorder", "delete"} => c \in Image \/ astray' \/ call'[c].op = call[c].op,
         ~astray' => /\ c \in Image /\ CardChanged(c) => CardChanged(c)'
                     /\ c \in File /\ FileChanged(c) => FileChanged(c)'
                     /\ \/ Shown' = Shown
                        \/ c \in Image /\ CardChanged(c)'
                        \/ c \in File /\ FileChanged(c)' /\ upload[c] = "confirming"
  PROVE  Current'
<1>1. File \subseteq Caller /\ Image \subseteq Caller
  BY CallersAre
<1>2. RefreshInv'
  <2>1. \A i \in Image : refresh'[i].at # "none" => call'[i].at = "refreshing"
    BY <1>1 DEF Current, RefreshInv
  <2>2. \A f \in File : call'[f].op = "confirm" =>
          IF call'[f].at = "settled" THEN upload'[f] \in {"saved", "refresh-error", "cleared"}
          ELSE upload'[f] = "confirming"
    BY <1>1 DEF Current, RefreshInv
  <2>3. \A d \in Caller : /\ call'[d].op = "confirm" => d \in File
                          /\ call'[d].op \in {"reorder", "delete"} => d \in Image \/ astray'
    BY DEF Current, RefreshInv
  <2>4. QED
    BY <2>1, <2>2, <2>3 DEF Current, RefreshInv
<1>3. ASSUME ~astray' PROVE GridKnown'
  <2>1. ASSUME NEW i \in Image, CardChanged(i) PROVE CardChanged(i)'
    BY <1>1, <1>3, <2>1 DEF CardChanged
  <2>2. ASSUME NEW f \in File, FileChanged(f) PROVE FileChanged(f)'
    BY <1>1, <1>3, <2>2 DEF FileChanged
  <2>3. \A d \in Caller : \A f \in refresh[d].files : upload[f] # "confirming"
    BY DEF Current, RefreshInv
  <2>4. ASSUME NEW d \in Caller, refresh'[d].newest, refresh'[d].at = "read"
        PROVE  ReadKnown(d)'
    <3>1. ReadKnown(d)
      BY <1>3, <2>4 DEF Current, GridKnown
    <3>2. QED
      BY <1>3, <2>1, <2>2, <2>3, <3>1 DEF ReadKnown
  <2>5. ASSUME \A d \in Caller : ~refresh'[d].newest, ~listStale' PROVE ShownKnown'
    <3>1. ShownKnown
      BY <1>3, <2>5 DEF Current, GridKnown
    <3>2. QED
      BY <1>3, <2>1, <2>2, <3>1 DEF ShownKnown
  <2>6. QED
    BY <2>4, <2>5 DEF GridKnown
<1>4. QED
  BY <1>2, <1>3 DEF Current, GridKnown

(* The row of a file moves, with its call. *)
LEMMA FileMoves ==
  ASSUME Typed, Current, NEW f \in File, \A d \in Caller \ {f} : call'[d] = call[d],
         UNCHANGED <<grid, listStale, refresh, row>>, astray => astray',
         upload' \in [File -> Stage], \A g \in File \ {f} : upload'[g] = upload[g],
         upload[f] \notin {"saved", "refresh-error", "cleared"},
         call'[f].op \notin {"reorder", "delete"},
         call'[f].op = "confirm" =>
           IF call'[f].at = "settled" THEN upload'[f] \in {"saved", "refresh-error", "cleared"}
           ELSE upload'[f] = "confirming",
         ~astray' => (FileChanged(f) => FileChanged(f)')
  PROVE  Current'
<1>1. File \subseteq Caller /\ Image \subseteq Caller /\ f \notin Image
  BY CallersAre, TabAssumption
<1>2. RefreshInv'
  <2>1. ASSUME NEW c \in Caller, NEW g \in refresh'[c].files
        PROVE  upload'[g] \in {"saved", "refresh-error", "cleared"}
    <3>1. g \in refresh[c].files /\ refresh[c].files \subseteq File
      BY <2>1 DEF Typed, TabTypes, RefreshRec
    <3>2. upload[g] \in {"saved", "refresh-error", "cleared"}
      BY <3>1 DEF Current, RefreshInv
    <3>3. QED
      BY <3>1, <3>2
  <2>2. \A g \in File : call'[g].op = "confirm" =>
          IF call'[g].at = "settled" THEN upload'[g] \in {"saved", "refresh-error", "cleared"}
          ELSE upload'[g] = "confirming"
    BY <1>1 DEF Current, RefreshInv
  <2>3. \A i \in Image : refresh'[i].at # "none" => call'[i].at = "refreshing"
    BY <1>1 DEF Current, RefreshInv
  <2>4. QED
    BY <2>1, <2>2, <2>3 DEF Current, RefreshInv
<1>3. ASSUME ~astray' PROVE GridKnown'
  <2>1. ASSUME NEW i \in Image, CardChanged(i) PROVE CardChanged(i)'
    BY <1>1, <2>1 DEF CardChanged
  <2>2. ASSUME NEW g \in File, FileChanged(g) PROVE FileChanged(g)'
    BY <1>1, <1>3, <2>2 DEF FileChanged
  <2>3. Shown' = Shown
    BY DEF Shown, Ranks, With
  <2>4. ASSUME NEW d \in Caller, refresh'[d].newest, refresh'[d].at = "read"
        PROVE  ReadKnown(d)'
    <3>1. ReadKnown(d)
      BY <1>3, <2>4 DEF Current, GridKnown
    <3>2. QED
      BY <2>1, <2>2, <2>3, <3>1 DEF ReadKnown
  <2>5. ASSUME \A d \in Caller : ~refresh'[d].newest, ~listStale' PROVE ShownKnown'
    <3>1. ShownKnown
      BY <1>3, <2>5 DEF Current, GridKnown
    <3>2. QED
      BY <2>1, <2>2, <2>3, <3>1 DEF ShownKnown
  <2>6. QED
    BY <2>4, <2>5 DEF GridKnown
<1>4. QED
  BY <1>2, <1>3 DEF Current, GridKnown

(* A refresh is asked for: what it will read is not known yet. *)
LEMMA Issued ==
  ASSUME Typed, Current, NEW c \in Caller, \A d \in Caller \ {c} : call'[d] = call[d],
         Issue(c, upload), UNCHANGED <<upload, astray>>,
         c \in Image => call'[c].at = "refreshing",
         \/ c \in Image /\ call'[c].op = call[c].op
         \/ call'[c].op = "none" \/ call'[c] = call[c]
  PROVE  Current'
<1>1. /\ refresh'[c].at = "sent" /\ refresh'[c].newest
      /\ refresh'[c].files = {f \in File : upload[f] \in {"saved", "refresh-error"}}
      /\ \A d \in Caller \ {c} : /\ ~refresh'[d].newest /\ refresh'[d].at = refresh[d].at
                                 /\ refresh'[d].files = refresh[d].files
  BY DEF Issue, Typed, TabTypes, RefreshRec
<1>2. File \subseteq Caller /\ Image \subseteq Caller /\ File \cap Image = {}
  BY CallersAre, TabAssumption
<1>3. RefreshInv'
  <2>1. \A d \in Caller : \A f \in refresh'[d].files : upload'[f] \in {"saved", "refresh-error", "cleared"}
    BY <1>1 DEF Current, RefreshInv
  <2>2. \A i \in Image : refresh'[i].at # "none" => call'[i].at = "refreshing"
    BY <1>1, <1>2 DEF Current, RefreshInv
  <2>3. \A f \in File : call'[f].op = "confirm" =>
          IF call'[f].at = "settled" THEN upload'[f] \in {"saved", "refresh-error", "cleared"}
          ELSE upload'[f] = "confirming"
    BY <1>2 DEF Current, RefreshInv
  <2>4. \A d \in Caller : /\ call'[d].op = "confirm" => d \in File
                          /\ call'[d].op \in {"reorder", "delete"} => d \in Image \/ astray'
    BY DEF Current, RefreshInv
  <2>5. \A d, e \in Caller : refresh'[d].newest /\ refresh'[e].newest => d = e
    BY <1>1
  <2>6. \A d \in Caller : refresh'[d].newest => refresh'[d].at # "none"
    BY <1>1
  <2>7. QED
    BY <2>1, <2>2, <2>3, <2>4, <2>5, <2>6 DEF RefreshInv
<1>4. GridKnown'
  BY <1>1 DEF GridKnown
<1>5. QED
  BY <1>3, <1>4 DEF Current

(* A refresh reads the product. *)
LEMMA ProductRead ==
  ASSUME Typed, Current, NEW c \in Caller, GetProduct(c)
  PROVE  Current'
<1>1. PICK q : q = Shown
  OBVIOUS
<1>2. /\ row' = row /\ call' = call
      /\ UNCHANGED <<grid, listStale, upload, astray>> /\ refresh[c].at = "sent"
  BY DEF GetProduct, coreVars
<1>3. /\ refresh'[c].at = "read" /\ refresh'[c].data = q
      /\ \A d \in Caller : /\ refresh'[d].newest = refresh[d].newest
                           /\ refresh'[d].files = refresh[d].files
                           /\ refresh'[d].at # "none" <=> refresh[d].at # "none"
      /\ \A d \in Caller \ {c} : refresh'[d] = refresh[d]
  <2>1. refresh' = [refresh EXCEPT ![c].at = "read", ![c].data = q]
    BY <1>1 DEF GetProduct
  <2>2. QED
    BY <1>2, <2>1 DEF Typed, TabTypes, RefreshRec
<1>4. Image \subseteq Caller
  BY CallersAre
<1>5. RefreshInv'
  <2>1. \A d, e \in Caller : refresh'[d].newest /\ refresh'[e].newest => d = e
    BY <1>3 DEF Current, RefreshInv
  <2>2. \A d \in Caller : refresh'[d].newest => refresh'[d].at # "none"
    BY <1>3 DEF Current, RefreshInv
  <2>3. \A i \in Image : refresh'[i].at # "none" => call'[i].at = "refreshing"
    BY <1>2, <1>3, <1>4 DEF Current, RefreshInv
  <2>4. \A d \in Caller : \A f \in refresh'[d].files : upload'[f] \in {"saved", "refresh-error", "cleared"}
    BY <1>2, <1>3 DEF Current, RefreshInv
  <2>5. QED
    BY <1>2, <2>1, <2>2, <2>3, <2>4 DEF Current, RefreshInv
<1>6. ASSUME ~astray' PROVE GridKnown'
  <2>1. Shown' = Shown /\ (\A i \in Image : CardChanged(i)' <=> CardChanged(i))
        /\ (\A f \in File : FileChanged(f)' <=> FileChanged(f))
    BY <1>2 DEF Shown, Ranks, With, CardChanged, FileChanged
  <2>2. ASSUME NEW d \in Caller, refresh'[d].newest, refresh'[d].at = "read" PROVE ReadKnown(d)'
    <3>1. CASE d = c
      <4>1. refresh'[d].data = Shown'
        BY <1>1, <1>3, <2>1, <3>1
      <4>2. QED
        BY <4>1 DEF ReadKnown
    <3>2. CASE d # c
      <4>1. ReadKnown(d)
        BY <1>2, <1>3, <1>6, <2>2, <3>2 DEF Current, GridKnown
      <4>2. QED
        BY <1>3, <2>1, <3>2, <4>1 DEF ReadKnown
    <3>3. QED
      BY <3>1, <3>2
  <2>3. ASSUME \A d \in Caller : ~refresh'[d].newest, ~listStale' PROVE ShownKnown'
    <3>1. ShownKnown
      BY <1>2, <1>3, <1>6, <2>3 DEF Current, GridKnown
    <3>2. QED
      BY <1>2, <2>1, <3>1 DEF ShownKnown
  <2>4. QED
    BY <2>2, <2>3 DEF GridKnown
<1>7. QED
  BY <1>5, <1>6 DEF Current, GridKnown

(* A refresh is over: it is applied, or it has failed; or it is no longer  *)
(* the newest, and changes nothing.                                        *)
LEMMA RefreshIsOver ==
  ASSUME Typed, Current, NEW c \in Caller, Over(c), refresh[c].at # "none",
         upload' \in [File -> Stage],
         \A f \in File : \/ upload'[f] = upload[f]
                         \/ f \in refresh[c].files /\ upload'[f] \in {"refresh-error", "cleared"},
         IF refresh[c].newest
         THEN listStale' \/ (refresh[c].at = "read" /\ grid' = refresh[c].data)
         ELSE UNCHANGED <<grid, listStale, upload>>
  PROVE  Current'
<1>1. /\ refresh' = [refresh EXCEPT ![c] = NoRefresh] /\ row' = row /\ astray' = astray
      /\ call' = IF c \in Image THEN [call EXCEPT ![c] = Idle] ELSE call
  BY DEF Over
<1>2. /\ refresh'[c].at = "none" /\ ~refresh'[c].newest /\ refresh'[c].files = {}
      /\ \A d \in Caller \ {c} : refresh'[d] = refresh[d]
  BY <1>1 DEF Typed, TabTypes, NoRefresh
<1>3. /\ \A d \in Caller : call'[d] = call[d] \/ (d = c /\ c \in Image /\ call'[d].op = "none")
      /\ c \in Image => call[c].at = "refreshing"
      /\ \A f \in File : call'[f] = call[f]
  BY <1>1, IdleCall, CallersAre, TabAssumption DEF Typed, CoreTypes, Current, RefreshInv
<1>4. /\ Image \subseteq Caller /\ File \subseteq Caller
      /\ \A d \in Caller : refresh[d].files \subseteq File
      /\ \A d \in Caller : \A f \in refresh[d].files : upload[f] \in {"saved", "refresh-error", "cleared"}
  BY CallersAre DEF Typed, TabTypes, RefreshRec, Current, RefreshInv
<1>5. RefreshInv'
  <2>1. \A d, e \in Caller : refresh'[d].newest /\ refresh'[e].newest => d = e
    BY <1>2 DEF Current, RefreshInv
  <2>2. \A d \in Caller : refresh'[d].newest => refresh'[d].at # "none"
    BY <1>2 DEF Current, RefreshInv
  <2>3. \A i \in Image : refresh'[i].at # "none" => call'[i].at = "refreshing"
    BY <1>2, <1>3, <1>4 DEF Current, RefreshInv
  <2>4. ASSUME NEW d \in Caller, NEW f \in refresh'[d].files
        PROVE  upload'[f] \in {"saved", "refresh-error", "cleared"}
    BY <1>2, <1>4, <2>4
  <2>5. ASSUME NEW f \in File, call'[f].op = "confirm"
        PROVE  IF call'[f].at = "settled" THEN upload'[f] \in {"saved", "refresh-error", "cleared"}
               ELSE upload'[f] = "confirming"
    BY <1>3, <1>4, <2>5 DEF Current, RefreshInv
  <2>6. \A d \in Caller : /\ call'[d].op = "confirm" => d \in File
                          /\ call'[d].op \in {"reorder", "delete"} => d \in Image \/ astray'
    BY <1>1, <1>3 DEF Current, RefreshInv
  <2>7. QED
    BY <2>1, <2>2, <2>3, <2>4, <2>5, <2>6 DEF RefreshInv
<1>6. ASSUME NEW i \in Image, CardChanged(i) PROVE CardChanged(i)'
  BY <1>3, <1>4, <1>6 DEF CardChanged
<1>7. ASSUME NEW f \in File \ refresh[c].files, FileChanged(f) PROVE FileChanged(f)'
  BY <1>3, <1>7 DEF FileChanged
<1>8. Shown' = Shown
  BY <1>1 DEF Shown, Ranks, With
<1>9. CASE refresh[c].newest
  <2>1. \A d \in Caller : ~refresh'[d].newest
    BY <1>2, <1>9 DEF Current, RefreshInv
  <2>2. ASSUME ~astray', ~listStale' PROVE ShownKnown'
    <3>1. ReadKnown(c) /\ grid' = refresh[c].data
      BY <1>1, <1>9, <2>2 DEF Current, GridKnown
    <3>2. QED
      BY <1>6, <1>7, <1>8, <3>1 DEF ReadKnown, ShownKnown
  <2>3. QED
    BY <1>5, <2>1, <2>2 DEF Current, GridKnown
<1>10. CASE ~refresh[c].newest
  <2>1. UNCHANGED <<grid, listStale, upload>>
    BY <1>10
  <2>2. ASSUME NEW f \in File, FileChanged(f) PROVE FileChanged(f)'
    BY <1>3, <2>1, <2>2 DEF FileChanged
  <2>3. ASSUME NEW d \in Caller, ~astray', refresh'[d].newest, refresh'[d].at = "read"
        PROVE  ReadKnown(d)'
    <3>1. d # c
      BY <1>2, <2>3
    <3>2. ReadKnown(d)
      BY <1>1, <1>2, <2>3, <3>1 DEF Current, GridKnown
    <3>3. QED
      BY <1>2, <1>6, <1>8, <2>2, <3>1, <3>2 DEF ReadKnown
  <2>4. ASSUME ~astray', \A d \in Caller : ~refresh'[d].newest, ~listStale' PROVE ShownKnown'
    <3>1. \A d \in Caller : ~refresh[d].newest
      BY <1>2, <1>10, <2>4
    <3>2. ShownKnown
      BY <1>1, <2>1, <2>4, <3>1 DEF Current, GridKnown
    <3>3. QED
      BY <1>6, <1>8, <2>1, <2>2, <3>2 DEF ShownKnown
  <2>5. QED
    BY <1>5, <2>3, <2>4 DEF Current, GridKnown
<1>11. QED
  BY <1>9, <1>10

(* What a step of core does to the order, and to what is still to come. *)
LEMMA CoreChanges ==
  ASSUME Typed, Positions, Current, NEW c \in Caller, CoreStep(c), UNCHANGED <<upload, astray>>
  PROVE  /\ call[c].at \notin {"refreshing", "settled", "ok", "failed", "idle", "stale"}
         /\ ~astray' => /\ c \in Image /\ CardChanged(c) => CardChanged(c)'
                        /\ c \in File /\ FileChanged(c) => FileChanged(c)'
                        /\ \/ Shown' = Shown
                           \/ c \in Image /\ CardChanged(c)'
                           \/ c \in File /\ FileChanged(c)' /\ upload[c] = "confirming"
<1> USE DEF Typed
<1>a. /\ row \in [Image -> Row] /\ (row' = row => Shown' = Shown)
      /\ call[c].op = "confirm" => c \in File /\ (call[c].at # "settled" => upload[c] = "confirming")
      /\ call[c].op \in {"reorder", "delete"} => c \in Image \/ astray
  <2>1. row' = row => Shown' = Shown
    BY DEF Shown, Ranks, With
  <2>2. QED
    BY <2>1 DEF CoreTypes, Current, RefreshInv
<1> DEFINE Busily == call[c].at \notin {"refreshing", "settled", "ok", "failed", "idle", "stale"}
<1>b. ASSUME Busily, call[c].at # "dropDeleted", Shown' = Shown
      PROVE  /\ c \in Image /\ CardChanged(c) => CardChanged(c)'
             /\ c \in File /\ FileChanged(c) => FileChanged(c)'
  BY <1>b DEF CardChanged, FileChanged
<1>1. CASE FindStale(c) \/ (\E i \in Image : SweepRow(c, i)) \/ SweepObject(c)
  <2>1. Busily /\ call[c].at # "dropDeleted"
    BY <1>1 DEF FindStale, SweepRow, SweepObject, At
  <2>2. CASE FindStale(c) \/ SweepObject(c)
    BY <2>1, <2>2, <1>a, <1>b DEF FindStale, SweepObject
  <2>3. ASSUME NEW i \in Image, SweepRow(c, i) PROVE Shown' = Shown
    <3>1. CASE row[i].status = "pending" /\ row' = [row EXCEPT ![i] = Gone]
      BY <3>1, <1>a, GoneRow, ShownStays
    <3>2. QED
      BY <2>3, <3>1, <1>a DEF SweepRow
  <2>4. QED
    BY <1>1, <2>1, <2>2, <2>3, <1>b
<1>2. CASE LockProduct(c) \/ CheckObject(c) \/ RejectObject(c) \/ CheckOrder(c)
           \/ ReadRemaining(c) \/ WriteAlt(c)
  <2>1. Busily /\ call[c].at # "dropDeleted"
    BY <1>2 DEF LockProduct, Swept, CheckObject, RejectObject, CheckOrder, ReadRemaining, WriteAlt, At
  <2>2. row' = row
    BY <1>2 DEF LockProduct, CheckObject, RejectObject, CheckOrder, ReadRemaining, WriteAlt
  <2>3. QED
    BY <2>1, <2>2, <1>a, <1>b
<1>3. CASE InsertPending(c)
  <2>1. Busily /\ call[c].at # "dropDeleted"
    BY <1>3 DEF InsertPending, At
  <2>2. PICK n \in With("none") : n = NextImage
    BY <1>3, NextImageIsFree DEF InsertPending
  <2>3. CASE row' = [row EXCEPT ![n] = [status |-> "pending", pos |-> call[c].pos, old |-> FALSE]]
    <3>1. n \in Image /\ row[n].status = "none"
      BY DEF With
    <3>2. row'[n].status = "pending" /\ \A i \in Image \ {n} : row'[i] = row[i]
      BY <2>3, <3>1, <1>a
    <3>3. Shown' = Shown
      BY <3>1, <3>2, ShownStays
    <3>4. QED
      BY <2>1, <3>3, <1>b
  <2>4. CASE row' = row
    BY <2>1, <2>4, <1>a, <1>b
  <2>5. QED
    BY <1>3, <2>2, <2>3, <2>4 DEF InsertPending
<1>4. CASE MakeReady(c)
  <2>1. Busily /\ call[c].at # "dropDeleted" /\ call[c].op = "confirm" /\ call[c].at = "ready"
    BY <1>4 DEF MakeReady, At
  <2>2. CASE Becomes(c, "confirm", "failed", call[c].img, 0, <<>>, {}) /\ row' = row
    BY <2>1, <2>2, <1>a, <1>b
  <2>3. CASE Becomes(c, "confirm", "ok", call[c].img, 0, <<>>, {})
    BY <2>1, <2>3, <1>a, TabAssumption DEF Becomes, CardChanged, FileChanged
  <2>4. QED
    BY <1>4, <2>2, <2>3, MakeReadyDoes
<1>5. CASE RejectRow(c)
  <2>1. Busily /\ call[c].at # "dropDeleted" /\ call[c].img \in Image
    BY <1>5 DEF RejectRow, At, Roles
  <2>2. PICK i \in Image : i = call[c].img
    BY <2>1
  <2>3. CASE row[i].status = "pending" /\ row' = [row EXCEPT ![i] = Gone]
    <3>1. Shown' = Shown
      BY <2>3, <1>a, GoneRow, ShownStays
    <3>2. QED
      BY <2>1, <3>1, <1>b
  <2>4. CASE row' = row
    BY <2>1, <2>4, <1>a, <1>b
  <2>5. QED
    BY <1>5, <2>2, <2>3, <2>4 DEF RejectRow
<1>6. CASE WriteOrder(c)
  <2>1. Busily /\ call[c].at # "dropDeleted" /\ call[c].op = "reorder"
    BY <1>6 DEF WriteOrder, At
  <2>2. CASE Becomes(c, "reorder", "failed", call[c].img, 0, <<>>, {}) /\ row' = row
    BY <2>1, <2>2, <1>a, <1>b
  <2>3. CASE Becomes(c, "reorder", "ok", call[c].img, 0, <<>>, {})
    BY <2>1, <2>3, <1>a, TabAssumption DEF Becomes, CardChanged, FileChanged
  <2>4. QED
    BY <1>6, <2>2, <2>3, WriteOrderDoes
<1>7. CASE WriteDelete(c)
  <2>1. Busily /\ call[c].at # "dropDeleted" /\ call[c].op = "delete"
    BY <1>7 DEF WriteDelete, At
  <2>2. CASE Becomes(c, "delete", "failed", call[c].img, 0, <<>>, {}) /\ row' = row
    BY <2>1, <2>2, <1>a, <1>b
  <2>3. CASE Becomes(c, "delete", "dropDeleted", call[c].img, 0, <<>>, {})
    BY <2>1, <2>3, <1>a, TabAssumption DEF Becomes, CardChanged, FileChanged
  <2>4. QED
    BY <1>7, <2>2, <2>3, WriteDeleteDoes
<1>8. CASE DeleteObject(c)
  <2>1. Becomes(c, "delete", "ok", call[c].img, 0, <<>>, {})
    BY <1>8, DeleteObjectDoes
  <2>2. row' = row /\ At(c, "delete", "dropDeleted")
    BY <1>8 DEF DeleteObject
  <2>3. QED
    BY <2>1, <2>2, <1>a DEF At, Becomes, CardChanged, FileChanged
<1>9. QED
  BY <1>1, <1>2, <1>3, <1>4, <1>5, <1>6, <1>7, <1>8 DEF CoreStep

(* No step leaves the tab with an order that it takes for core's and is    *)
(* not.                                                                    *)
LEMMA CurrentStep ==
  ASSUME Typed, Positions, Current, [Next]_vars
  PROVE  Current'
<1> USE CallersAre, TabAssumption DEF Typed
<1>a. TabTypes' /\ NextPosition \in Nat /\ (With("none") # {} => NextImage \in Image)
  BY TabTypesStay, NextPositionFacts, NextImageIsFree, PhotosAre
<1>b. row' = row => Shown' = Shown
  BY DEF Shown, Ranks, With
<1>1. ASSUME NEW c \in Caller, Core(c) PROVE Current'
  <2>1. CoreStep(c) /\ UNCHANGED <<grid, listStale, upload, token, refresh, astray>>
    BY <1>1 DEF Core, tabVars
  <2>2. /\ \A d \in Caller \ {c} : call'[d] = call[d]
        /\ call'[c].op = call[c].op /\ call'[c].at # "settled"
    BY <1>a, <2>1, CoreKeeps
  <2>3. /\ call[c].at \notin {"refreshing", "settled", "ok", "failed", "idle", "stale"}
        /\ ~astray' => /\ c \in Image /\ CardChanged(c) => CardChanged(c)'
                       /\ c \in File /\ FileChanged(c) => FileChanged(c)'
                       /\ \/ Shown' = Shown
                          \/ c \in Image /\ CardChanged(c)'
                          \/ c \in File /\ FileChanged(c)' /\ upload[c] = "confirming"
    BY <2>1, CoreChanges
  <2>4. QED
    BY <2>1, <2>2, <2>3, CallMoves
<1>2. ASSUME NEW c \in Caller, GetProduct(c) PROVE Current'
  BY <1>2, ProductRead
<1>3. ASSUME NEW c \in Caller, Apply(c) PROVE Current'
  <2>1. \A f \in File : \/ upload'[f] = upload[f]
                        \/ f \in refresh[c].files /\ upload'[f] \in {"refresh-error", "cleared"}
    BY <1>3 DEF Apply
  <2>2. QED
    BY <1>3, <1>a, <2>1, RefreshIsOver DEF Apply, TabTypes
<1>4. ASSUME NEW c \in Caller, RefreshFails(c) PROVE Current'
  <2>1. \A f \in File : \/ upload'[f] = upload[f]
                        \/ f \in refresh[c].files /\ upload'[f] \in {"refresh-error", "cleared"}
    BY <1>4 DEF RefreshFails
  <2>2. QED
    BY <1>4, <1>a, <2>1, RefreshIsOver DEF RefreshFails, TabTypes
<1>5. ASSUME NEW f \in File, NEW b \in {"good", "bad"}, Put(f, b) PROVE Current'
  <2>1. Becomes(f, "confirm", "start", call[f].img, 0, <<>>, {}) /\ At(f, "upload", "ok")
    BY <1>5, PutKeepsPositions
  <2>2. /\ upload' = [upload EXCEPT ![f] = "confirming"] /\ upload[f] = "uploading"
        /\ UNCHANGED <<row, grid, listStale, refresh, astray>>
    BY <1>5 DEF Put, Moves
  <2>3. ~FileChanged(f)
    BY <2>1 DEF FileChanged, At
  <2>4. QED
    BY <1>a, <2>1, <2>2, <2>3, FileMoves DEF TabTypes, Becomes
<1>6. ASSUME NEW f \in File, Confirmed(f) PROVE Current'
  <2>1. /\ upload' = [upload EXCEPT ![f] = "saved"] /\ upload[f] = "confirming"
        /\ UNCHANGED <<row, grid, listStale, refresh, astray>>
    BY <1>6 DEF Confirmed, Moves
  <2>2. call[f].op = "confirm"
    BY <2>1 DEF Roles, FileRole
  <2>3. Becomes(f, "confirm", "settled", call[f].img, call[f].pos, call[f].order, call[f].todo)
    BY <1>6, <2>2, GoesBecomes DEF Confirmed, Place
  <2>4. upload'[f] = "saved"
    BY <2>1 DEF TabTypes
  <2>5. FileChanged(f)'
    BY <2>3, <2>4 DEF FileChanged, Becomes
  <2>6. QED
    BY <1>a, <2>1, <2>3, <2>4, <2>5, FileMoves DEF TabTypes, Becomes
<1>7. ASSUME NEW f \in File, BatchSettled(f) PROVE Current'
  <2>1. Becomes(f, "none", "idle", NoImage, 0, <<>>, {})
    BY <1>7, DoneBecomes DEF BatchSettled, Done
  <2>2. QED
    BY <1>7, <2>1, Issued DEF BatchSettled, Becomes
<1>8. ASSUME NEW c \in Image, CardAnswered(c) PROVE Current'
  <2>1. Becomes(c, call[c].op, "refreshing", call[c].img, call[c].pos, call[c].order, call[c].todo)
    BY <1>8, GoesBecomes DEF CardAnswered, Place
  <2>2. QED
    BY <1>8, <2>1, Issued DEF CardAnswered, Becomes
<1>9. ASSUME NEW c \in Caller, RefreshAgain(c) PROVE Current'
  BY <1>9, Issued DEF RefreshAgain, coreVars
<1>10. ASSUME NEW c \in Caller, ServerError(c) PROVE Current'
  <2>1. Becomes(c, call[c].op, "failed", call[c].img, 0, <<>>, {})
    BY <1>10, AnswerBecomes DEF ServerError, Place
  <2>2. /\ UNCHANGED <<row, grid, listStale, upload, refresh>>
        /\ call[c].at \notin {"ok", "settled", "refreshing"}
    BY <1>10 DEF ServerError, Answers
  <2>3. (astray => astray') /\ (call[c].at = "dropDeleted" => astray')
    BY <1>10 DEF ServerError
  <2>4. ~astray' => ~CardChanged(c) /\ ~FileChanged(c)
    BY <2>2, <2>3 DEF CardChanged, FileChanged
  <2>5. QED
    BY <1>b, <2>1, <2>2, <2>3, <2>4, CallMoves DEF Becomes
<1>11. ASSUME NEW f \in File, Upload(f) PROVE Current'
  <2>1. Becomes(f, "upload", "start", NoImage, 0, <<>>, {})
    BY <1>11, RequestBecomes, EmptyOrder DEF Upload, Op
  <2>2. /\ upload' = [upload EXCEPT ![f] = "uploading"] /\ upload[f] \in {"idle", "error"}
        /\ UNCHANGED <<row, grid, listStale, refresh, astray>>
    BY <1>11 DEF Upload, Moves
  <2>3. ~FileChanged(f)
    BY <2>2 DEF FileChanged
  <2>4. QED
    BY <1>a, <2>1, <2>2, <2>3, FileMoves DEF TabTypes, Becomes
<1>12. ASSUME NEW f \in File, UploadFails(f) PROVE Current'
  <2>1. Becomes(f, "none", "idle", NoImage, 0, <<>>, {})
    BY <1>12, DoneBecomes DEF UploadFails, Done
  <2>2. /\ upload' = [upload EXCEPT ![f] = "error"] /\ upload[f] \in {"uploading", "confirming"}
        /\ UNCHANGED <<row, grid, listStale, refresh>>
    BY <1>12 DEF UploadFails, Moves
  <2>a. astray => astray'
    BY <1>12 DEF UploadFails
  <2>3. ~astray' => ~FileChanged(f)
    <3>1. CASE call[f].at = "failed"
      BY <3>1 DEF FileChanged
    <3>2. CASE upload[f] = "uploading"
      BY <3>2 DEF FileChanged
    <3>3. QED
      BY <1>12, <2>2, <3>1, <3>2 DEF UploadFails, Answered
  <2>4. QED
    BY <1>a, <2>a, <2>1, <2>2, <2>3, FileMoves DEF TabTypes, Becomes
<1>c. ASSUME NEW i \in Image, NEW op \in {"reorder", "delete", "alt"}, NEW o \in OrderSet,
             call[i] = Idle, Request(i, op, i, o), CardUnchanged
      PROVE  Current'
  <2>1. Becomes(i, op, "start", i, 0, o, {})
    BY <1>c, RequestBecomes DEF Op
  <2>2. ~CardChanged(i) /\ ~FileChanged(i) /\ call[i].at = "idle"
    BY <1>c, IdleCall DEF CardChanged, FileChanged
  <2>3. QED
    BY <1>b, <1>c, <2>1, <2>2, CallMoves DEF CardUnchanged, tabVars, Becomes
<1>13. ASSUME NEW i \in Image, NEW j \in Image, Move(i, j) PROVE Current'
  <2>1. Swapped(grid, i, j) \in OrderSet
    BY <1>13, GridFacts DEF Move
  <2>2. call[i] = Idle
    BY <1>13 DEF Move, Busy
  <2>3. QED
    BY <1>c, <1>13, <2>1, <2>2 DEF Move
<1>14. ASSUME NEW i \in Image, Remove(i) \/ SaveAlt(i) PROVE Current'
  BY <1>c, <1>14, EmptyOrder DEF Remove, SaveAlt
<1>15. ASSUME NEW c \in Image, CardFails(c) PROVE Current'
  <2>1. Becomes(c, "none", "idle", NoImage, 0, <<>>, {})
    BY <1>15, DoneBecomes DEF CardFails, Done
  <2>2. /\ UNCHANGED <<row, grid, listStale, upload, refresh>>
        /\ call[c].at \in {"failed", "ok"}
    BY <1>15 DEF CardFails, Answered
  <2>3. astray => astray'
    BY <1>15 DEF CardFails
  <2>4. ~astray' => ~CardChanged(c)
    BY <1>15 DEF CardFails, Answered, CardChanged
  <2>5. QED
    BY <1>b, <2>1, <2>2, <2>3, <2>4, CallMoves DEF Becomes
<1>16. ASSUME NEW c \in Other, OtherActs(c) PROVE Current'
  <2>1. /\ UNCHANGED <<row, grid, listStale, upload, refresh>> /\ (astray => astray')
        /\ call[c].at # "refreshing"
    BY <1>16, IdleCall DEF OtherActs
  <2>2. PICK op \in {"upload", "delete", "reorder"}, i \in Image \cup {NoImage}, o \in OrderSet :
          Request(c, op, i, o) /\ (op # "upload" => astray')
    <3>1. \A k, m \in With("ready") : Swapped(Shown, k, m) \in OrderSet
      BY ShownIsOrder, SwappedIsOrder DEF CoreTypes
    <3>2. Rows \subseteq Image
      BY PhotosAre
    <3>3. QED
      BY <1>16, <3>1, <3>2, EmptyOrder DEF OtherActs
  <2>3. Becomes(c, op, "start", i, 0, o, {})
    BY <2>2, RequestBecomes DEF Op
  <2>4. QED
    BY <1>b, <2>1, <2>2, <2>3, CallMoves DEF Becomes
<1>17. ASSUME NEW c \in Other, OtherAnswered(c) PROVE Current'
  <2>1. Becomes(c, "none", "idle", NoImage, 0, <<>>, {})
    BY <1>17, DoneBecomes DEF OtherAnswered, Done
  <2>2. UNCHANGED <<row, grid, listStale, upload, refresh, astray>> /\ call[c].at # "refreshing"
    BY <1>17 DEF OtherAnswered, tabVars, Answers
  <2>3. QED
    BY <1>b, <2>1, <2>2, CallMoves DEF Becomes
<1>d. ASSUME UNCHANGED <<call, grid, listStale, upload, refresh, astray>>, Shown' = Shown
      PROVE  Current'
  <2>1. RefreshInv'
    BY <1>d DEF Current, RefreshInv
  <2>2. (\A i : CardChanged(i)' <=> CardChanged(i)) /\ (\A f : FileChanged(f)' <=> FileChanged(f))
    BY <1>d DEF CardChanged, FileChanged
  <2>3. GridKnown'
    BY <1>d, <2>2 DEF Current, GridKnown, ReadKnown, ShownKnown
  <2>4. QED
    BY <2>1, <2>3 DEF Current
<1>18. ASSUME NEW i \in Image, Age(i), UNCHANGED <<tabVars, clicks, faults>> PROVE Current'
  <2>1. call' = call /\ UNCHANGED <<grid, listStale, upload, refresh, astray>>
    BY <1>18 DEF Age, tabVars
  <2>2. Shown' = Shown
    BY <1>18, ShownStays DEF Age, CoreTypes, Row
  <2>3. QED
    BY <1>d, <2>1, <2>2
<1>19. CASE UNCHANGED vars
  <2>1. row' = row /\ call' = call /\ UNCHANGED <<grid, listStale, upload, refresh, astray>>
    BY <1>19 DEF vars, coreVars, tabVars
  <2>2. QED
    BY <1>b, <1>d, <2>1
<1>20. ASSUME NEW c \in Caller, TabStep(c) PROVE Current'
  BY <1>2, <1>3, <1>5, <1>6, <1>7, <1>8, <1>20 DEF TabStep
<1>21. CASE Next
  BY <1>1, <1>4, <1>9, <1>10, <1>11, <1>12, <1>13, <1>14, <1>15, <1>16, <1>17, <1>18, <1>20, <1>21
     DEF Next
<1>22. QED
  BY <1>19, <1>21

(* So what the tab knows of the order in core is true at all times.        *)
LEMMA CurrentAlways == Spec => []Current
<1>1. Init => Current
  <2> SUFFICES ASSUME Init PROVE Current
    OBVIOUS
  <2>1. /\ \A c \in Caller : call[c] = Idle /\ refresh[c] = NoRefresh
        /\ grid = Shown /\ File \subseteq Caller /\ Image \subseteq Caller
    BY CallersAre DEF Init
  <2>2. RefreshInv
    BY <2>1, IdleCall DEF RefreshInv, NoRefresh
  <2>3. GridKnown
    BY <2>1 DEF GridKnown, ShownKnown, NoRefresh
  <2>4. QED
    BY <2>2, <2>3 DEF Current
<1>2. Typed /\ Positions /\ Current /\ [Next]_vars => Current'
  BY CurrentStep
<1>3. QED
  BY <1>1, <1>2, TypedAlways, PTL DEF Spec

LEMMA UnlockedGrid == Typed /\ Current => UnlockedGridIsCurrent
<1> SUFFICES ASSUME Typed, Current, ~GridLocked, Busy = {}, ~astray PROVE grid = Shown
  BY DEF UnlockedGridIsCurrent
<1>1. \A c \in Caller : ~refresh[c].newest
  BY DEF GridLocked, InFlight, Current, RefreshInv
<1>2. ShownKnown
  BY <1>1 DEF GridLocked, Current, GridKnown
<1>3. ASSUME NEW i \in Image PROVE ~CardChanged(i)
  <2>1. call[i] = Idle
    BY DEF Busy
  <2>2. QED
    BY <2>1, IdleCall DEF CardChanged
<1>4. ASSUME NEW f \in File PROVE ~FileChanged(f)
  BY DEF GridLocked, Unsettled, FileChanged
<1>5. QED
  BY <1>2, <1>3, <1>4 DEF ShownKnown

(* Whenever the tab lets a card be moved or removed, the order it shows is *)
(* the order in core, however requests and refreshes have overtaken each   *)
(* other, if nothing has changed behind its back.                          *)
THEOREM UnlockedGridIsTrue == Spec => []UnlockedGridIsCurrent
BY UnlockedGrid, TypedAlways, CurrentAlways, PTL

-----------------------------------------------------------------------------
(* Places.  Distinct positions give every photo a place of its own, from 0 *)
(* up, without gaps.                                                       *)
Apart(I) == \A i, j \in I : i # j => row[i].pos # row[j].pos

LEMMA RankOrders ==
  ASSUME row \in [Image -> Row], NEW I \in SUBSET Image, NEW i \in I, NEW j \in I,
         row[i].pos < row[j].pos
  PROVE  Ranks(I)[i] < Ranks(I)[j]
<1> DEFINE A == {k \in I : row[k].pos < row[i].pos}
           B == {k \in I : row[k].pos < row[j].pos}
<1>1. \A k \in I : row[k].pos \in Int
  BY DEF Row
<1>2. A \in SUBSET B /\ i \in B /\ i \notin A /\ B \in SUBSET Image
  BY <1>1
<1>3. Ranks(I)[i] = Cardinality(A) /\ Ranks(I)[j] = Cardinality(B)
  BY DEF Ranks
<1>4. A # B
  BY <1>2
<1> HIDE DEF A, B
<1>5. Cardinality(A) < Cardinality(B)
  BY <1>2, <1>4, Parts
<1>6. QED
  BY <1>3, <1>5

LEMMA RanksDiffer ==
  ASSUME row \in [Image -> Row], NEW I \in SUBSET Image, Apart(I)
  PROVE  \A i, j \in I : i # j => Ranks(I)[i] # Ranks(I)[j]
<1> SUFFICES ASSUME NEW i \in I, NEW j \in I, i # j PROVE Ranks(I)[i] # Ranks(I)[j]
  OBVIOUS
<1>1. row[i].pos \in Int /\ row[j].pos \in Int /\ row[i].pos # row[j].pos
  BY DEF Apart, Row
<1>2. Ranks(I)[i] \in Int /\ Ranks(I)[j] \in Int
  BY RankFacts
<1>3. CASE row[i].pos < row[j].pos
  BY <1>2, <1>3, RankOrders
<1>4. CASE row[j].pos < row[i].pos
  BY <1>2, <1>4, RankOrders
<1>5. QED
  BY <1>1, <1>3, <1>4

(* An order of n photos without repeats has every place from 0 to n - 1.   *)
LEMMA PlacesAreTaken ==
  ASSUME NEW q \in OrderSet, \A i, j \in DOMAIN q : i # j => q[i] # q[j]
  PROVE  /\ q \in Injection(DOMAIN q, 0 .. Cardinality(DOMAIN q) - 1)
         /\ \A m \in 0 .. Cardinality(DOMAIN q) - 1 : \E i \in DOMAIN q : q[i] = m
<1> DEFINE D == DOMAIN q
           n == Cardinality(DOMAIN q)
<1>1. /\ D \in SUBSET Image /\ q \in [D -> Nat] /\ IsFiniteSet(D) /\ n \in Nat
      /\ \A i \in D : q[i] \in Nat /\ q[i] < n
  BY OrderFacts, Parts
<1>2. q \in [D -> 0 .. n - 1]
  BY <1>1
<1>3. q \in Injection(D, 0 .. n - 1)
  BY <1>2 DEF Injection, IsInjective
<1>4. IsFiniteSet(0 .. n - 1) /\ Cardinality(0 .. n - 1) = n
  <2>1. 0 \in Int /\ n - 1 \in Int
    BY <1>1
  <2>2. /\ IsFiniteSet(0 .. n - 1)
        /\ Cardinality(0 .. n - 1) = IF 0 > n - 1 THEN 0 ELSE (n - 1) - 0 + 1
    BY ONLY <2>1, FS_Interval
  <2>3. QED
    BY <1>1, <2>2
<1>5. q \in Surjection(D, 0 .. n - 1)
  BY <1>3, <1>4, FS_Injection
<1>6. QED
  BY <1>3, <1>5 DEF Surjection

(* So as many photos are before a place as its number says.                *)
LEMMA BeforeAPlace ==
  ASSUME NEW q \in OrderSet, \A i, j \in DOMAIN q : i # j => q[i] # q[j], NEW k \in DOMAIN q
  PROVE  Cardinality({i \in DOMAIN q : q[i] < q[k]}) = q[k]
<1> DEFINE D == DOMAIN q
           n == Cardinality(DOMAIN q)
           m == q[k]
           A == {i \in DOMAIN q : q[i] < q[k]}
           f == [i \in A |-> q[i]]
<1>1. /\ D \in SUBSET Image /\ q \in [D -> Nat] /\ n \in Nat
      /\ \A i \in D : q[i] \in Nat /\ q[i] < n
  BY OrderFacts, Parts
<1>2. A \in SUBSET Image /\ m \in Nat /\ m < n
  BY <1>1
<1>3. f \in [A -> 0 .. m - 1] /\ \A i, j \in A : f[i] = f[j] => i = j
  BY <1>1
<1>4. \A t \in 0 .. m - 1 : \E i \in A : f[i] = t
  <2> SUFFICES ASSUME NEW t \in 0 .. m - 1 PROVE \E i \in A : f[i] = t
    OBVIOUS
  <2>1. t \in 0 .. n - 1 /\ t < m
    BY <1>1, <1>2
  <2>2. PICK i \in D : q[i] = t
    BY <2>1, PlacesAreTaken
  <2>3. i \in A
    BY <2>1, <2>2
  <2>4. QED
    BY <2>2, <2>3
<1>5. IsFiniteSet(0 .. m - 1) /\ Cardinality(0 .. m - 1) = m
  <2>1. 0 \in Int /\ m - 1 \in Int
    BY <1>2
  <2>2. /\ IsFiniteSet(0 .. m - 1)
        /\ Cardinality(0 .. m - 1) = IF 0 > m - 1 THEN 0 ELSE (m - 1) - 0 + 1
    BY ONLY <2>1, FS_Interval
  <2>3. QED
    BY <1>2, <2>2
<1> HIDE DEF A, f, m
<1>6. f \in Injection(A, 0 .. m - 1) /\ f \in Surjection(A, 0 .. m - 1)
  BY <1>3, <1>4 DEF Injection, IsInjective, Surjection
<1>7. Cardinality(A) = Cardinality(0 .. m - 1)
  BY <1>5, <1>6, FS_Injection
<1>8. QED
  BY <1>5, <1>7 DEF A, m

(* The same of any rows, before a step or after it.                        *)
RanksIn(r, I) == [i \in I |-> Cardinality({j \in I : r[j].pos < r[i].pos})]

(* If the photos of D stand before those of E, they have the first places, *)
(* and the others follow.                                                  *)
LEMMA RanksOfTwoParts ==
  ASSUME NEW r \in [Image -> Row], NEW D \in SUBSET Image, NEW E \in SUBSET Image, D \cap E = {},
         \A i \in D, k \in E : r[i].pos < r[k].pos
  PROVE  /\ \A i \in D : RanksIn(r, D \cup E)[i] = RanksIn(r, D)[i]
         /\ \A k \in E : RanksIn(r, D \cup E)[k] = Cardinality(D) + RanksIn(r, E)[k]
<1>1. \A i \in Image : r[i].pos \in Int
  BY DEF Row
<1>2. ASSUME NEW i \in D PROVE RanksIn(r, D \cup E)[i] = RanksIn(r, D)[i]
  <2>1. {j \in D \cup E : r[j].pos < r[i].pos} = {j \in D : r[j].pos < r[i].pos}
    BY <1>1
  <2>2. QED
    BY <2>1 DEF RanksIn
<1>3. ASSUME NEW k \in E PROVE RanksIn(r, D \cup E)[k] = Cardinality(D) + RanksIn(r, E)[k]
  <2> DEFINE B == {j \in E : r[j].pos < r[k].pos}
  <2>1. {j \in D \cup E : r[j].pos < r[k].pos} = D \cup B
    BY <1>1
  <2>2. D \cap B = {} /\ B \in SUBSET Image
    OBVIOUS
  <2>3. RanksIn(r, D \cup E)[k] = Cardinality(D \cup B) /\ RanksIn(r, E)[k] = Cardinality(B)
    BY <2>1 DEF RanksIn
  <2> HIDE DEF B
  <2>4. /\ IsFiniteSet(D) /\ IsFiniteSet(B) /\ Cardinality(D) \in Nat /\ Cardinality(B) \in Nat
    BY <2>2, Parts
  <2>5. Cardinality(D \cup B) = Cardinality(D) + Cardinality(B) - Cardinality(D \cap B)
    BY <2>4, FS_Union
  <2>6. Cardinality(D \cap B) = 0
    BY <2>2, FS_EmptySet
  <2>7. QED
    BY <2>3, <2>4, <2>5, <2>6
<1>4. QED
  BY <1>2, <1>3

(* An order that swaps two neighbours among photos which stand before all  *)
(* others: written, it swaps them among all photos.                        *)
LEMMA SwapIsWritten ==
  ASSUME CoreTypes, CoreTypes', Apart(With("ready")), NEW D \in SUBSET Image,
         NEW E \in SUBSET Image, With("ready") = D \cup E, D \cap E = {},
         NEW i \in D, NEW j \in D, Ranks(D)[j] = Ranks(D)[i] + 1,
         \A d \in D, k \in E : row[d].pos < row[k].pos,
         NEW order, order = Swapped(Ranks(D), i, j),
         row' = Renumbered(NewOrder(order)), ~Collide(Renumbered(NewOrder(order)))
  PROVE  /\ i \in With("ready") /\ j \in With("ready")
         /\ Shown[j] = Shown[i] + 1 /\ Shown' = Swapped(Shown, i, j)
<1> DEFINE n == Cardinality(D)
<1>1. /\ With("ready") \in SUBSET Image
      /\ row \in [Image -> Row] /\ row' \in [Image -> Row]
  BY DEF With, CoreTypes
<1>2. /\ Ranks(D) \in OrderSet /\ Ranks(D) \in [D -> Nat] /\ DOMAIN Ranks(D) = D
      /\ order \in OrderSet /\ order \in [D -> Nat] /\ DOMAIN order = D /\ n \in Nat
  <2>1. Ranks(D) \in OrderSet /\ Ranks(D) \in [D -> Nat] /\ DOMAIN Ranks(D) = D
    BY <1>1, RankFacts
  <2>2. order \in OrderSet
    BY <2>1, SwappedIsOrder
  <2>3. DOMAIN order = D /\ order \in [D -> Nat]
    BY <2>1 DEF Swapped
  <2>4. QED
    BY <1>1, <2>1, <2>2, <2>3, Parts
<1>3. \A k, m \in D : k # m => order[k] # order[m]
  <2>1. \A k, m \in D : k # m => Ranks(D)[k] # Ranks(D)[m]
    <3>1. Apart(D)
      BY DEF Apart
    <3>2. QED
      BY <1>1, <3>1, RanksDiffer
  <2>2. \A k \in D : order[k] = IF k = j THEN Ranks(D)[i] ELSE IF k = i THEN Ranks(D)[j] ELSE Ranks(D)[k]
    BY <1>2 DEF Swapped
  <2>3. QED
    BY <2>1, <2>2
<1>4. /\ DOMAIN NewOrder(order) = D \cup With("pending")
      /\ \A k \in D : NewOrder(order)[k] = order[k]
  BY <1>2, NewOrderFits
<1>5. /\ \A k \in Image : row'[k].status = row[k].status
      /\ \A k \in D : row'[k].pos = order[k]
      /\ \A k \in E : row'[k].pos = row[k].pos
  <2>1. \A k \in Image : row[k] \in [status : {"none", "pending", "ready", "gone"},
                                     pos : 0..Cardinality(Image) - 1, old : BOOLEAN]
    BY <1>1 DEF Row
  <2>2. \A k \in Image : row'[k] = IF k \in D \cup With("pending")
                                   THEN [row[k] EXCEPT !.pos = NewOrder(order)[k]] ELSE row[k]
    BY <1>4 DEF Renumbered
  <2>3. \A k \in E : k \notin D \cup With("pending")
    BY DEF With
  <2>4. QED
    BY <1>1, <1>4, <2>1, <2>2, <2>3
<1>6. With("ready")' = With("ready")
  BY <1>5 DEF With
(* The places from 0 to n - 1 are taken by D, so the others come after. *)
<1>7. ASSUME NEW d \in D, NEW k \in E PROVE row'[d].pos < row'[k].pos
  <2>1. row'[d].pos = order[d] /\ order[d] < n /\ order[d] \in Nat /\ row'[k].pos \in Nat
    BY <1>1, <1>2, <1>5, OrderFacts DEF Row
  <2>2. ASSUME row'[k].pos < n PROVE FALSE
    <3>1. row'[k].pos \in 0 .. n - 1
      BY <1>2, <2>1, <2>2
    <3>2. PICK m \in D : order[m] = row'[k].pos
      BY <1>2, <1>3, <3>1, PlacesAreTaken
    <3>3. m # k /\ m \in Image /\ k \in Image /\ row'[m].pos = row'[k].pos
      BY <1>1, <1>5, <3>2
    <3>4. row'[m].status = "ready" /\ row'[k].status = "ready"
      BY <1>1, <1>5, <3>3 DEF With
    <3>5. Renumbered(NewOrder(order)) = row'
      OBVIOUS
    <3>6. QED
      BY <3>3, <3>4, <3>5 DEF Collide
  <2>3. QED
    BY <1>2, <2>1, <2>2
<1>a. /\ Shown = RanksIn(row, D \cup E) /\ Shown' = RanksIn(row', D \cup E)
      /\ Ranks(D) = RanksIn(row, D)
  <2>1. Ranks(D) = RanksIn(row, D)
    BY DEF Ranks, RanksIn
  <2>2. Shown = RanksIn(row, With("ready")) /\ Shown' = RanksIn(row', With("ready")')
    BY DEF Shown, Ranks, RanksIn
  <2>3. QED
    BY <1>1, <1>6, <2>1, <2>2
<1>8. \A d \in D : RanksIn(row', D)[d] = order[d]
  <2> SUFFICES ASSUME NEW d \in D PROVE RanksIn(row', D)[d] = order[d]
    OBVIOUS
  <2>1. Cardinality({k \in D : order[k] < order[d]}) = order[d]
    BY <1>2, <1>3, BeforeAPlace
  <2>2. {k \in D : row'[k].pos < row'[d].pos} = {k \in D : order[k] < order[d]}
    BY <1>5
  <2>3. RanksIn(row', D)[d] = Cardinality({k \in D : row'[k].pos < row'[d].pos})
    BY DEF RanksIn
  <2>4. QED
    BY <2>1, <2>2, <2>3
<1>9. \A k \in E : RanksIn(row', E)[k] = RanksIn(row, E)[k]
  <2> SUFFICES ASSUME NEW k \in E PROVE RanksIn(row', E)[k] = RanksIn(row, E)[k]
    OBVIOUS
  <2>1. {m \in E : row'[m].pos < row'[k].pos} = {m \in E : row[m].pos < row[k].pos}
    BY <1>5
  <2>2. /\ RanksIn(row', E)[k] = Cardinality({m \in E : row'[m].pos < row'[k].pos})
        /\ RanksIn(row, E)[k] = Cardinality({m \in E : row[m].pos < row[k].pos})
    BY DEF RanksIn
  <2>3. QED
    BY <2>1, <2>2, Zenon
<1>10. /\ \A d \in D : Shown[d] = Ranks(D)[d]
       /\ \A k \in E : Shown[k] = n + RanksIn(row, E)[k]
       /\ DOMAIN Shown = With("ready")
  <2>2. /\ \A d \in D : RanksIn(row, D \cup E)[d] = RanksIn(row, D)[d]
        /\ \A k \in E : RanksIn(row, D \cup E)[k] = Cardinality(D) + RanksIn(row, E)[k]
    <3>1. /\ row \in [Image -> Row] /\ D \in SUBSET Image /\ E \in SUBSET Image /\ D \cap E = {}
          /\ \A d \in D, k \in E : row[d].pos < row[k].pos
      BY <1>1
    <3>2. QED
      BY ONLY <3>1, RanksOfTwoParts
  <2>3. DOMAIN Shown = With("ready")
    BY <1>1, ShownIsOrder
  <2>4. QED
    BY <1>a, <2>2, <2>3
<1>11. /\ \A d \in D : Shown'[d] = order[d]
       /\ \A k \in E : Shown'[k] = n + RanksIn(row, E)[k]
       /\ Shown' = [k \in With("ready") |-> Shown'[k]]
  <2>1. /\ \A d \in D : RanksIn(row', D \cup E)[d] = RanksIn(row', D)[d]
        /\ \A k \in E : RanksIn(row', D \cup E)[k] = Cardinality(D) + RanksIn(row', E)[k]
    <3>1. /\ row' \in [Image -> Row] /\ D \in SUBSET Image /\ E \in SUBSET Image /\ D \cap E = {}
          /\ \A d \in D, k \in E : row'[d].pos < row'[k].pos
      BY <1>1, <1>7
    <3>2. QED
      BY ONLY <3>1, RanksOfTwoParts
  <2>2. RanksIn(row', D \cup E) = [k \in D \cup E |-> RanksIn(row', D \cup E)[k]]
    BY DEF RanksIn
  <2>3. QED
    BY <1>1, <1>a, <1>8, <1>9, <2>1, <2>2
<1> HIDE DEF n
<1>12. Shown = [k \in With("ready") |-> Shown[k]]
  BY DEF Shown, Ranks
<1>13. Shown[j] = Shown[i] + 1
  BY <1>10
<1>14. ASSUME NEW k \in With("ready") PROVE Shown'[k] = Swapped(Shown, i, j)[k]
  <2>1. /\ DOMAIN Shown = With("ready") /\ i \in With("ready") /\ j \in With("ready")
    BY <1>10
  <2>2. Swapped(Shown, i, j)[k] = IF k = j THEN Shown[i] ELSE IF k = i THEN Shown[j] ELSE Shown[k]
    BY <1>14, <2>1 DEF Swapped
  <2>3. CASE k \in D
    <3>1. order[k] = IF k = j THEN Ranks(D)[i] ELSE IF k = i THEN Ranks(D)[j] ELSE Ranks(D)[k]
      BY <1>2, <2>3 DEF Swapped
    <3>2. QED
      BY <1>10, <1>11, <2>2, <2>3, <3>1
  <2>4. CASE k \in E
    <3>1. k # i /\ k # j
      BY <2>4
    <3>2. QED
      BY <1>10, <1>11, <2>2, <2>4, <3>1
  <2>5. QED
    BY <1>1, <1>14, <2>3, <2>4
<1>15. Swapped(Shown, i, j) = [k \in With("ready") |-> Swapped(Shown, i, j)[k]]
  BY <1>10 DEF Swapped
<1>16. Shown' = Swapped(Shown, i, j)
  BY <1>11, <1>14, <1>15
<1>17. QED
  BY <1>13, <1>16

-----------------------------------------------------------------------------
(* Moves.  A photo may show up if it is ready, or if its file is on the    *)
(* way to a confirmation.                                                  *)
Coming(k) ==
  \E f \in File : /\ call[f].img = k
                  /\ At(f, "upload", "ok") \/ At(f, "confirm", "start") \/ At(f, "confirm", "ready")

MayShow(k) == row[k].status = "ready" \/ (row[k].status = "pending" /\ Coming(k))

(* A card has been moved, and core has not written its order yet.          *)
Asked(c) == call[c].op = "reorder" /\ call[c].at \in {"start", "write"}

(* The order it asks for swaps two neighbours among photos that stand      *)
(* before all others which visitors see or may see.                        *)
SwapOfFirst(q) ==
  /\ DOMAIN q \subseteq With("ready")
  /\ \E i, j \in DOMAIN q :
       /\ Ranks(DOMAIN q)[j] = Ranks(DOMAIN q)[i] + 1
       /\ q = Swapped(Ranks(DOMAIN q), i, j)
  /\ \A d \in DOMAIN q, k \in Image \ DOMAIN q : MayShow(k) => row[d].pos < row[k].pos

Uploads == \A f \in File : call[f].op = "upload" => upload[f] = "uploading"

(* No other card is moved or removed at the same time.                     *)
OneMover ==
  \A c, d \in Image : c # d /\ call[c].op = "reorder" => call[d].op \notin {"reorder", "delete"}

MovesKnown == ~astray => \A c \in Image : Asked(c) => SwapOfFirst(call[c].order)

MoveInv == Uploads /\ OneMover /\ MovesKnown

(* Ready photos stay where they are, and a photo that shows up anew does   *)
(* so after all others.                                                    *)
Rises ==
  /\ \A i \in Image : row[i].status = "ready" => row'[i].status = "ready" /\ row'[i].pos = row[i].pos
  /\ \A k \in Image : MayShow(k)' =>
       \/ MayShow(k) /\ row'[k].pos = row[k].pos
       \/ \A i \in Rows : row[i].pos < row'[k].pos

LEMMA SwapStays ==
  ASSUME NEW q \in OrderSet, SwapOfFirst(q), Rises
  PROVE  SwapOfFirst(q)'
<1> DEFINE D == DOMAIN q
<1>1. D \subseteq Image /\ D \subseteq With("ready")
  BY OrderFacts DEF SwapOfFirst
<1>2. \A d \in D : row[d].status = "ready" /\ row'[d].status = "ready" /\ row'[d].pos = row[d].pos
  BY <1>1 DEF With, Rises
<1>3. D \subseteq With("ready")'
  BY <1>1, <1>2 DEF With
<1>4. Ranks(D)' = Ranks(D)
  <2>1. ASSUME NEW i \in D
        PROVE  {j \in D : row'[j].pos < row'[i].pos} = {j \in D : row[j].pos < row[i].pos}
    BY <1>2
  <2>2. QED
    BY <2>1 DEF Ranks
<1>5. ASSUME NEW d \in D, NEW k \in Image \ D, MayShow(k)' PROVE row'[d].pos < row'[k].pos
  <2>1. d \in Rows
    BY <1>1 DEF Rows
  <2>2. CASE MayShow(k) /\ row'[k].pos = row[k].pos
    BY <1>2, <2>2 DEF SwapOfFirst
  <2>3. CASE \A i \in Rows : row[i].pos < row'[k].pos
    BY <1>2, <2>1, <2>3
  <2>4. QED
    BY <1>5, <2>2, <2>3 DEF Rises
<1>6. PICK i \in D, j \in D : Ranks(D)[j] = Ranks(D)[i] + 1 /\ q = Swapped(Ranks(D), i, j)
  BY DEF SwapOfFirst
<1>7. Ranks(D)'[j] = Ranks(D)'[i] + 1 /\ q = Swapped(Ranks(D)', i, j)
  BY <1>4, <1>6
<1>8. QED
  BY <1>3, <1>5, <1>7 DEF SwapOfFirst, Swapped

(* Most steps neither number a photo anew nor let one show up.             *)
LEMMA QuietlyRises ==
  ASSUME \A k \in Image : row[k].status = "ready" => row'[k].status = "ready",
         \A k \in Image : row'[k].status \in {"pending", "ready"} => row'[k].pos = row[k].pos,
         \A k \in Image : row'[k].status = "pending" => row[k].status = "pending",
         \A k \in Image : row'[k].status = "ready" => MayShow(k),
         \A k \in Image : Coming(k)' => Coming(k)
  PROVE  Rises
BY DEF Rises, MayShow

LEMMA OneCallComes ==
  ASSUME NEW c \in Caller, \A d \in Caller \ {c} : call'[d] = call[d],
         At(c, "upload", "ok")' \/ At(c, "confirm", "start")' \/ At(c, "confirm", "ready")' =>
           /\ At(c, "upload", "ok") \/ At(c, "confirm", "start")
           /\ call'[c].img = call[c].img
  PROVE  \A k \in Image : Coming(k)' => Coming(k)
<1> SUFFICES ASSUME NEW k \in Image, Coming(k)' PROVE Coming(k)
  OBVIOUS
<1>1. PICK f \in File :
        /\ call'[f].img = k
        /\ At(f, "upload", "ok")' \/ At(f, "confirm", "start")' \/ At(f, "confirm", "ready")'
  BY DEF Coming
<1>2. f \in Caller
  BY CallersAre
<1>3. CASE f = c
  BY <1>1, <1>3 DEF Coming
<1>4. CASE f # c
  BY <1>1, <1>2, <1>4 DEF Coming, At
<1>5. QED
  BY <1>3, <1>4

LEMMA CoreRises ==
  ASSUME Typed, Positions, Current, NEW c \in Caller, CoreStep(c),
         WriteOrder(c) \/ WriteDelete(c) => row' = row
  PROVE  Rises
<1> USE DEF Typed
<1>a. /\ row \in [Image -> Row]
      /\ \A k \in Image : row[k].status = "ready" => MayShow(k)
  BY DEF CoreTypes, MayShow
<1>b. ASSUME row' = row, \A k \in Image : Coming(k)' => Coming(k) PROVE Rises
  BY <1>a, <1>b, QuietlyRises
<1>c. ASSUME NEW i \in Image, row' = [row EXCEPT ![i] = Gone],
             \A k \in Image : Coming(k)' => Coming(k), row[i].status = "pending"
      PROVE  Rises
  <2>1. row'[i].status = "gone" /\ \A k \in Image \ {i} : row'[k] = row[k]
    BY <1>a, <1>c, GoneRow
  <2>2. QED
    BY <1>a, <1>c, <2>1, QuietlyRises
<1>1. CASE FindStale(c)
  BY <1>1, <1>b, FindStaleDoes, OneCallComes DEF FindStale, Becomes, At
<1>2. ASSUME NEW i \in Image, SweepRow(c, i) PROVE Rises
  <2>1. \A k \in Image : Coming(k)' => Coming(k)
    BY <1>2, SweepRowDoes, OneCallComes DEF Becomes, At
  <2>2. QED
    BY <1>2, <2>1, <1>b, <1>c, SweepRowDoes
<1>3. CASE SweepObject(c)
  BY <1>3, <1>b, SweepObjectDoes, OneCallComes DEF SweepObject, Becomes, At
<1>4. CASE LockProduct(c)
  <2>1. NextPosition \in Nat
    BY NextPositionFacts
  <2>2. QED
    BY <1>4, <2>1, <1>b, LockProductDoes, OneCallComes DEF LockProduct, Becomes, At
<1>5. CASE InsertPending(c)
  <2>1. PICK n \in With("none") : n = NextImage
    BY <1>5, NextImageIsFree DEF InsertPending
  <2>2. n \in Image /\ row[n].status = "none" /\ At(c, "upload", "insert")
    BY <1>5 DEF With, InsertPending
  <2>3. CASE Becomes(c, "upload", "failed", call[c].img, 0, <<>>, {}) /\ row' = row
    BY <2>3, <1>b, OneCallComes DEF Becomes, At
  <2>4. CASE /\ Becomes(c, "upload", "ok", n, 0, <<>>, {})
             /\ row' = [row EXCEPT ![n] = [status |-> "pending", pos |-> call[c].pos, old |-> FALSE]]
    <3>1. /\ row'[n].status = "pending" /\ row'[n].pos = call[c].pos
          /\ \A k \in Image \ {n} : row'[k] = row[k]
      BY <1>a, <2>2, <2>4
    <3>2. \A i \in Rows : row[i].pos < row'[n].pos
      BY <2>2, <3>1 DEF Positions
    <3>3. ASSUME NEW k \in Image \ {n}, Coming(k)' PROVE Coming(k)
      <4>1. PICK f \in File :
              /\ call'[f].img = k
              /\ At(f, "upload", "ok")' \/ At(f, "confirm", "start")' \/ At(f, "confirm", "ready")'
        BY <3>3 DEF Coming
      <4>2. f # c /\ f \in Caller
        BY <2>4, <3>3, <4>1, CallersAre DEF Becomes
      <4>3. QED
        BY <2>4, <4>1, <4>2 DEF Becomes, At, Coming
    <3>4. \A i \in Image : row[i].status = "ready" => i # n
      BY <2>2
    <3>5. QED
      BY <3>1, <3>2, <3>3, <3>4 DEF Rises, MayShow
  <2>5. QED
    BY <1>5, <2>1, <2>2, <2>3, <2>4, InsertPendingDoes
<1>6. CASE CheckObject(c)
  BY <1>6, <1>b, CheckObjectDoes, OneCallComes DEF CheckObject, Becomes, At
<1>7. CASE MakeReady(c)
  <2>1. /\ At(c, "confirm", "ready") /\ call[c].img \in Image /\ c \in File
    BY <1>7 DEF MakeReady, Roles, At, Current, RefreshInv
  <2>2. PICK i \in Image : i = call[c].img
    BY <2>1
  <2>3. Coming(i)
    BY <2>1, <2>2 DEF Coming
  <2>4. CASE i \in Rows /\ row' = [row EXCEPT ![i].status = "ready"]
             /\ Becomes(c, "confirm", "ok", i, 0, <<>>, {})
    <3>1. /\ row'[i].status = "ready" /\ row'[i].pos = row[i].pos /\ MayShow(i)
          /\ \A k \in Image \ {i} : row'[k] = row[k]
      BY <1>a, <2>3, <2>4 DEF Rows, With, MayShow, Row
    <3>2. \A k \in Image : Coming(k)' => Coming(k)
      BY <2>4, OneCallComes DEF Becomes, At
    <3>3. QED
      BY <1>a, <3>1, <3>2, QuietlyRises
  <2>5. CASE row' = row /\ Becomes(c, "confirm", "failed", i, 0, <<>>, {})
    BY <2>5, <1>b, OneCallComes DEF Becomes, At
  <2>6. QED
    BY <1>7, <2>2, <2>4, <2>5, MakeReadyDoes
<1>8. CASE RejectObject(c)
  BY <1>8, <1>b, RejectObjectDoes, OneCallComes DEF RejectObject, Becomes, At
<1>9. CASE RejectRow(c)
  <2>1. call[c].img \in Image
    BY <1>9 DEF RejectRow, Roles, At
  <2>2. PICK i \in Image : i = call[c].img
    BY <2>1
  <2>3. \A k \in Image : Coming(k)' => Coming(k)
    BY <1>9, RejectRowDoes, OneCallComes DEF Becomes, At
  <2>4. \/ row[i].status = "pending" /\ row' = [row EXCEPT ![i] = Gone]
        \/ row' = row
    BY <1>9, <2>2 DEF RejectRow
  <2>5. QED
    BY <2>3, <2>4, <1>b, <1>c
<1>10. CASE CheckOrder(c)
  BY <1>10, <1>b, CheckOrderDoes, OneCallComes DEF CheckOrder, Becomes, At
<1>11. CASE WriteOrder(c)
  BY <1>11, <1>b, WriteOrderDoes, OneCallComes DEF Becomes, At
<1>12. CASE ReadRemaining(c)
  BY <1>12, <1>b, ReadRemainingDoes, OneCallComes DEF ReadRemaining, Becomes, At
<1>13. CASE WriteDelete(c)
  BY <1>13, <1>b, WriteDeleteDoes, OneCallComes DEF Becomes, At
<1>14. CASE DeleteObject(c)
  BY <1>14, <1>b, DeleteObjectDoes, OneCallComes DEF DeleteObject, Becomes, At
<1>15. CASE WriteAlt(c)
  BY <1>15, <1>b, WriteAltDoes, OneCallComes DEF WriteAlt, Becomes, At
<1>16. QED
  BY <1>1, <1>2, <1>3, <1>4, <1>5, <1>6, <1>7, <1>8, <1>9, <1>10, <1>11, <1>12, <1>13, <1>14, <1>15
     DEF CoreStep

(* So does every step but the one that writes an order or a delete. *)
LEMMA StepRises ==
  ASSUME Typed, Positions, Current, [Next]_vars,
         \A c \in Caller : WriteOrder(c) \/ WriteDelete(c) => row' = row
  PROVE  Rises
<1>a. /\ row \in [Image -> Row]
      /\ \A k \in Image : row[k].status = "ready" => MayShow(k)
  BY DEF Typed, CoreTypes, MayShow
<1>1. CASE UNCHANGED coreVars
  <2>1. row' = row /\ \A k \in Image : Coming(k)' => Coming(k)
    BY <1>1 DEF coreVars, Coming, At
  <2>2. QED
    BY <1>a, <2>1, QuietlyRises
<1>2. ASSUME NEW c \in Caller, QuietStep(c) PROVE Rises
  <2>1. row' = row /\ \A k \in Image : Coming(k)' => Coming(k)
    BY <1>2, OneCallComes DEF QuietStep, Quiet, At
  <2>2. QED
    BY <1>a, <2>1, QuietlyRises
<1>3. ASSUME NEW f \in File, NEW b \in {"good", "bad"}, Put(f, b) PROVE Rises
  <2>1. /\ Becomes(f, "confirm", "start", call[f].img, 0, <<>>, {}) /\ At(f, "upload", "ok")
        /\ row' = row /\ f \in Caller
    BY <1>3, PutKeepsPositions, CallersAre DEF Put
  <2>2. \A k \in Image : Coming(k)' => Coming(k)
    BY <2>1, OneCallComes DEF Becomes, At
  <2>3. QED
    BY <1>a, <2>1, <2>2, QuietlyRises
<1>4. ASSUME NEW i \in Image, Age(i) PROVE Rises
  <2>1. /\ row'[i].status = row[i].status /\ row'[i].pos = row[i].pos
        /\ \A k \in Image \ {i} : row'[k] = row[k]
    BY <1>4, <1>a DEF Age, Row
  <2>2. \A k \in Image : Coming(k)' => Coming(k)
    BY <1>4 DEF Age, Coming, At
  <2>3. QED
    BY <1>a, <2>1, <2>2, QuietlyRises
<1>5. QED
  BY <1>1, <1>2, <1>3, <1>4, CoreRises, StepKinds

(* What becomes of the cards that have asked, and of who may move.         *)
LEMMA CoreOfReorder ==
  ASSUME NEW c \in Caller, CoreStep(c), call[c].op = "reorder"
  PROVE  CheckOrder(c) \/ WriteOrder(c)
<1>1. ~At(c, "upload", "start") /\ ~At(c, "upload", "sweep") /\ ~At(c, "upload", "drop")
      /\ ~At(c, "upload", "insert") /\ ~At(c, "confirm", "start") /\ ~At(c, "confirm", "ready")
      /\ ~At(c, "confirm", "reject") /\ ~At(c, "confirm", "rejectRow") /\ ~At(c, "delete", "start")
      /\ ~At(c, "delete", "write") /\ ~At(c, "delete", "dropDeleted") /\ ~At(c, "alt", "start")
  BY DEF At
<1>2. ~FindStale(c) /\ ~SweepObject(c) /\ ~LockProduct(c) /\ ~InsertPending(c)
      /\ \A i \in Image : ~SweepRow(c, i)
  BY <1>1 DEF FindStale, SweepObject, LockProduct, Swept, InsertPending, SweepRow
<1>3. ~CheckObject(c) /\ ~MakeReady(c) /\ ~RejectObject(c) /\ ~RejectRow(c)
  BY <1>1 DEF CheckObject, MakeReady, RejectObject, RejectRow
<1>4. ~ReadRemaining(c) /\ ~WriteDelete(c) /\ ~DeleteObject(c) /\ ~WriteAlt(c)
  BY <1>1 DEF ReadRemaining, WriteDelete, DeleteObject, WriteAlt
<1>5. QED
  BY <1>2, <1>3, <1>4 DEF CoreStep

AskedBefore(c) == Asked(c)' => Asked(c) /\ call'[c].order = call[c].order

CallsKnown == Uploads' /\ OneMover' /\ (astray => astray')

LEMMA OneCallKnown ==
  ASSUME MoveInv, NEW c \in Caller, \A d \in Caller \ {c} : call'[d] = call[d],
         call'[c].op \in {call[c].op, "none"}, c \in Image => AskedBefore(c),
         \A f \in File : upload'[f] = upload[f] \/ call'[f].op # "upload",
         astray => astray'
  PROVE  CallsKnown /\ \A d \in Image : AskedBefore(d)
<1> USE CallersAre
<1>1. \A d \in Caller : call'[d].op \in {call[d].op, "none"}
  OBVIOUS
<1>2. Uploads'
  BY <1>1 DEF MoveInv, Uploads
<1>3. OneMover'
  BY <1>1 DEF MoveInv, OneMover
<1>4. \A d \in Image : AskedBefore(d)
  BY DEF AskedBefore, Asked
<1>5. QED
  BY <1>2, <1>3, <1>4 DEF CallsKnown

(* A step changes only what a card has asked for if the card is moved.     *)
LEMMA AskedComes ==
  ASSUME Typed, Positions, Current, MoveInv, [Next]_vars
  PROVE  CallsKnown /\ \A c \in Image : AskedBefore(c) \/ \E j \in Image : Move(c, j)
<1> USE CallersAre, TabAssumption DEF Typed
<1> DEFINE Known == CallsKnown /\ \A c \in Image : AskedBefore(c) \/ \E j \in Image : Move(c, j)
<1>a. TabTypes' /\ NextPosition \in Nat /\ (With("none") # {} => NextImage \in Image)
  BY TabTypesStay, NextPositionFacts, NextImageIsFree, PhotosAre
<1>b. ASSUME call' = call, \A f \in File : upload'[f] = upload[f] \/ call[f].op # "upload",
             astray => astray'
      PROVE  Known
  BY <1>b DEF MoveInv, Uploads, OneMover, CallsKnown, AskedBefore, Asked
<1>c. ASSUME NEW c \in Caller, Becomes(c, "none", "idle", NoImage, 0, <<>>, {}),
             \A f \in File : upload'[f] = upload[f] \/ call'[f].op # "upload", astray => astray'
      PROVE  Known
  BY <1>c, OneCallKnown DEF Becomes, AskedBefore, Asked
<1>d. ASSUME NEW c \in Caller, Over(c) PROVE \/ call' = call
                                             \/ Becomes(c, "none", "idle", NoImage, 0, <<>>, {})
  BY <1>d, DoneBecomes DEF Over
<1>e. ASSUME NEW c \in Caller, Over(c), upload' \in [File -> Stage],
             \A f \in File : upload'[f] = upload[f] \/ f \in refresh[c].files
      PROVE  Known
  <2>1. \A f \in File : f \in refresh[c].files => call[f].op # "upload"
    BY DEF Current, RefreshInv, MoveInv, Uploads
  <2>2. \A f \in File : upload'[f] = upload[f] \/ call'[f].op # "upload"
    BY <1>d, <1>e, <2>1 DEF Becomes
  <2>3. astray' = astray
    BY <1>e DEF Over
  <2>4. QED
    BY <1>b, <1>c, <1>d, <1>e, <2>1, <2>2, <2>3
<1>1. ASSUME NEW c \in Caller, Core(c) PROVE Known
  <2>1. CoreStep(c) /\ upload' = upload /\ astray' = astray
    BY <1>1 DEF Core, tabVars
  <2>2. /\ \A d \in Caller \ {c} : call'[d] = call[d]
        /\ call'[c].op = call[c].op
    BY <1>a, <2>1, CoreKeeps
  <2>3. AskedBefore(c)
    <3>1. CASE CheckOrder(c)
      BY <3>1, CheckOrderDoes DEF CheckOrder, At, Becomes, AskedBefore, Asked
    <3>2. CASE WriteOrder(c)
      BY <3>2, WriteOrderDoes DEF Becomes, AskedBefore, Asked
    <3>3. QED
      BY <2>1, <2>2, <3>1, <3>2, CoreOfReorder DEF AskedBefore, Asked
  <2>4. QED
    BY <2>1, <2>2, <2>3, OneCallKnown
<1>2. ASSUME NEW c \in Caller, GetProduct(c) PROVE Known
  BY <1>2, <1>b DEF GetProduct, coreVars
<1>3. ASSUME NEW c \in Caller, Apply(c) PROVE Known
  BY <1>3, <1>a, <1>e DEF Apply, TabTypes
<1>4. ASSUME NEW c \in Caller, RefreshFails(c) PROVE Known
  BY <1>4, <1>a, <1>e DEF RefreshFails, TabTypes
<1>5. ASSUME NEW f \in File, NEW b \in {"good", "bad"}, Put(f, b) PROVE Known
  <2>1. Becomes(f, "confirm", "start", call[f].img, 0, <<>>, {}) /\ f \notin Image
    BY <1>5, PutKeepsPositions
  <2>2. upload' = [upload EXCEPT ![f] = "confirming"] /\ astray' = astray
    BY <1>5 DEF Put, Moves
  <2>3. Uploads'
    BY <2>1, <2>2 DEF Becomes, MoveInv, Uploads, TabTypes
  <2>4. OneMover' /\ \A c \in Image : AskedBefore(c)
    BY <2>1 DEF Becomes, MoveInv, OneMover, AskedBefore, Asked
  <2>5. QED
    BY <2>2, <2>3, <2>4 DEF CallsKnown
<1>6. ASSUME NEW f \in File, Confirmed(f) PROVE Known
  <2>1. Becomes(f, call[f].op, "settled", call[f].img, call[f].pos, call[f].order, call[f].todo)
    BY <1>6, GoesBecomes DEF Confirmed, Place
  <2>2. upload' = [upload EXCEPT ![f] = "saved"] /\ astray' = astray /\ call[f].op = "confirm"
    BY <1>6 DEF Confirmed, Moves, Roles, FileRole
  <2>3. QED
    BY <2>1, <2>2, OneCallKnown DEF Becomes, TabTypes
<1>7. ASSUME NEW f \in File, BatchSettled(f) PROVE Known
  BY <1>7, <1>c, DoneBecomes DEF BatchSettled, Done
<1>8. ASSUME NEW c \in Image, CardAnswered(c) PROVE Known
  <2>1. Becomes(c, call[c].op, "refreshing", call[c].img, call[c].pos, call[c].order, call[c].todo)
    BY <1>8, GoesBecomes DEF CardAnswered, Place
  <2>2. upload' = upload /\ astray' = astray
    BY <1>8 DEF CardAnswered
  <2>3. QED
    BY <2>1, <2>2, OneCallKnown DEF Becomes, AskedBefore, Asked
<1>9. ASSUME NEW c \in Caller, RefreshAgain(c) PROVE Known
  BY <1>9, <1>b DEF RefreshAgain, coreVars
<1>10. ASSUME NEW c \in Caller, ServerError(c) PROVE Known
  <2>1. Becomes(c, call[c].op, "failed", call[c].img, 0, <<>>, {})
    BY <1>10, AnswerBecomes DEF ServerError, Place
  <2>2. upload' = upload /\ (astray => astray')
    BY <1>10 DEF ServerError
  <2>3. QED
    BY <2>1, <2>2, OneCallKnown DEF Becomes, AskedBefore, Asked
<1>11. ASSUME NEW f \in File, Upload(f) PROVE Known
  <2>1. Becomes(f, "upload", "start", NoImage, 0, <<>>, {}) /\ f \notin Image
    BY <1>11, RequestBecomes, EmptyOrder DEF Upload, Op
  <2>2. upload' = [upload EXCEPT ![f] = "uploading"] /\ astray' = astray
    BY <1>11 DEF Upload, Moves
  <2>3. Uploads'
    BY <2>1, <2>2 DEF Becomes, MoveInv, Uploads, TabTypes
  <2>4. OneMover' /\ \A c \in Image : AskedBefore(c)
    BY <2>1 DEF Becomes, MoveInv, OneMover, AskedBefore, Asked
  <2>5. QED
    BY <2>2, <2>3, <2>4 DEF CallsKnown
<1>12. ASSUME NEW f \in File, UploadFails(f) PROVE Known
  <2>0. f \in Caller /\ call' = [call EXCEPT ![f] = Idle]
    BY ONLY <1>12, CallersAre DEF UploadFails, Done
  <2>1. Becomes(f, "none", "idle", NoImage, 0, <<>>, {})
    BY ONLY <2>0, DoneBecomes, Typed DEF Typed
  <2>a. upload' = [upload EXCEPT ![f] = "error"]
    BY ONLY <1>12 DEF UploadFails, Moves
  <2>b. astray => astray'
    BY <1>12 DEF UploadFails
  <2>2. upload' = [upload EXCEPT ![f] = "error"] /\ (astray => astray')
    BY ONLY <2>a, <2>b
  <2>3. QED
    BY <2>1, <2>2, <1>c DEF Becomes, TabTypes
<1>f. ASSUME NEW i \in Image, NEW op \in {"reorder", "delete", "alt"}, NEW o \in OrderSet,
             Request(i, op, i, o), CardUnchanged
      PROVE  /\ Becomes(i, op, "start", i, 0, o, {}) /\ upload' = upload /\ astray' = astray
             /\ Uploads' /\ \A d \in Image \ {i} : AskedBefore(d)
  <2>1. Becomes(i, op, "start", i, 0, o, {}) /\ upload' = upload /\ astray' = astray
    BY <1>f, RequestBecomes DEF Op, CardUnchanged, tabVars
  <2>2. Uploads'
    BY <2>1 DEF Becomes, MoveInv, Uploads
  <2>3. QED
    BY <2>1, <2>2 DEF Becomes, AskedBefore, Asked
<1>13. ASSUME NEW i \in Image, NEW j \in Image, Move(i, j) PROVE Known
  <2>1. Swapped(grid, i, j) \in OrderSet /\ Request(i, "reorder", i, Swapped(grid, i, j)) /\ CardUnchanged
    BY <1>13, GridFacts DEF Move
  <2>2. \A d \in Image : call[d].op = "none"
    BY <1>13, IdleCall DEF Move, Busy
  <2>3. OneMover'
    BY <2>1, <2>2, <1>f DEF Becomes, OneMover
  <2>4. QED
    BY <1>13, <1>f, <2>1, <2>3 DEF CallsKnown
<1>14. ASSUME NEW i \in Image, Remove(i) PROVE Known
  <2>1. Request(i, "delete", i, <<>>) /\ CardUnchanged
    BY <1>14 DEF Remove
  <2>2. \A d \in Image \ {i} : call[d].op # "reorder"
    BY <1>14, IdleCall DEF Remove, Busy
  <2>3. OneMover' /\ AskedBefore(i)
    BY <2>1, <2>2, <1>f, EmptyOrder DEF Becomes, OneMover, AskedBefore, Asked
  <2>4. QED
    BY <1>f, <2>1, <2>3, EmptyOrder DEF CallsKnown
<1>15. ASSUME NEW i \in Image, SaveAlt(i) PROVE Known
  <2>1. Request(i, "alt", i, <<>>) /\ CardUnchanged
    BY <1>15 DEF SaveAlt
  <2>2. OneMover' /\ AskedBefore(i)
    BY <2>1, <1>f, EmptyOrder DEF Becomes, MoveInv, OneMover, AskedBefore, Asked
  <2>3. QED
    BY <1>f, <2>1, <2>2, EmptyOrder DEF CallsKnown
<1>16. ASSUME NEW c \in Image, CardFails(c) PROVE Known
  <2>0. c \in Caller /\ call' = [call EXCEPT ![c] = Idle]
    BY ONLY <1>16, CallersAre DEF CardFails, Done
  <2>1. Becomes(c, "none", "idle", NoImage, 0, <<>>, {})
    BY ONLY <2>0, DoneBecomes, Typed DEF Typed
  <2>a. upload' = upload
    BY ONLY <1>16 DEF CardFails
  <2>b. astray => astray'
    BY <1>16 DEF CardFails
  <2>2. upload' = upload /\ (astray => astray')
    BY ONLY <2>a, <2>b
  <2>3. QED
    BY <1>c, <2>0, <2>1, <2>2
<1>17. ASSUME NEW c \in Other, OtherActs(c) PROVE Known
  <2>1. /\ upload' = upload /\ (astray => astray') /\ c \in Caller /\ c \notin Image /\ c \notin File
    BY <1>17 DEF OtherActs
  <2>2. \A d \in Caller \ {c} : call'[d] = call[d]
    BY <1>17, <2>1, OtherActsQuietly DEF QuietStep, Quiet
  <2>3. Uploads' /\ OneMover' /\ \A d \in Image : AskedBefore(d)
    BY <2>1, <2>2 DEF MoveInv, Uploads, OneMover, AskedBefore, Asked
  <2>4. QED
    BY <2>1, <2>3 DEF CallsKnown
<1>18. ASSUME NEW c \in Other, OtherAnswered(c) PROVE Known
  <2>0. c \in Caller /\ call' = [call EXCEPT ![c] = Idle]
    BY ONLY <1>18, CallersAre DEF OtherAnswered, Done
  <2>1. Becomes(c, "none", "idle", NoImage, 0, <<>>, {})
    BY ONLY <2>0, DoneBecomes, Typed DEF Typed
  <2>2. upload' = upload /\ (astray => astray')
    BY ONLY <1>18 DEF OtherAnswered, tabVars
  <2>3. QED
    BY <1>c, <2>0, <2>1, <2>2
<1>19. ASSUME NEW i \in Image, Age(i), UNCHANGED <<tabVars, clicks, faults>> PROVE Known
  BY <1>19, <1>b DEF Age, tabVars
<1>20. CASE UNCHANGED vars
  BY <1>20, <1>b DEF vars, coreVars, tabVars
<1>21. ASSUME NEW c \in Caller, TabStep(c) PROVE Known
  BY <1>2, <1>3, <1>5, <1>6, <1>7, <1>8, <1>21 DEF TabStep
<1> HIDE DEF Known
<1>22. Next => Known
  BY ONLY <1>1, <1>4, <1>9, <1>10, <1>11, <1>12, <1>13, <1>14, <1>15, <1>16, <1>17, <1>18, <1>19,
     <1>21 DEF Next
<1>23. QED
  BY ONLY <1>20, <1>22, [Next]_vars DEF Known

LEMMA MoveAsks ==
  ASSUME Typed, Positions, Current, MoveInv, ~astray, NEW c \in Image, NEW j \in Image, Move(c, j)
  PROVE  \A q : q = call'[c].order => SwapOfFirst(q)'
<1> USE CallersAre DEF Typed
<1>1. grid = Shown /\ With("ready") \in SUBSET Image
  BY UnlockedGrid, PhotosAre DEF UnlockedGridIsCurrent, Move
<1>2. DOMAIN grid = With("ready") /\ Ranks(With("ready")) = grid
  BY <1>1 DEF Shown, Ranks
<1>3. /\ Becomes(c, "reorder", "start", c, 0, Swapped(grid, c, j), {})
      /\ row' = row /\ c \in DOMAIN grid /\ j \in DOMAIN grid /\ grid[j] = grid[c] + 1
  BY GridFacts, RequestBecomes DEF Move, CardUnchanged, Op
<1>4. \A k : ~Coming(k)'
  <2>1. \A f \in File : call'[f] = call[f]
    BY <1>3, TabAssumption DEF Becomes
  <2>2. \A f \in File : call[f].op # "upload" /\ (call[f].op = "confirm" => call[f].at = "settled")
    BY DEF Move, GridLocked, Unsettled, MoveInv, Uploads, Current, RefreshInv
  <2>3. QED
    BY <2>1, <2>2 DEF Coming, At
<1>5. \A k \in Image : MayShow(k)' => k \in With("ready")
  BY <1>3, <1>4 DEF MayShow, With
<1> SUFFICES ASSUME NEW q, q = Swapped(grid, c, j) PROVE SwapOfFirst(q)'
  BY <1>3 DEF Becomes
<1>6. DOMAIN q = With("ready")
  BY <1>2 DEF Swapped
<1>7. /\ Ranks(DOMAIN q) = grid /\ Ranks(DOMAIN q)' = Ranks(DOMAIN q)
      /\ With("ready")' = With("ready")
  BY <1>2, <1>3, <1>6 DEF Ranks, With
<1>8. QED
  BY <1>3, <1>5, <1>6, <1>7 DEF SwapOfFirst, Swapped

(* While a card waits for its move, nobody else writes an order. *)
LEMMA NobodyElseWrites ==
  ASSUME Typed, Current, MoveInv, ~astray, NEW c \in Image, Asked(c), Asked(c)', NEW d \in Caller,
         WriteOrder(d) \/ WriteDelete(d)
  PROVE  FALSE
<1>1. d \in Image /\ call[d].op \in {"reorder", "delete"}
  BY DEF WriteOrder, WriteDelete, At, Current, RefreshInv
<1>2. d = c
  BY <1>1 DEF MoveInv, OneMover, Asked
<1>3. WriteOrder(c)
  BY <1>2 DEF WriteDelete, At, Asked
<1>4. QED
  BY <1>2, <1>3, WriteOrderDoes DEF Typed, Becomes, Asked

LEMMA MoveStep ==
  ASSUME Typed, Positions, Current, MoveInv, [Next]_vars
  PROVE  MoveInv'
<1>1. CallsKnown /\ \A c \in Image : AskedBefore(c) \/ \E j \in Image : Move(c, j)
  BY AskedComes
<1>2. ASSUME ~astray', NEW c \in Image, Asked(c)'
      PROVE  SwapOfFirst(call[c].order)'
  <2>1. ~astray
    BY <1>1, <1>2 DEF CallsKnown
  <2>2. PICK q : q = call'[c].order
    OBVIOUS
  <2>3. CASE \E j \in Image : Move(c, j)
    BY <2>1, <2>2, <2>3, MoveAsks
  <2>4. CASE AskedBefore(c)
    <3>1. Asked(c) /\ q = call[c].order
      BY <1>2, <2>2, <2>4 DEF AskedBefore
    <3>2. Rises
      BY <1>2, <2>1, <3>1, NobodyElseWrites, StepRises
    <3>3. q \in OrderSet /\ SwapOfFirst(q)
      BY <2>1, <3>1, CallersAre DEF MoveInv, MovesKnown, Typed, CoreTypes, CallRec
    <3>4. SwapOfFirst(q)'
      BY <3>2, <3>3, SwapStays
    <3>5. QED
      BY <2>2, <3>4
  <2>5. QED
    BY <1>1, <2>3, <2>4
<1>3. QED
  BY <1>1, <1>2 DEF CallsKnown, MoveInv, MovesKnown

LEMMA MovesAlways == Spec => []MoveInv
<1>1. Init => MoveInv
  <2> SUFFICES ASSUME Init PROVE MoveInv
    OBVIOUS
  <2>1. \A c \in Caller : call[c].op = "none"
    BY IdleCall DEF Init
  <2>2. QED
    BY <2>1, CallersAre DEF MoveInv, Uploads, OneMover, MovesKnown, Asked
<1>2. Typed /\ Positions /\ Current /\ MoveInv /\ [Next]_vars => MoveInv'
  BY MoveStep
<1>3. QED
  BY <1>1, <1>2, TypedAlways, CurrentAlways, PTL DEF Spec

(* Nobody but the card itself answers its call. *)
LEMMA OrderIsWritten ==
  ASSUME Typed, Positions, [Next]_vars, NEW c \in Image, At(c, "reorder", "write"),
         call'[c].at = "ok"
  PROVE  WriteOrder(c)
<1> USE CallersAre DEF Typed
<1>1. ASSUME NEW d \in Caller, QuietStep(d) PROVE FALSE
  BY <1>1 DEF QuietStep, Quiet, At
<1>2. ASSUME NEW d \in Caller, CoreStep(d) PROVE WriteOrder(c)
  <2>1. d = c
    BY <1>2, CoreKeeps, NextPositionFacts, NextImageIsFree, PhotosAre DEF At
  <2>2. QED
    BY <1>2, <2>1, CoreOfReorder DEF At, CheckOrder
<1>3. ASSUME NEW f \in File, NEW b \in {"good", "bad"}, Put(f, b) PROVE FALSE
  BY <1>3, PutKeepsPositions, TabAssumption DEF Becomes, At
<1>4. call' # call
  BY DEF At
<1>5. QED
  BY <1>1, <1>2, <1>3, <1>4, StepKinds DEF coreVars, Age

(* A move of this tab never undoes an earlier one, nor lets two photos     *)
(* take one place: whenever core writes the order that a card asked for,   *)
(* the photos visitors see stay the same, and two neighbours among them    *)
(* change places, whatever uploads, deletes, refreshes and other moves     *)
(* have come in between, if nothing has changed behind the tab's back.     *)
THEOREM MovesAreSwaps == Spec => MovesSwapNeighbours
<1>1. ASSUME Typed, Typed', Positions, MoveInv, [Next]_vars, NEW c \in Image,
             At(c, "reorder", "write"), call'[c].at = "ok", ~astray
      PROVE  \E i, j \in With("ready") :
               Shown[j] = Shown[i] + 1 /\ Shown' = Swapped(Shown, i, j)
  <2> DEFINE q == call[c].order
             D == DOMAIN q
             E == With("ready") \ D
  <2>1. c \in Caller /\ CoreTypes /\ CoreTypes' /\ q \in OrderSet
    BY <1>1, CallersAre DEF Typed, CoreTypes, CallRec
  <2>2. row' = Renumbered(NewOrder(q)) /\ ~Collide(Renumbered(NewOrder(q)))
    BY <1>1, <2>1, OrderIsWritten, WriteOrderDoes DEF Becomes
  <2>3. SwapOfFirst(q)
    BY <1>1 DEF MoveInv, MovesKnown, Asked, At
  <2> HIDE DEF q
  <2>4. /\ D \in SUBSET Image /\ E \in SUBSET Image /\ D \subseteq With("ready")
        /\ With("ready") = D \cup E /\ D \cap E = {}
    BY <2>1, <2>3, OrderFacts, PhotosAre DEF SwapOfFirst
  <2>5. PICK i \in D, j \in D : /\ Ranks(D)[j] = Ranks(D)[i] + 1
                                /\ q = Swapped(Ranks(D), i, j)
    BY <2>3 DEF SwapOfFirst
  <2>6. \A d \in D, k \in E : row[d].pos < row[k].pos
    BY <2>3, <2>4 DEF SwapOfFirst, MayShow, With
  <2>7. Apart(With("ready"))
    BY <1>1, PhotosAre DEF Positions, Apart, Rows, With
  <2> HIDE DEF D, E
  <2>8. /\ i \in With("ready") /\ j \in With("ready")
        /\ Shown[j] = Shown[i] + 1 /\ Shown' = Swapped(Shown, i, j)
    BY <2>1, <2>2, <2>4, <2>5, <2>6, <2>7, SwapIsWritten
  <2>9. QED
    BY <2>8
<1>2. Typed /\ Typed' /\ Positions /\ MoveInv /\ [Next]_vars =>
        [\A c \in Image :
           At(c, "reorder", "write") /\ call'[c].at = "ok" /\ ~astray =>
             \E i, j \in With("ready") :
               Shown[j] = Shown[i] + 1 /\ Shown' = Swapped(Shown, i, j)]_vars
  BY <1>1
<1>3. QED
  BY <1>2, TypedAlways, MovesAlways, PTL DEF Spec, MovesSwapNeighbours
=============================================================================
