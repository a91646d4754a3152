--------------------------- MODULE ListingsProofs ---------------------------
(***************************************************************************)
(* What holds of the catalog and its Walmart listings for any products,    *)
(* variants, feeds and concurrent calls: the types and keys, that whatever *)
(* customers can reach has its URL locked, and that every verdict on file  *)
(* is one Walmart gave.                                                    *)
(***************************************************************************)
EXTENDS Listings, TLAPS

(* What a call in flight refers to exists: products are never deleted. *)
RefersToRows ==
  /\ \A a \in Admin : calls[a].op \in {"status", "slug"} => calls[a].product \in Existing
  /\ \A v \in OnFile : variants[v].product \in Existing

(* A call that has read a first publication finds it still there, and so   *)
(* does a listing that is about to be inserted, unless its variant is gone.*)
LocksAreKept ==
  /\ \A a \in Admin :
       calls[a].op = "status" /\ calls[a].published => products[calls[a].product].published
  /\ operator.op = "create" =>
       /\ variants[operator.variant].state # "free"
       /\ operator.variant \in OnFile => products[variants[operator.variant].product].published

(* A feed is on file once Walmart has it, and says nothing before. *)
FeedsAreKnown ==
  /\ \A f \in Feed : feeds[f] # None => walmart[f] # None
  /\ \A f \in Feed : feeds[f] = None /\ walmart[f] # None => walmart[f].told = {}
  /\ operator.op = "record" => feeds[operator.feed] = None /\ walmart[operator.feed] # None

-----------------------------------------------------------------------------
(* What a call in flight carries. *)
LEMMA CallTyped ==
  ASSUME CatalogTypeOK, NEW a \in Admin
  PROVE  /\ calls[a].op = "status" =>
              calls[a].product \in Product /\ calls[a].to \in Status /\ calls[a].published \in BOOLEAN
         /\ calls[a].op = "slug" => calls[a].product \in Product /\ calls[a].to \in Slug
         /\ calls[a].op = "sku" => calls[a].variant \in Variant /\ calls[a].to \in Sku
         /\ calls[a].op = "delete" => calls[a].variant \in Variant
         /\ calls[a].op \in {"idle", "status", "slug", "sku", "delete"}
<1>1. calls[a] \in Call
  BY DEF CatalogTypeOK
<1>2. QED
  BY <1>1 DEF Call, Idle

(* What the running call carries. *)
LEMMA OperatorTyped ==
  ASSUME operator \in Operation
  PROVE  /\ operator.op = "create" => operator.variant \in Variant /\ operator.sku \in WalmartSku
         /\ operator.op = "record" => operator.ids \in SUBSET Listing /\ operator.feed \in Feed
         /\ operator.op \in {"idle", "create", "record"}
BY DEF Operation, Resting

(* A call begins with one of the calls there are. *)
LEMMA BeginTyped ==
  ASSUME CatalogTypeOK, NEW a \in Admin, NEW call \in Call, Begin(a, call)
  PROVE  calls' \in [Admin -> Call] /\ edits' \in 0..MaxEdits
BY CatalogAssumption DEF CatalogTypeOK, Begin

(* A call that ends leaves the calls typed. *)
LEMMA EndTyped ==
  ASSUME CatalogTypeOK, NEW a \in Admin, End(a)
  PROVE  calls' \in [Admin -> Call] /\ edits' \in 0..MaxEdits
BY DEF CatalogTypeOK, End, Call, Idle
-----------------------------------------------------------------------------
(* Types, keys and the rows that calls refer to, together. *)
Base == TypeOK /\ RefersToRows

(* The catalog's part of the types, after a call of the catalog. *)
LEMMA CatalogStepTyped ==
  ASSUME Base, CatalogStep, UNCHANGED listingVars
  PROVE  CatalogTypeOK'
<1> USE DEF Base, TypeOK, RefersToRows
<1>1. ASSUME NEW p \in Product, NEW s \in Slug, CreateProduct(p, s)
      PROVE  CatalogTypeOK'
  BY <1>1 DEF CreateProduct, CatalogTypeOK, ProductRow, Status
<1>2. ASSUME NEW p \in Product, NEW vs \in SUBSET Variant, NEW skuOf \in [vs -> Sku],
             CreateVariants(p, skuOf)
      PROVE  CatalogTypeOK'
  BY <1>2 DEF CreateVariants, CatalogTypeOK, VariantRow
<1>3. ASSUME NEW v \in Variant, Sale(v, Listed)
      PROVE  CatalogTypeOK'
  <2>1. variants[v] \in VariantRow
    BY DEF CatalogTypeOK
  <2>2. [variants[v] EXCEPT !.sold = TRUE] \in VariantRow
    BY <2>1 DEF VariantRow
  <2>3. variants' = [variants EXCEPT ![v] = [variants[v] EXCEPT !.sold = TRUE]]
    BY <1>3 DEF Sale
  <2>4. QED
    BY <1>3, <2>2, <2>3 DEF Sale, CatalogTypeOK
<1>4. ASSUME NEW a \in Admin, NEW p \in Product, NEW to \in Status, ReadStatus(a, p, to)
      PROVE  CatalogTypeOK'
  <2> DEFINE call == [op |-> "status", product |-> p, to |-> to, published |-> products[p].published]
  <2>1. products[p] \in ProductRow
    BY <1>4 DEF ReadStatus, Existing, CatalogTypeOK
  <2>2. call \in Call
    BY <2>1 DEF Call, ProductRow
  <2>3. QED
    BY <1>4, <2>2, BeginTyped DEF ReadStatus, CatalogTypeOK
<1>5. ASSUME NEW a \in Admin, WriteStatus(a)
      PROVE  CatalogTypeOK'
  <2>1. calls[a].product \in Existing /\ calls[a].to \in Status
    BY <1>5, CallTyped DEF WriteStatus
  <2>2. products[calls[a].product] \in ProductRow
    BY <2>1 DEF Existing, CatalogTypeOK
  <2>3. FirstPublished(calls[a]) \in BOOLEAN
    BY <2>2 DEF FirstPublished, ProductRow
  <2>4. products' \in [Product -> ProductRow \cup {None}]
    BY <1>5, <2>1, <2>2, <2>3 DEF WriteStatus, ProductRow, CatalogTypeOK
  <2>5. QED
    BY <1>5, <2>4, EndTyped DEF WriteStatus, CatalogTypeOK
<1>6. ASSUME NEW a \in Admin, NEW p \in Product, NEW s \in Slug, ReadSlug(a, p, s)
      PROVE  CatalogTypeOK'
  <2>1. [op |-> "slug", product |-> p, to |-> s] \in Call
    BY DEF Call
  <2>2. QED
    BY <1>6, <2>1, BeginTyped DEF ReadSlug, CatalogTypeOK
<1>7. ASSUME NEW a \in Admin, WriteSlug(a)
      PROVE  CatalogTypeOK'
  <2>1. calls[a].product \in Existing /\ calls[a].to \in Slug
    BY <1>7, CallTyped DEF WriteSlug
  <2>2. products[calls[a].product] \in ProductRow
    BY <2>1 DEF Existing, CatalogTypeOK
  <2>3. products' \in [Product -> ProductRow \cup {None}]
    BY <1>7, <2>1, <2>2 DEF WriteSlug, ProductRow, CatalogTypeOK
  <2>4. QED
    BY <1>7, <2>3, EndTyped DEF WriteSlug, CatalogTypeOK
<1>8. ASSUME NEW a \in Admin, NEW v \in Variant, NEW k \in Sku, ReadSku(a, v, k, Listed)
      PROVE  CatalogTypeOK'
  <2>1. [op |-> "sku", variant |-> v, to |-> k] \in Call
    BY DEF Call
  <2>2. QED
    BY <1>8, <2>1, BeginTyped DEF ReadSku, CatalogTypeOK
<1>9. ASSUME NEW a \in Admin, WriteSku(a)
      PROVE  CatalogTypeOK'
  <2>1. calls[a].variant \in Variant /\ calls[a].to \in Sku
    BY <1>9, CallTyped DEF WriteSku
  <2>2. variants' \in [Variant -> VariantRow]
    BY <1>9, <2>1 DEF WriteSku, VariantRow, CatalogTypeOK
  <2>3. QED
    BY <1>9, <2>2, EndTyped DEF WriteSku, CatalogTypeOK
<1>10. ASSUME NEW a \in Admin, NEW v \in Variant, ReadDelete(a, v, Listed)
       PROVE  CatalogTypeOK'
  <2>1. [op |-> "delete", variant |-> v] \in Call
    BY DEF Call
  <2>2. QED
    BY <1>10, <2>1, BeginTyped DEF ReadDelete, CatalogTypeOK
<1>11. QED
  BY <1>1, <1>2, <1>3, <1>4, <1>5, <1>6, <1>7, <1>8, <1>9, <1>10 DEF CatalogStep

(* A slug or a SKU in use is not given out again. *)
LEMMA CatalogStepKeys ==
  ASSUME Base, CatalogStep, UNCHANGED listingVars
  PROVE  KeysHold'
<1> USE DEF Base, TypeOK, KeysHold, RefersToRows, Rows, Listed, SkuOf, listingVars, OnFile, Existing
<1>1. ASSUME UNCHANGED variants
      PROVE  /\ \A v, x \in OnFile' : variants'[v].sku = variants'[x].sku => v = x
             /\ Listed' \subseteq OnFile'
  BY <1>1
<1>2. ASSUME UNCHANGED products
      PROVE  \A p, q \in Existing' : products'[p].slug = products'[q].slug => p = q
  BY <1>2
<1>3. \A l, m \in Rows' : (SkuOf(l) = SkuOf(m))' \/ listings'[l].variant = listings'[m].variant => l = m
  OBVIOUS
<1>4. ASSUME NEW p \in Product, NEW s \in Slug, CreateProduct(p, s)
      PROVE  KeysHold'
  BY <1>1, <1>3, <1>4 DEF CreateProduct, SlugsTaken, CatalogTypeOK
<1>5. ASSUME NEW p \in Product, NEW vs \in SUBSET Variant, NEW skuOf \in [vs -> Sku],
             CreateVariants(p, skuOf)
      PROVE  KeysHold'
  <2>1. \A v \in Variant : variants'[v] = IF v \in vs
           THEN [state |-> "row", product |-> p, sku |-> skuOf[v], sold |-> FALSE] ELSE variants[v]
    BY <1>5 DEF CreateVariants
  <2>2. \A v, x \in OnFile' : variants'[v].sku = variants'[x].sku => v = x
    BY <1>5, <2>1 DEF CreateVariants, SkusTaken
  <2>3. Listed' \subseteq OnFile'
    BY <1>5, <2>1 DEF CreateVariants
  <2>4. QED
    BY <1>2, <1>3, <1>5, <2>2, <2>3 DEF CreateVariants
<1>6. ASSUME NEW v \in Variant, Sale(v, Listed)
      PROVE  KeysHold'
  <2>1. \A x \in Variant : /\ variants'[x].state = variants[x].state
                           /\ variants'[x].sku = variants[x].sku
    BY <1>6 DEF Sale, CatalogTypeOK, VariantRow
  <2>2. QED
    BY <1>2, <1>3, <1>6, <2>1 DEF Sale
<1>7. ASSUME NEW a \in Admin, WriteStatus(a)
      PROVE  KeysHold'
  <2>1. calls[a].product \in Existing
    BY <1>7 DEF WriteStatus
  <2>2. \A p \in Existing' : p \in Existing /\ products'[p].slug = products[p].slug
    BY <1>7, <2>1 DEF WriteStatus, CatalogTypeOK, ProductRow
  <2>3. \A p, q \in Existing' : products'[p].slug = products'[q].slug => p = q
    BY <2>2
  <2>4. UNCHANGED variants
    BY <1>7 DEF WriteStatus
  <2>5. QED
    BY <1>1, <1>3, <2>3, <2>4
<1>8. ASSUME NEW a \in Admin, WriteSlug(a)
      PROVE  KeysHold'
  <2>1. calls[a].product \in Existing
    BY <1>8 DEF WriteSlug
  <2>2. \A p \in Existing' : p \in Existing
    BY <1>8, <2>1 DEF WriteSlug, CatalogTypeOK
  <2>3. \A p \in Existing : p # calls[a].product => products'[p].slug = products[p].slug
    BY <1>8, <2>1 DEF WriteSlug, CatalogTypeOK, ProductRow
  <2>4. \/ products' = products
        \/ products'[calls[a].product].slug = calls[a].to /\ calls[a].to \notin SlugsTaken
    BY <1>8, <2>1 DEF WriteSlug, CatalogTypeOK, ProductRow
  <2>5. \A p, q \in Existing' : products'[p].slug = products'[q].slug => p = q
    BY <2>1, <2>2, <2>3, <2>4 DEF SlugsTaken
  <2>6. QED
    BY <1>1, <1>3, <1>8, <2>5 DEF WriteSlug
<1>9. ASSUME NEW a \in Admin, WriteSku(a)
      PROVE  KeysHold'
  <2>1. \A v \in Variant : variants'[v].state = variants[v].state
    BY <1>9 DEF WriteSku, CatalogTypeOK, VariantRow
  <2>2. \A v \in Variant : v # calls[a].variant => variants'[v].sku = variants[v].sku
    BY <1>9 DEF WriteSku, CatalogTypeOK, VariantRow
  <2>3. \/ variants' = variants
        \/ /\ variants'[calls[a].variant].sku = calls[a].to /\ calls[a].to \notin SkusTaken
           /\ calls[a].variant \in OnFile
    BY <1>9 DEF WriteSku, CatalogTypeOK, VariantRow
  <2>4. \A v, x \in OnFile' : variants'[v].sku = variants'[x].sku => v = x
    BY <2>1, <2>2, <2>3 DEF SkusTaken
  <2>5. QED
    BY <1>2, <1>3, <1>9, <2>1, <2>4 DEF WriteSku
<1>10. ASSUME UNCHANGED <<products, variants>>
       PROVE  KeysHold'
  BY <1>1, <1>2, <1>3, <1>10
<1>11. QED
  BY <1>4, <1>5, <1>6, <1>7, <1>8, <1>9, <1>10 DEF CatalogStep, ReadStatus, ReadSlug, ReadSku, ReadDelete

-----------------------------------------------------------------------------
(* Products stay, and so does their first publication. *)
LEMMA ProductsStay ==
  ASSUME Base, [Next]_vars
  PROVE  \A p \in Existing : p \in Existing' /\ (products[p].published => products'[p].published)
<1> USE DEF Base, TypeOK, CatalogTypeOK, RefersToRows, Existing
<1>1. ASSUME NEW p \in Product, NEW s \in Slug, CreateProduct(p, s)
      PROVE  \A q \in Existing : products'[q] = products[q]
  BY <1>1 DEF CreateProduct
<1>2. ASSUME NEW a \in Admin, WriteStatus(a)
      PROVE  \A p \in Existing : p \in Existing' /\ (products[p].published => products'[p].published)
  <2>1. calls[a].product \in Existing /\ calls[a].to \in Status
    BY <1>2, CallTyped DEF WriteStatus
  <2>2. products[calls[a].product] \in ProductRow
    BY <2>1
  <2>3. products'[calls[a].product] \in ProductRow
    BY <1>2, <2>1, <2>2 DEF WriteStatus, FirstPublished, ProductRow
  <2>4. products'[calls[a].product].published = FirstPublished(calls[a])
    <3> DEFINE p == calls[a].product
    <3>1. products'[p] = [products[p] EXCEPT !.status = calls[a].to, !.published = FirstPublished(calls[a])]
      BY <1>2, <2>1 DEF WriteStatus
    <3>2. QED
      BY <2>2, <3>1 DEF ProductRow
  <2>5. \A p \in Product : p # calls[a].product => products'[p] = products[p]
    BY <1>2 DEF WriteStatus
  <2>6. products[calls[a].product].published => products'[calls[a].product].published
    BY <2>4 DEF FirstPublished
  <2>7. QED
    BY <2>3, <2>5, <2>6, CatalogAssumption
<1>3. ASSUME NEW a \in Admin, WriteSlug(a)
      PROVE  \A p \in Existing : p \in Existing' /\ (products[p].published => products'[p].published)
  <2>1. calls[a].product \in Existing /\ calls[a].to \in Slug
    BY <1>3, CallTyped DEF WriteSlug
  <2>2. products[calls[a].product] \in ProductRow
    BY <2>1
  <2>3. /\ products'[calls[a].product] \in ProductRow
        /\ products'[calls[a].product].published = products[calls[a].product].published
    BY <1>3, <2>1, <2>2 DEF WriteSlug, ProductRow
  <2>4. \A p \in Product : p # calls[a].product => products'[p] = products[p]
    BY <1>3 DEF WriteSlug
  <2>5. QED
    BY <2>3, <2>4, CatalogAssumption
<1>4. CASE UNCHANGED products
  BY <1>4
<1>5. QED
  BY <1>1, <1>2, <1>3, <1>4 DEF Next, CatalogStep, CreateVariants, Sale, ReadStatus, ReadSlug,
     ReadSku, WriteSku, ReadDelete, DeleteVariant, WriteDelete, ReadListable, CreateListing,
     PostFeed, RecordFeed, CheckFeed, OperatorDies, catalogVars, vars

(* What a step does to a variant: its row appears under a product there is, *)
(* stays under it, or goes for ever.                                        *)
VariantMoves(v) ==
  \/ variants'[v].state = variants[v].state /\ variants'[v].product = variants[v].product
  \/ variants[v].state = "free" /\ variants'[v].state = "row" /\ variants'[v].product \in Existing
  \/ variants[v].state = "row" /\ variants'[v].state = "gone"

(* Every step moves a variant only along its life. *)
LEMMA VariantsMove ==
  ASSUME Base, [Next]_vars, NEW v \in Variant
  PROVE  VariantMoves(v)
<1> USE DEF Base, TypeOK, CatalogTypeOK, VariantRow, VariantMoves, OnFile
<1>1. ASSUME NEW p \in Product, NEW vs \in SUBSET Variant, NEW skuOf \in [vs -> Sku],
             CreateVariants(p, skuOf)
      PROVE  VariantMoves(v)
  BY <1>1 DEF CreateVariants
<1>2. ASSUME NEW x \in Variant, Sale(x, Listed)
      PROVE  VariantMoves(v)
  BY <1>2 DEF Sale
<1>3. ASSUME NEW a \in Admin, WriteSku(a)
      PROVE  VariantMoves(v)
  BY <1>3 DEF WriteSku
<1>4. ASSUME NEW a \in Admin, WriteDelete(a)
      PROVE  VariantMoves(v)
  BY <1>4 DEF WriteDelete, Deletable, NoVariant
<1>5. CASE UNCHANGED variants
  BY <1>5
<1>6. QED
  BY <1>1, <1>2, <1>3, <1>4, <1>5 DEF Next, CatalogStep, CreateProduct, ReadStatus, WriteStatus,
     ReadSlug, WriteSlug, ReadSku, ReadDelete, DeleteVariant, ReadListable, CreateListing,
     PostFeed, RecordFeed, CheckFeed, OperatorDies, catalogVars, vars

(* What calls refer to goes on existing. *)
LEMMA RefersStep ==
  ASSUME Base, [Next]_vars
  PROVE  RefersToRows'
<1>1. ASSUME NEW a \in Admin, calls'[a].op \in {"status", "slug"}
      PROVE  calls'[a].product \in Existing
  <2> USE DEF Base, TypeOK, CatalogTypeOK, RefersToRows
  <2>1. CASE calls'[a] = calls[a]
    BY <1>1, <2>1
  <2>2. ASSUME NEW b \in Admin, NEW p \in Product, NEW to \in Status, ReadStatus(b, p, to)
        PROVE  calls'[a].product \in Existing
    BY <1>1, <2>2 DEF ReadStatus, Begin
  <2>3. ASSUME NEW b \in Admin, NEW p \in Product, NEW s \in Slug, ReadSlug(b, p, s)
        PROVE  calls'[a].product \in Existing
    BY <1>1, <2>3 DEF ReadSlug, Begin
  <2>4. ASSUME NEW b \in Admin, NEW v \in Variant, NEW k \in Sku, ReadSku(b, v, k, Listed)
        PROVE  calls'[a].product \in Existing
    BY <1>1, <2>4 DEF ReadSku, Begin
  <2>5. ASSUME NEW b \in Admin, NEW v \in Variant, ReadDelete(b, v, Listed)
        PROVE  calls'[a].product \in Existing
    BY <1>1, <2>5 DEF ReadDelete, Begin
  <2>6. ASSUME NEW b \in Admin, End(b)
        PROVE  calls'[a].product \in Existing
    BY <1>1, <2>6 DEF End, Idle
  <2>7. QED
    BY <2>1, <2>2, <2>3, <2>4, <2>5, <2>6 DEF Next, CatalogStep, CreateProduct, CreateVariants,
       Sale, WriteStatus, WriteSlug, WriteSku, DeleteVariant, WriteDelete, ReadListable,
       CreateListing, PostFeed, RecordFeed, CheckFeed, OperatorDies, catalogVars, vars
<1>2. ASSUME NEW v \in OnFile' PROVE variants'[v].product \in Existing
  BY <1>2, VariantsMove DEF Base, RefersToRows, OnFile, VariantMoves
<1>3. QED
  BY <1>1, <1>2, ProductsStay DEF RefersToRows

-----------------------------------------------------------------------------
(* What checkFeedStatus puts on file is something, whenever the item was   *)
(* mentioned, listed, or on file; errors stay errors.                      *)
LEMMA MergedEntry ==
  ASSUME NEW old \in Entry \cup {None, "no_outcome"}, NEW said \in Entry \cup {None},
         NEW w, NEW skus
  PROVE  /\ Merged(old, said, w \in skus) \in Entry \cup {None, "no_outcome"}
         /\ old = "errors" => Merged(old, said, w \in skus) = "errors"
         /\ said = "errors" => Merged(old, said, w \in skus) = "errors"
         /\ Merged(old, said, w \in skus) = None => old = None /\ said = None /\ w \notin skus
<1>1. CASE said # None /\ old # "errors"
  BY <1>1 DEF Merged
<1>2. CASE said = None /\ old = None /\ w \in skus
  BY <1>2, ListingsAssumption DEF Merged, Entry
<1>3. CASE ~(said # None /\ old # "errors") /\ ~(said = None /\ old = None /\ w \in skus)
  <2>1. Merged(old, said, w \in skus) = old
    BY <1>3 DEF Merged
  <2>2. QED
    BY <1>3, <2>1, ListingsAssumption DEF Entry
<1>4. QED
  BY <1>1, <1>2, <1>3

(* Neither submitting nor checking a feed changes which listings there are, *)
(* or whose.                                                               *)
KeepsRows ==
  /\ listings' \in [Listing -> ListingRow \cup {None}]
  /\ Rows' = Rows
  /\ \A l \in Rows : /\ listings'[l].variant = listings[l].variant
                    /\ listings'[l].sku = listings[l].sku

LEMMA StatusesKeepRows ==
  ASSUME listings \in [Listing -> ListingRow \cup {None}],
         RecordFeed \/ \E f \in Feed : \E verdict, r : CheckFeed(f, verdict, r)
  PROVE  KeepsRows
<1>1. ASSUME NEW l \in Listing
      PROVE  \/ listings'[l] = listings[l]
             \/ l \in Rows /\ \E s \in {"submitted", "live", "rejected"} :
                  listings'[l] = [listings[l] EXCEPT !.status = s]
  <2>1. CASE RecordFeed
    BY <2>1 DEF RecordFeed, WithStatus
  <2>2. ASSUME NEW f \in Feed, NEW verdict, NEW r, CheckFeed(f, verdict, r)
        PROVE  \/ listings'[l] = listings[l]
               \/ l \in Rows /\ \E s \in {"submitted", "live", "rejected"} :
                    listings'[l] = [listings[l] EXCEPT !.status = s]
    <3>1. \/ listings'[l] = listings[l]
          \/ l \in Rows /\ listings'[l] = [listings[l] EXCEPT !.status = "live"]
          \/ l \in Rows /\ listings'[l] = [listings[l] EXCEPT !.status = "rejected"]
      BY <2>2 DEF CheckFeed
    <3>2. QED
      BY <3>1
  <2>3. QED
    BY <2>1, <2>2
<1>2. ASSUME NEW l \in Rows
      PROVE  /\ listings'[l] \in ListingRow
             /\ listings'[l].variant = listings[l].variant
             /\ listings'[l].sku = listings[l].sku
  <2>1. l \in Listing /\ listings[l] \in ListingRow
    BY DEF Rows
  <2>2. CASE listings'[l] = listings[l]
    BY <2>1, <2>2
  <2>3. ASSUME NEW s \in {"submitted", "live", "rejected"},
               listings'[l] = [listings[l] EXCEPT !.status = s]
        PROVE  /\ listings'[l] \in ListingRow
               /\ listings'[l].variant = listings[l].variant
               /\ listings'[l].sku = listings[l].sku
    BY <2>1, <2>3 DEF ListingRow
  <2>4. QED
    BY <1>1, <2>1, <2>2, <2>3
<1>3. \A l \in Listing \ Rows : listings'[l] = None
  BY <1>1 DEF Rows
<1>4. Rows' = Rows
  BY <1>2, <1>3, ListingsAssumption DEF Rows
<1>5. listings' = [l \in Listing |-> listings'[l]]
  BY DEF RecordFeed, WithStatus, CheckFeed
<1>6. QED
  BY <1>2, <1>3, <1>4, <1>5 DEF KeepsRows

(* The listing actions keep types and keys. *)
LEMMA ListingStep ==
  ASSUME Base, [Next]_vars, ~(CatalogStep /\ UNCHANGED listingVars)
  PROVE  TypeOK'
<1> USE DEF Base, TypeOK
<1>1. ASSUME NEW a \in Admin, DeleteVariant(a)
      PROVE  TypeOK'
  <2>1. calls[a].variant \in Variant
    BY <1>1, CallTyped DEF DeleteVariant, WriteDelete
  <2>2. variants' \in [Variant -> VariantRow]
    BY <1>1, <2>1 DEF DeleteVariant, WriteDelete, CatalogTypeOK, VariantRow, NoVariant
  <2>3. CatalogTypeOK'
    BY <1>1, <2>2, EndTyped DEF DeleteVariant, WriteDelete, CatalogTypeOK
  <2>4. listings' \in [Listing -> ListingRow \cup {None}]
    BY <1>1 DEF DeleteVariant
  <2>5. \A l \in Rows' : l \in Rows /\ listings'[l] = listings[l]
    BY <1>1 DEF DeleteVariant, Rows
  <2>6. \A v \in OnFile' : v \in OnFile /\ variants'[v] = variants[v]
    BY <1>1, <2>1 DEF DeleteVariant, WriteDelete, OnFile, NoVariant, CatalogTypeOK
  <2>7. \A v \in OnFile : v \in OnFile' \/ variants'[v].state = "gone"
    BY <1>1, <2>1 DEF DeleteVariant, WriteDelete, OnFile, NoVariant, CatalogTypeOK
  <2>8. Listed' \subseteq OnFile'
    <3>1. SUFFICES ASSUME NEW l \in Rows' PROVE listings'[l].variant \in OnFile'
      BY DEF Listed
    <3>2. l \in Rows /\ listings'[l] = listings[l] /\ listings[l].variant \in OnFile
      BY <2>5 DEF KeysHold, Listed
    <3>3. variants'[listings[l].variant].state # "gone"
      BY <1>1, <3>1, <3>2 DEF DeleteVariant, Rows
    <3>4. QED
      BY <2>7, <3>2, <3>3
  <2>9. /\ \A v, x \in OnFile' : variants'[v].sku = variants'[x].sku => v = x
        /\ \A l, m \in Rows' : SkuOf(l)' = SkuOf(m)' \/ listings'[l].variant = listings'[m].variant => l = m
    BY <2>5, <2>6 DEF KeysHold, SkuOf
  <2>10. \A p, q \in Existing' : products'[p].slug = products'[q].slug => p = q
    BY <1>1 DEF DeleteVariant, WriteDelete, KeysHold, Existing
  <2>11. QED
    BY <1>1, <2>3, <2>4, <2>8, <2>9, <2>10 DEF DeleteVariant, KeysHold
<1>2. ASSUME UNCHANGED catalogVars
      PROVE  CatalogTypeOK'
  BY <1>2 DEF CatalogTypeOK, catalogVars
<1>3. ASSUME UNCHANGED catalogVars, Rows' = Rows,
             \A l \in Rows : /\ listings'[l].variant = listings[l].variant
                            /\ listings'[l].sku = listings[l].sku
      PROVE  KeysHold'
  BY <1>3 DEF KeysHold, Listed, SkuOf, OnFile, Existing, catalogVars
<1>4. ASSUME NEW v \in Variant, NEW w \in WalmartSku, ReadListable(v, w)
      PROVE  TypeOK'
  <2>1. operator' \in Operation
    BY <1>4 DEF ReadListable, Operation
  <2>2. QED
    BY <1>2, <1>3, <1>4, <2>1 DEF ReadListable, Rows
<1>5. ASSUME NEW l \in Listing, CreateListing(l)
      PROVE  TypeOK'
  <2> DEFINE new == [variant |-> operator.variant, sku |-> operator.sku, status |-> "draft"]
  <2>1. new \in ListingRow
    BY <1>5, OperatorTyped DEF CreateListing, ListingRow
  <2>2. operator' \in Operation /\ used' \subseteq Listing
    BY <1>5 DEF CreateListing, Operation
  <2>3. CASE Insertable(operator.variant, operator.sku)
    <3>1. listings' = [listings EXCEPT ![l] = new] /\ UNCHANGED catalogVars
      BY <1>5, <2>3 DEF CreateListing
    <3>2. listings' \in [Listing -> ListingRow \cup {None}]
      BY <2>1, <3>1
    <3>3. \A m \in Rows' : m = l \/ (m \in Rows /\ listings'[m] = listings[m])
      BY <3>1 DEF Rows
    <3>4. listings'[l] = new
      BY <3>1
    <3>5. /\ \A i, m \in Rows' : SkuOf(i)' = SkuOf(m)' \/ listings'[i].variant = listings'[m].variant => i = m
          /\ Listed' \subseteq OnFile'
      BY <2>3, <3>1, <3>3, <3>4 DEF KeysHold, Insertable, SkuOf, Listed, OnFile, catalogVars
    <3>6. QED
      BY <1>2, <1>5, <2>2, <3>1, <3>2, <3>5 DEF CreateListing, KeysHold, OnFile, Existing, catalogVars
  <2>4. CASE ~Insertable(operator.variant, operator.sku)
    BY <1>2, <1>3, <1>5, <2>2, <2>4 DEF CreateListing, Rows
  <2>5. QED
    BY <2>3, <2>4
<1>6. ASSUME NEW f \in Feed, NEW ids \in SUBSET Listing, PostFeed(f, ids)
      PROVE  TypeOK'
  <2> DEFINE new == [items |-> {SkuOf(l) : l \in ids},
                     verdict |-> [w \in WalmartSku |-> "open"], told |-> {}]
  <2>1. \A l \in ids : listings[l] \in ListingRow
    BY <1>6 DEF PostFeed, Rows
  <2>2. new \in Received
    BY <2>1 DEF Received, Verdict, SkuOf, ListingRow
  <2>3. walmart' \in [Feed -> Received \cup {None}]
    BY <1>6, <2>2 DEF PostFeed
  <2>4. operator' \in Operation
    BY <1>6 DEF PostFeed, Operation
  <2>5. QED
    BY <1>2, <1>3, <1>6, <2>3, <2>4 DEF PostFeed, Rows
<1>7. ASSUME RecordFeed
      PROVE  TypeOK'
  <2> DEFINE ids == operator.ids
  <2>1. ids \subseteq Listing /\ operator.feed \in Feed
    BY <1>7, OperatorTyped DEF RecordFeed
  <2>2. feeds' \in [Feed -> FeedRow \cup {None}]
    <3>1. [ids |-> ids, settled |-> FALSE, errors |-> [w \in WalmartSku |-> None]] \in FeedRow
      BY <2>1 DEF FeedRow
    <3>2. QED
      BY <1>7, <2>1, <3>1 DEF RecordFeed
  <2>3. KeepsRows
    BY <1>7, StatusesKeepRows
  <2>4. operator' \in Operation
    BY <1>7 DEF RecordFeed, Operation
  <2>5. QED
    BY <1>2, <1>3, <1>7, <2>2, <2>3, <2>4 DEF RecordFeed, KeepsRows
<1>8. ASSUME NEW f \in Feed, NEW verdict \in Decided(f), NEW r \in Replies(f, verdict), walmart[f] # None,
             CheckFeed(f, verdict, r)
      PROVE  TypeOK'
  <2>1. walmart[f] \in Received /\ feeds[f] \in FeedRow
    BY <1>8 DEF CheckFeed
  <2>2. verdict \in [WalmartSku -> Verdict] /\ r \in [WalmartSku -> Entry \cup {None}]
    BY DEF Decided, Replies, Reply
  <2>3. PICK skus : feeds' = [feeds EXCEPT ![f].settled = TRUE,
          ![f].errors = [w \in WalmartSku |-> Merged(@[w], r[w], w \in skus)]]
    BY <1>8 DEF CheckFeed
  <2>4. feeds'[f] \in FeedRow
    <3>1. [w \in WalmartSku |-> Merged(feeds[f].errors[w], r[w], w \in skus)]
             \in [WalmartSku -> Entry \cup {None, "no_outcome"}]
      <4>1. feeds[f].errors \in [WalmartSku -> Entry \cup {None, "no_outcome"}]
        BY <2>1 DEF FeedRow
      <4>2. ASSUME NEW w \in WalmartSku
            PROVE  Merged(feeds[f].errors[w], r[w], w \in skus) \in Entry \cup {None, "no_outcome"}
        <5>1. feeds[f].errors[w] \in Entry \cup {None, "no_outcome"} /\ r[w] \in Entry \cup {None}
          BY <2>2, <4>1
        <5>2. QED
          BY <5>1, MergedEntry
      <4>3. QED
        BY <4>2
    <3>2. QED
      BY <2>1, <2>3, <3>1 DEF FeedRow
  <2>5. feeds' \in [Feed -> FeedRow \cup {None}]
    BY <2>3, <2>4
  <2>6. walmart' \in [Feed -> Received \cup {None}]
    BY <1>8, <2>1, <2>2 DEF CheckFeed, Received
  <2>7. KeepsRows
    BY <1>8, StatusesKeepRows
  <2>8. QED
    BY <1>2, <1>3, <1>8, <2>5, <2>6, <2>7 DEF CheckFeed, KeepsRows
<1>9. ASSUME OperatorDies
      PROVE  TypeOK'
  BY <1>2, <1>3, <1>9 DEF OperatorDies, Rows, Operation
<1>10. CASE UNCHANGED vars
  BY <1>2, <1>3, <1>10 DEF vars, listingVars, catalogVars, Rows
<1>11. QED
  BY <1>1, <1>4, <1>5, <1>6, <1>7, <1>8, <1>9, <1>10 DEF Next

-----------------------------------------------------------------------------
(* No row leaves its type, no key is given out twice, and no listing stays *)
(* without its variant, however the unlocked reads of the calls interleave.*)
THEOREM BaseHolds == Spec => []Base
<1>1. Init => Base
  <2> SUFFICES ASSUME Init PROVE Base
    OBVIOUS
  <2> USE DEF Init, CatalogInit
  <2>1. Existing = {} /\ OnFile = {} /\ Rows = {}
    BY DEF Existing, OnFile, Rows, NoVariant
  <2>2. CatalogTypeOK
    BY CatalogAssumption DEF CatalogTypeOK, VariantRow, NoVariant, Call
  <2>3. KeysHold /\ RefersToRows
    BY <2>1 DEF KeysHold, RefersToRows, Listed, Idle
  <2>4. QED
    BY <2>2, <2>3 DEF Base, TypeOK, Operation
<1>2. Base /\ [Next]_vars => Base'
  <2> SUFFICES ASSUME Base, [Next]_vars PROVE Base'
    OBVIOUS
  <2>1. TypeOK'
    <3>1. CASE CatalogStep /\ UNCHANGED listingVars
      BY <3>1, CatalogStepTyped, CatalogStepKeys DEF Base, TypeOK, listingVars
    <3>2. CASE ~(CatalogStep /\ UNCHANGED listingVars)
      BY <3>2, ListingStep
    <3>3. QED
      BY <3>1, <3>2
  <2>2. QED
    BY <2>1, RefersStep DEF Base
<1>3. QED
  BY <1>1, <1>2, PTL DEF Spec

(* Types and keys of the catalog, its listings and their feeds. *)
THEOREM ListingsTypeCorrect == Spec => []TypeOK
<1>1. Base => TypeOK
  BY DEF Base
<1>2. QED
  BY <1>1, BaseHolds, PTL

-----------------------------------------------------------------------------
(* The URLs of what customers can reach are locked (setProductStatus keeps *)
(* first_published_at): it is not enough that the statuses are right, the  *)
(* calls and the listing in flight must have seen a publication that stays.*)
LockInv == PublicUrlsAreLocked /\ LocksAreKept

(* A product that becomes or stays published has its URL locked. *)
LEMMA StatusStepLocks ==
  ASSUME Base, Base', LockInv, [Next]_vars
  PROVE  \A p \in Existing' : products'[p].status = "published" => products'[p].published
<1> USE DEF Base, TypeOK, CatalogTypeOK, RefersToRows, Existing, LockInv, PublicUrlsAreLocked
<1>1. ASSUME NEW p \in Product, NEW s \in Slug, CreateProduct(p, s)
      PROVE  \A q \in Existing' : products'[q].status = "published" => products'[q].published
  BY <1>1 DEF CreateProduct
<1>2. ASSUME NEW a \in Admin, WriteStatus(a)
      PROVE  \A p \in Existing' : products'[p].status = "published" => products'[p].published
  <2>1. calls[a].product \in Existing /\ calls[a].to \in Status /\ calls[a].published \in BOOLEAN
    BY <1>2, CallTyped DEF WriteStatus
  <2>2. products[calls[a].product] \in ProductRow
    BY <2>1
  <2>3. /\ products'[calls[a].product].published = FirstPublished(calls[a])
        /\ products'[calls[a].product].status = calls[a].to
    BY <1>2, <2>1, <2>2 DEF WriteStatus, ProductRow
  <2>4. calls[a].to = "published" => FirstPublished(calls[a])
    BY <1>2, <2>1 DEF FirstPublished, LocksAreKept, WriteStatus
  <2>5. \A p \in Product : p # calls[a].product => products'[p] = products[p]
    BY <1>2 DEF WriteStatus
  <2>6. QED
    BY <2>1, <2>3, <2>4, <2>5
<1>3. ASSUME NEW a \in Admin, WriteSlug(a)
      PROVE  \A p \in Existing' : products'[p].status = "published" => products'[p].published
  <2>1. calls[a].product \in Existing /\ calls[a].to \in Slug
    BY <1>3, CallTyped DEF WriteSlug
  <2>2. products[calls[a].product] \in ProductRow
    BY <2>1
  <2>3. /\ products'[calls[a].product].published = products[calls[a].product].published
        /\ products'[calls[a].product].status = products[calls[a].product].status
    BY <1>3, <2>1, <2>2 DEF WriteSlug, ProductRow
  <2>4. \A p \in Product : p # calls[a].product => products'[p] = products[p]
    BY <1>3 DEF WriteSlug
  <2>5. QED
    BY <2>1, <2>3, <2>4
<1>4. CASE UNCHANGED products
  BY <1>4
<1>5. QED
  BY <1>1, <1>2, <1>3, <1>4 DEF Next, CatalogStep, CreateVariants, Sale, ReadStatus, ReadSlug,
     ReadSku, WriteSku, ReadDelete, DeleteVariant, WriteDelete, ReadListable, CreateListing,
     PostFeed, RecordFeed, CheckFeed, OperatorDies, catalogVars, vars

(* Who is sold or listed after a step was before, or is by this step, which *)
(* has seen the product published.                                          *)
LEMMA ReachedStepLocks ==
  ASSUME Base, Base', LockInv, [Next]_vars, NEW v \in OnFile',
         v \in Listed' \/ variants'[v].sold
  PROVE  products'[variants'[v].product].published
<1> USE DEF Base, TypeOK, CatalogTypeOK, LockInv
<1>1. v \in Variant /\ VariantMoves(v)
  BY VariantsMove DEF OnFile
<1>2. ASSUME v \in OnFile, products[variants[v].product].published
      PROVE  products'[variants'[v].product].published
  BY <1>1, <1>2, ProductsStay DEF VariantMoves, OnFile, RefersToRows
<1>3. ASSUME v \in OnFile, v \in Listed \/ variants[v].sold
      PROVE  products'[variants'[v].product].published
  BY <1>2, <1>3 DEF PublicUrlsAreLocked
<1>4. ASSUME NEW p \in Product, NEW vs \in SUBSET Variant, NEW skuOf \in [vs -> Sku],
             CreateVariants(p, skuOf), UNCHANGED listingVars
      PROVE  products'[variants'[v].product].published
  <2>1. v \notin vs
    <3>1. SUFFICES ASSUME v \in vs PROVE FALSE
      OBVIOUS
    <3>2. variants'[v].sold = FALSE /\ variants[v].state = "free"
      BY <1>4, <3>1 DEF CreateVariants
    <3>3. Listed' = Listed
      BY <1>4 DEF Listed, Rows, listingVars
    <3>4. v \in OnFile
      BY <3>2, <3>3 DEF KeysHold
    <3>5. QED
      BY <3>2, <3>4 DEF OnFile
  <2>2. variants'[v] = variants[v] /\ Listed' = Listed
    BY <1>1, <1>4, <2>1 DEF CreateVariants, Listed, Rows, listingVars
  <2>3. QED
    BY <1>3, <2>2 DEF OnFile
<1>5. ASSUME NEW x \in Variant, Sale(x, Listed), UNCHANGED listingVars
      PROVE  products'[variants'[v].product].published
  <2>1. Listed' = Listed
    BY <1>5 DEF Listed, Rows, listingVars
  <2>2. v \in OnFile /\ (v # x => variants'[v] = variants[v])
    BY <1>1, <1>5 DEF Sale, OnFile, VariantRow
  <2>3. CASE v = x
    <3>1. variants[v].product \in Existing
      BY <2>2 DEF RefersToRows
    <3>2. products[variants[v].product].published
      BY <1>5, <2>2, <2>3, <3>1 DEF Sale, PublicUrlsAreLocked
    <3>3. QED
      BY <1>2, <2>2, <3>2
  <2>4. CASE v # x
    BY <1>3, <2>1, <2>2, <2>4
  <2>5. QED
    BY <2>3, <2>4
<1>6. ASSUME NEW a \in Admin, WriteSku(a), UNCHANGED listingVars
      PROVE  products'[variants'[v].product].published
  <2>1. Listed' = Listed
    BY <1>6 DEF Listed, Rows, listingVars
  <2>2. v \in OnFile /\ variants'[v].sold = variants[v].sold
    BY <1>1, <1>6 DEF WriteSku, OnFile, VariantRow
  <2>3. QED
    BY <1>3, <2>1, <2>2
<1>7. ASSUME NEW a \in Admin, DeleteVariant(a)
      PROVE  products'[variants'[v].product].published
  <2>1. Listed' \subseteq Listed
    BY <1>7 DEF DeleteVariant, Listed, Rows
  <2>2. v \in OnFile /\ variants'[v].sold = variants[v].sold
    BY <1>1, <1>7 DEF DeleteVariant, WriteDelete, OnFile, NoVariant
  <2>3. QED
    BY <1>3, <2>1, <2>2
<1>8. ASSUME NEW l \in Listing, CreateListing(l)
      PROVE  products'[variants'[v].product].published
  <2>1. UNCHANGED catalogVars
    BY <1>8 DEF CreateListing
  <2>2. v \in OnFile /\ variants' = variants
    BY <1>1, <2>1 DEF OnFile, catalogVars
  <2>3. CASE v \in Listed \/ variants[v].sold
    BY <1>3, <2>2, <2>3
  <2>4. CASE v \notin Listed /\ ~variants[v].sold
    <3>1. v = operator.variant
      BY <1>8, <2>2, <2>4 DEF CreateListing, Listed, Rows
    <3>2. QED
      BY <1>2, <1>8, <2>2, <3>1 DEF CreateListing, LocksAreKept
  <2>5. QED
    BY <2>3, <2>4
<1>9. ASSUME UNCHANGED variants, Listed' \subseteq Listed
      PROVE  products'[variants'[v].product].published
  BY <1>1, <1>3, <1>9 DEF OnFile
<1>10. ASSUME RecordFeed \/ (\E f \in Feed : \E verdict, r : CheckFeed(f, verdict, r))
       PROVE  products'[variants'[v].product].published
  <2>1. KeepsRows /\ UNCHANGED variants
    BY <1>10, StatusesKeepRows DEF RecordFeed, CheckFeed, catalogVars
  <2>2. Listed' \subseteq Listed
    BY <2>1 DEF Listed, KeepsRows
  <2>3. QED
    BY <1>9, <2>1, <2>2
<1>11. ASSUME UNCHANGED <<variants, listings>>
       PROVE  products'[variants'[v].product].published
  BY <1>9, <1>11 DEF Listed, Rows
<1>12. QED
  BY <1>4, <1>5, <1>6, <1>7, <1>8, <1>10, <1>11 DEF Next, CatalogStep, CreateProduct, ReadStatus,
     WriteStatus, ReadSlug, WriteSlug, ReadSku, ReadDelete, ReadListable,
     PostFeed, OperatorDies, catalogVars, listingVars, vars

(* The calls and the listing in flight go on seeing the publication. *)
LEMMA FlightStepLocks ==
  ASSUME Base, Base', LockInv, [Next]_vars
  PROVE  LocksAreKept'
<1> USE DEF LockInv
<1>1. ASSUME NEW a \in Admin, calls'[a].op = "status", calls'[a].published
      PROVE  products'[calls'[a].product].published
  <2> USE DEF Base, TypeOK, CatalogTypeOK
  <2>1. CASE calls'[a] = calls[a]
    <3>1. calls[a].product \in Existing /\ products[calls[a].product].published
      BY <1>1, <2>1 DEF RefersToRows, LocksAreKept
    <3>2. QED
      BY <2>1, <3>1, ProductsStay
  <2>2. ASSUME NEW b \in Admin, NEW p \in Product, NEW to \in Status, ReadStatus(b, p, to)
        PROVE  calls'[a] = calls[a] \/ products'[calls'[a].product].published
    BY <1>1, <2>2 DEF ReadStatus, Begin
  <2>3. ASSUME NEW b \in Admin, NEW p \in Product, NEW s \in Slug, ReadSlug(b, p, s)
        PROVE  calls'[a] = calls[a]
    BY <1>1, <2>3 DEF ReadSlug, Begin
  <2>4. ASSUME NEW b \in Admin, NEW v \in Variant, NEW k \in Sku, ReadSku(b, v, k, Listed)
        PROVE  calls'[a] = calls[a]
    BY <1>1, <2>4 DEF ReadSku, Begin
  <2>5. ASSUME NEW b \in Admin, NEW v \in Variant, ReadDelete(b, v, Listed)
        PROVE  calls'[a] = calls[a]
    BY <1>1, <2>5 DEF ReadDelete, Begin
  <2>6. ASSUME NEW b \in Admin, End(b)
        PROVE  calls'[a] = calls[a]
    BY <1>1, <2>6 DEF End, Idle
  <2>7. QED
    BY <2>1, <2>2, <2>3, <2>4, <2>5, <2>6 DEF Next, CatalogStep, CreateProduct, CreateVariants,
       Sale, WriteStatus, WriteSlug, WriteSku, DeleteVariant, WriteDelete, ReadListable,
       CreateListing, PostFeed, RecordFeed, CheckFeed, OperatorDies, catalogVars, vars
<1>2. ASSUME operator'.op = "create"
      PROVE  /\ variants'[operator'.variant].state # "free"
             /\ operator'.variant \in OnFile' => products'[variants'[operator'.variant].product].published
  <2>1. CASE operator' = operator
    <3>1. operator.variant \in Variant
      BY <1>2, <2>1, OperatorTyped DEF Base, TypeOK
    <3>2. VariantMoves(operator.variant)
      BY <3>1, VariantsMove
    <3>3. variants[operator.variant].state # "free"
      BY <1>2, <2>1 DEF LocksAreKept
    <3>4. ASSUME operator.variant \in OnFile'
          PROVE  products'[variants'[operator.variant].product].published
      <4>1. /\ operator.variant \in OnFile
            /\ variants'[operator.variant].product = variants[operator.variant].product
        BY <3>1, <3>2, <3>3, <3>4 DEF VariantMoves, OnFile
      <4>2. /\ variants[operator.variant].product \in Existing
            /\ products[variants[operator.variant].product].published
        BY <1>2, <2>1, <4>1 DEF LocksAreKept, Base, RefersToRows
      <4>3. QED
        BY <4>1, <4>2, ProductsStay
    <3>5. QED
      BY <2>1, <3>2, <3>3, <3>4 DEF VariantMoves
  <2>2. ASSUME NEW v \in Variant, NEW w \in WalmartSku, ReadListable(v, w)
        PROVE  /\ variants'[operator'.variant].state # "free"
               /\ products'[variants'[operator'.variant].product].published
    <3>1. v \in OnFile /\ variants[v].product \in Existing
      BY <2>2 DEF ReadListable, Base, RefersToRows
    <3>2. products[variants[v].product].published
      BY <2>2, <3>1 DEF ReadListable, Listable, PublicUrlsAreLocked
    <3>3. QED
      BY <2>2, <3>1, <3>2 DEF ReadListable, OnFile, catalogVars
  <2>3. operator' = operator \/ \E v \in Variant, w \in WalmartSku : ReadListable(v, w)
    <3>1. CASE CatalogStep /\ UNCHANGED listingVars
      BY <3>1 DEF listingVars
    <3>2. ASSUME NEW b \in Admin, DeleteVariant(b)
          PROVE  operator' = operator
      BY <3>2 DEF DeleteVariant
    <3>3. ASSUME NEW l \in Listing, CreateListing(l)
          PROVE  FALSE
      BY <1>2, <3>3 DEF CreateListing, Resting
    <3>4. ASSUME NEW f \in Feed, NEW ids \in SUBSET Listing, PostFeed(f, ids)
          PROVE  FALSE
      BY <1>2, <3>4 DEF PostFeed, Resting
    <3>5. ASSUME NEW f \in Feed, NEW verdict, NEW r, CheckFeed(f, verdict, r)
          PROVE  operator' = operator
      BY <3>5 DEF CheckFeed
    <3>6. ~RecordFeed /\ ~OperatorDies
      BY <1>2 DEF RecordFeed, OperatorDies, Resting
    <3>7. QED
      BY <3>1, <3>2, <3>3, <3>4, <3>5, <3>6 DEF Next, vars, listingVars
  <2>4. QED
    BY <2>1, <2>2, <2>3
<1>3. QED
  BY <1>1, <1>2 DEF LocksAreKept

(* What customers can reach or have bought has had its product's URL       *)
(* locked, whatever status changes, sales and listings run at once.        *)
THEOREM PublicUrlsStayLocked == Spec => []PublicUrlsAreLocked
<1>1. Init => LockInv
  BY DEF Init, CatalogInit, LockInv, PublicUrlsAreLocked, LocksAreKept, Existing, OnFile, NoVariant,
     Idle, Resting
<1>2. Base /\ Base' /\ LockInv /\ [Next]_vars => LockInv'
  <2> SUFFICES ASSUME Base, Base', LockInv, [Next]_vars PROVE LockInv'
    OBVIOUS
  <2>1. \A v \in OnFile' : v \in Listed' \/ variants'[v].sold => products'[variants'[v].product].published
    BY ReachedStepLocks
  <2>2. QED
    BY <2>1, StatusStepLocks, FlightStepLocks DEF LockInv, PublicUrlsAreLocked
<1>3. LockInv => PublicUrlsAreLocked
  BY DEF LockInv
<1>4. QED
  BY <1>1, <1>2, <1>3, BaseHolds, PTL DEF Spec

-----------------------------------------------------------------------------
(* What Walmart said, and what is on file of it, stays said. *)

(* The steps that concern feeds. *)
LEMMA FeedSteps ==
  ASSUME [Next]_vars
  PROVE  \/ UNCHANGED <<feeds, walmart>>
         \/ \E f \in Feed, ids \in SUBSET Listing : PostFeed(f, ids)
         \/ RecordFeed
         \/ \E f \in Feed : walmart[f] # None /\ \E verdict \in Decided(f) :
              \E r \in Replies(f, verdict) : CheckFeed(f, verdict, r)
<1>1. CASE CatalogStep /\ UNCHANGED listingVars
  BY <1>1 DEF listingVars
<1>2. ASSUME NEW a \in Admin, DeleteVariant(a)
      PROVE  UNCHANGED <<feeds, walmart>>
  BY <1>2 DEF DeleteVariant
<1>3. ASSUME NEW v \in Variant, NEW w \in WalmartSku, ReadListable(v, w)
      PROVE  UNCHANGED <<feeds, walmart>>
  BY <1>3 DEF ReadListable
<1>4. ASSUME NEW l \in Listing, CreateListing(l)
      PROVE  UNCHANGED <<feeds, walmart>>
  BY <1>4 DEF CreateListing
<1>5. CASE OperatorDies
  BY <1>5 DEF OperatorDies
<1>6. CASE UNCHANGED vars
  BY <1>6 DEF vars, listingVars
<1>7. QED
  BY <1>1, <1>2, <1>3, <1>4, <1>5, <1>6 DEF Next

(* One answer: what was decided stays, ids stay, entries stay on file, and *)
(* errors named in this answer or an earlier one are on file after it.     *)
LEMMA CheckKeeps ==
  ASSUME Base, NEW f \in Feed, walmart[f] # None, NEW verdict \in Decided(f),
         NEW r \in Replies(f, verdict), CheckFeed(f, verdict, r), NEW w \in WalmartSku
  PROVE  /\ feeds[f] # None /\ feeds'[f] # None /\ feeds'[f].ids = feeds[f].ids
         /\ walmart'[f] # None /\ walmart'[f].verdict[w] = verdict[w]
         /\ walmart[f].verdict[w] = "accepted" => verdict[w] = "accepted"
         /\ r[w] = "SUCCESS" => verdict[w] = "accepted"
         /\ feeds[f].errors[w] # None => feeds'[f].errors[w] # None
         /\ feeds[f].errors[w] = "errors" \/ r[w] = "errors" => feeds'[f].errors[w] = "errors"
         /\ (\E l \in feeds[f].ids \cap Rows : SkuOf(l) = w) => feeds'[f].errors[w] # None
         /\ w \in walmart'[f].told => w \in walmart[f].told \/ r[w] = "errors"
<1> USE DEF Base, TypeOK
<1>1. feeds[f] \in FeedRow /\ walmart[f] \in Received
  BY DEF CheckFeed
<1>2. /\ verdict \in [WalmartSku -> Verdict] /\ r \in [WalmartSku -> Entry \cup {None}]
      /\ walmart[f].verdict[w] # "open" => verdict[w] = walmart[f].verdict[w]
      /\ r[w] \in IF w \in walmart[f].items THEN Says(verdict[w]) ELSE {None}
  BY DEF Decided, Replies, Reply
<1>3. PICK skus :
        /\ \A l \in feeds[f].ids \cap Rows : SkuOf(l) \in skus
        /\ feeds' = [feeds EXCEPT ![f].settled = TRUE,
             ![f].errors = [x \in WalmartSku |-> Merged(@[x], r[x], x \in skus)]]
  <2> WITNESS {SkuOf(l) : l \in feeds[f].ids \cap Rows}
  <2> QED
    BY DEF CheckFeed
<1>4. /\ feeds'[f].ids = feeds[f].ids
      /\ feeds'[f].errors[w] = Merged(feeds[f].errors[w], r[w], w \in skus)
  BY <1>1, <1>3 DEF FeedRow
<1>5. feeds'[f] = [feeds[f] EXCEPT !.settled = TRUE,
        !.errors = [x \in WalmartSku |-> Merged(feeds[f].errors[x], r[x], x \in skus)]]
  BY <1>1, <1>3
<1>6. /\ feeds[f].errors[w] \in Entry \cup {None, "no_outcome"}
      /\ [x \in WalmartSku |-> Merged(feeds[f].errors[x], r[x], x \in skus)]
           \in [WalmartSku -> Entry \cup {None, "no_outcome"}]
  <2>1. \A x \in WalmartSku : /\ feeds[f].errors[x] \in Entry \cup {None, "no_outcome"}
                             /\ r[x] \in Entry \cup {None}
    BY <1>1, <1>2 DEF FeedRow
  <2>2. QED
    BY <2>1, MergedEntry
<1>7. feeds'[f] \in FeedRow
  BY <1>1, <1>5, <1>6 DEF FeedRow
<1>8. /\ walmart'[f] \in Received
      /\ walmart'[f].verdict = verdict
      /\ w \in walmart'[f].told => w \in walmart[f].told \/ r[w] = "errors"
  BY <1>1, <1>2 DEF CheckFeed, Received
<1>9. r[w] = "SUCCESS" => verdict[w] = "accepted"
  <2>1. verdict[w] \in Verdict
    BY <1>2
  <2>2. QED
    BY <1>2, <2>1, ListingsAssumption DEF Says, Verdict, Entry
<1>10. /\ feeds[f].errors[w] = "errors" => feeds'[f].errors[w] = "errors"
       /\ r[w] = "errors" => feeds'[f].errors[w] = "errors"
       /\ feeds'[f].errors[w] = None => feeds[f].errors[w] = None /\ w \notin skus
  <2>1. r[w] \in Entry \cup {None}
    BY <1>2
  <2>2. QED
    BY <1>4, <1>6, <2>1, MergedEntry
<1>11. /\ feeds[f] # None /\ feeds'[f] # None /\ walmart'[f] # None
       /\ walmart[f].verdict[w] = "accepted" => verdict[w] = "accepted"
  BY <1>1, <1>2, <1>7, <1>8, ListingsAssumption
<1>12. (\E l \in feeds[f].ids \cap Rows : SkuOf(l) = w) => feeds'[f].errors[w] # None
  BY <1>3, <1>10
<1>13. QED
  BY <1>4, <1>8, <1>9, <1>10, <1>11, <1>12

(* Every step. *)
LEMMA FeedsStay ==
  ASSUME Base, FeedsAreKnown, [Next]_vars, NEW f \in Feed, NEW w \in WalmartSku
  PROVE  /\ walmart[f] # None =>
              /\ walmart'[f] # None
              /\ walmart[f].verdict[w] = "accepted" => walmart'[f].verdict[w] = "accepted"
         /\ feeds[f] # None =>
              /\ feeds'[f] # None /\ feeds'[f].ids = feeds[f].ids
              /\ feeds[f].errors[w] # None => feeds'[f].errors[w] # None
<1> USE DEF Base, TypeOK
<1>1. CASE UNCHANGED <<feeds, walmart>>
  BY <1>1
<1>2. ASSUME NEW g \in Feed, NEW ids \in SUBSET Listing, PostFeed(g, ids)
      PROVE  /\ UNCHANGED feeds /\ walmart[g] = None
             /\ \A h \in Feed : h # g => walmart'[h] = walmart[h]
  BY <1>2 DEF PostFeed
<1>3. ASSUME RecordFeed
      PROVE  UNCHANGED walmart /\ (feeds[f] # None => feeds'[f] = feeds[f])
  BY <1>3 DEF RecordFeed, FeedsAreKnown
<1>4. ASSUME NEW g \in Feed, walmart[g] # None, NEW verdict \in Decided(g),
             NEW r \in Replies(g, verdict), CheckFeed(g, verdict, r), g # f
      PROVE  feeds'[f] = feeds[f] /\ walmart'[f] = walmart[f]
  BY <1>4 DEF CheckFeed
<1>5. ASSUME walmart[f] # None, NEW verdict \in Decided(f),
             NEW r \in Replies(f, verdict), CheckFeed(f, verdict, r)
      PROVE  /\ walmart'[f] # None
             /\ walmart[f].verdict[w] = "accepted" => walmart'[f].verdict[w] = "accepted"
             /\ feeds'[f] # None /\ feeds'[f].ids = feeds[f].ids
             /\ feeds[f].errors[w] # None => feeds'[f].errors[w] # None
  BY <1>5, CheckKeeps
<1>6. QED
  BY <1>1, <1>2, <1>3, <1>4, <1>5, FeedSteps

(* Where a status on file comes from: creating and submitting, an earlier  *)
(* state, or an answer to a feed that carried the listing.                 *)
LEMMA StatusComesFrom ==
  ASSUME Base, [Next]_vars, NEW l \in Rows'
  PROVE  \/ listings'[l].status \in {"draft", "submitted"}
         \/ l \in Rows /\ listings'[l] = listings[l]
         \/ \E f \in Feed : walmart[f] # None /\ \E verdict \in Decided(f) : \E r \in Replies(f, verdict) :
              /\ CheckFeed(f, verdict, r) /\ l \in feeds[f].ids \cap Rows
              /\ listings'[l].sku = listings[l].sku
              /\ listings'[l].status = "live" => r[SkuOf(l)] = "SUCCESS"
<1> USE DEF Base, TypeOK
<1>1. l \in Listing /\ listings'[l] # None
  BY DEF Rows
<1>2. CASE UNCHANGED listings
  BY <1>1, <1>2 DEF Rows
<1>3. ASSUME NEW a \in Admin, DeleteVariant(a)
      PROVE  l \in Rows /\ listings'[l] = listings[l]
  BY <1>1, <1>3 DEF DeleteVariant, Rows
<1>4. ASSUME NEW m \in Listing, CreateListing(m)
      PROVE  listings'[l].status = "draft" \/ (l \in Rows /\ listings'[l] = listings[l])
  BY <1>1, <1>4 DEF CreateListing, Rows
<1>5. ASSUME RecordFeed
      PROVE  listings'[l].status = "submitted" \/ (l \in Rows /\ listings'[l] = listings[l])
  <2>1. l \in Rows /\ listings[l] \in ListingRow
    BY <1>1, <1>5, StatusesKeepRows DEF KeepsRows, Rows
  <2>2. listings'[l] \in {[listings[l] EXCEPT !.status = "submitted"], listings[l]}
    BY <1>1, <1>5 DEF RecordFeed, WithStatus
  <2>3. QED
    BY <2>1, <2>2 DEF ListingRow
<1>6. ASSUME NEW f \in Feed, walmart[f] # None, NEW verdict \in Decided(f),
             NEW r \in Replies(f, verdict), CheckFeed(f, verdict, r)
      PROVE  \/ l \in Rows /\ listings'[l] = listings[l]
             \/ /\ l \in feeds[f].ids \cap Rows /\ listings'[l].sku = listings[l].sku
                /\ listings'[l].status = "live" => r[SkuOf(l)] = "SUCCESS"
  <2>1. l \in Rows /\ listings'[l].sku = listings[l].sku /\ listings[l] \in ListingRow
    BY <1>1, <1>6, StatusesKeepRows DEF KeepsRows, Rows
  <2>2. CASE l \notin feeds[f].ids
    BY <1>1, <1>6, <2>1, <2>2 DEF CheckFeed
  <2>3. CASE l \in feeds[f].ids /\ r[SkuOf(l)] # "SUCCESS"
    <3>1. listings'[l] \in {[listings[l] EXCEPT !.status = "rejected"], listings[l]}
      BY <1>1, <1>6, <2>1, <2>3 DEF CheckFeed, GoesLive
    <3>2. QED
      BY <2>1, <2>3, <3>1 DEF ListingRow
  <2>4. QED
    BY <2>1, <2>2, <2>3
<1>7. \/ UNCHANGED listings
      \/ \E a \in Admin : DeleteVariant(a)
      \/ \E m \in Listing : CreateListing(m)
      \/ RecordFeed
      \/ \E f \in Feed : walmart[f] # None /\ \E verdict \in Decided(f) :
           \E r \in Replies(f, verdict) : CheckFeed(f, verdict, r)
  BY DEF Next, ReadListable, PostFeed, OperatorDies, vars, listingVars
<1>8. QED
  BY <1>2, <1>3, <1>4, <1>5, <1>6, <1>7

(* What Walmart has of a feed stays typed when it answers. *)
LEMMA FeedChecked ==
  ASSUME Base, NEW f \in Feed, walmart[f] # None, NEW verdict \in Decided(f),
         NEW r, CheckFeed(f, verdict, r)
  PROVE  walmart'[f] # None /\ walmart'[f].told \subseteq WalmartSku
<1>1. walmart[f] \in Received
  BY DEF Base, TypeOK
<1>2. verdict \in [WalmartSku -> Verdict]
  BY DEF Decided
<1>3. walmart'[f] \in Received
  BY <1>1, <1>2 DEF CheckFeed, Received, Base, TypeOK
<1>4. QED
  BY <1>3, ListingsAssumption DEF Received

(* What is known of a feed, and the errors named in its answers. *)
LEMMA KnownStep ==
  ASSUME Base, FeedsAreKnown, VerdictsAreBacked, [Next]_vars
  PROVE  /\ FeedsAreKnown'
         /\ \A f \in Feed : feeds'[f] # None =>
              \A w \in walmart'[f].told : feeds'[f].errors[w] = "errors"
<1> USE DEF Base, TypeOK
<1>1. ASSUME NEW f \in Feed, feeds'[f] # None
      PROVE  walmart'[f] # None
  <2>1. CASE feeds[f] # None
    <3>1. ASSUME NEW g \in Feed, walmart[g] # None, NEW verdict \in Decided(g),
                 NEW r \in Replies(g, verdict), CheckFeed(g, verdict, r)
          PROVE  walmart'[f] # None
      <4>1. CASE f = g
        BY <3>1, <4>1, FeedChecked
      <4>2. CASE f # g
        BY <2>1, <3>1, <4>2 DEF CheckFeed, FeedsAreKnown
      <4>3. QED
        BY <4>1, <4>2
    <3>2. CASE UNCHANGED walmart \/ \E g \in Feed, ids \in SUBSET Listing : PostFeed(g, ids)
      BY <2>1, <3>2 DEF PostFeed, FeedsAreKnown
    <3>3. QED
      BY <3>1, <3>2, FeedSteps DEF RecordFeed
  <2>2. CASE feeds[f] = None
    BY <1>1, <2>2, FeedSteps DEF PostFeed, RecordFeed, CheckFeed, FeedsAreKnown
  <2>3. QED
    BY <2>1, <2>2
<1>2. ASSUME NEW f \in Feed, feeds'[f] = None, walmart'[f] # None
      PROVE  walmart'[f].told = {}
  <2>1. ASSUME NEW g \in Feed, NEW ids \in SUBSET Listing, PostFeed(g, ids)
        PROVE  walmart'[f].told = {}
    BY <1>2, <2>1 DEF PostFeed, FeedsAreKnown
  <2>2. CASE UNCHANGED <<feeds, walmart>>
    BY <1>2, <2>2 DEF FeedsAreKnown
  <2>3. CASE RecordFeed
    BY <1>2, <2>3, OperatorTyped, ListingsAssumption DEF RecordFeed, FeedsAreKnown
  <2>4. ASSUME NEW g \in Feed, walmart[g] # None, NEW verdict \in Decided(g),
               NEW r \in Replies(g, verdict), CheckFeed(g, verdict, r)
        PROVE  walmart'[f].told = {}
    <3>1. CASE f = g
      <4>1. ASSUME NEW w \in walmart'[f].told
            PROVE  FALSE
        BY <1>2, <2>4, <3>1, <4>1, FeedChecked, CheckKeeps
      <4>2. QED
        BY <4>1
    <3>2. CASE f # g
      BY <1>2, <2>4, <3>2 DEF CheckFeed, FeedsAreKnown
    <3>3. QED
      BY <3>1, <3>2
  <2>5. QED
    BY <2>1, <2>2, <2>3, <2>4, FeedSteps
<1>3. ASSUME operator'.op = "record"
      PROVE  feeds'[operator'.feed] = None /\ walmart'[operator'.feed] # None
  <2>1. ASSUME NEW g \in Feed, NEW ids \in SUBSET Listing, PostFeed(g, ids)
        PROVE  feeds'[operator'.feed] = None /\ walmart'[operator'.feed] # None
    <3>1. operator'.feed = g /\ feeds'[g] = None
      BY <1>3, <2>1 DEF PostFeed, FeedsAreKnown, Resting
    <3>2. walmart'[g] \in Received
      <4>1. \A l \in ids : SkuOf(l) \in WalmartSku
        BY <2>1 DEF PostFeed, Rows, SkuOf, ListingRow
      <4>2. QED
        BY <2>1, <4>1 DEF PostFeed, Received, Verdict
    <3>3. QED
      BY <3>1, <3>2, ListingsAssumption
  <2>2. CASE UNCHANGED <<operator, feeds, walmart>>
    BY <1>3, <2>2 DEF FeedsAreKnown
  <2>3. ASSUME NEW v \in Variant, NEW w \in WalmartSku, ReadListable(v, w)
        PROVE  FALSE
    BY <1>3, <2>3 DEF ReadListable
  <2>4. ASSUME NEW l \in Listing, CreateListing(l)
        PROVE  FALSE
    BY <1>3, <2>4 DEF CreateListing, Resting
  <2>5. ~RecordFeed /\ ~OperatorDies
    BY <1>3 DEF RecordFeed, OperatorDies, Resting
  <2>6. ASSUME NEW f \in Feed, NEW verdict, NEW r, CheckFeed(f, verdict, r)
        PROVE  FALSE
    BY <1>3, <2>6 DEF CheckFeed, Resting
  <2>7. QED
    BY <2>1, <2>2, <2>3, <2>4, <2>5, <2>6 DEF Next, DeleteVariant, vars, listingVars
<1>4. ASSUME NEW f \in Feed, feeds'[f] # None, NEW w \in walmart'[f].told
      PROVE  feeds'[f].errors[w] = "errors"
  <2>1. CASE UNCHANGED <<feeds, walmart>>
    BY <1>4, <2>1 DEF VerdictsAreBacked
  <2>2. ASSUME NEW g \in Feed, NEW ids \in SUBSET Listing, PostFeed(g, ids)
        PROVE  feeds'[f].errors[w] = "errors"
    BY <1>4, <2>2 DEF PostFeed, VerdictsAreBacked, FeedsAreKnown
  <2>3. CASE RecordFeed
    BY <1>4, <2>3, OperatorTyped DEF RecordFeed, VerdictsAreBacked, FeedsAreKnown
  <2>4. ASSUME NEW g \in Feed, walmart[g] # None, NEW verdict \in Decided(g),
               NEW r \in Replies(g, verdict), CheckFeed(g, verdict, r)
        PROVE  feeds'[f].errors[w] = "errors"
    <3>1. CASE f = g
      <4>1. w \in WalmartSku
        BY <1>4, <2>4, <3>1, FeedChecked
      <4>2. feeds[f] # None /\ (w \in walmart[f].told => feeds[f].errors[w] = "errors")
        BY <2>4, <3>1 DEF CheckFeed, VerdictsAreBacked
      <4>3. QED
        BY <1>4, <2>4, <3>1, <4>1, <4>2, CheckKeeps
    <3>2. CASE f # g
      BY <1>4, <2>4, <3>2 DEF CheckFeed, VerdictsAreBacked
    <3>3. QED
      BY <3>1, <3>2
  <2>5. QED
    BY <2>1, <2>2, <2>3, <2>4, FeedSteps
<1>5. QED
  BY <1>1, <1>2, <1>3, <1>4 DEF FeedsAreKnown

(* Live because accepted, rejected with something on file, errors kept. *)
THEOREM VerdictsStayBacked == Spec => []VerdictsAreBacked
<1> DEFINE Inv == FeedsAreKnown /\ VerdictsAreBacked
<1>1. Init => Inv
  BY DEF Init, FeedsAreKnown, VerdictsAreBacked, Rows, Resting
<1>2. Base /\ Inv /\ [Next]_vars => Inv'
  <2> SUFFICES ASSUME Base, Inv, [Next]_vars PROVE Inv'
    OBVIOUS
  <2>1. ASSUME NEW l \in Rows', listings'[l].status = "live"
        PROVE  \E f \in Feed : /\ feeds'[f] # None /\ l \in feeds'[f].ids
                               /\ walmart'[f].verdict[listings'[l].sku] = "accepted"
    <3>1. CASE l \in Rows /\ listings'[l] = listings[l]
      <4>1. PICK f \in Feed : /\ feeds[f] # None /\ l \in feeds[f].ids
                              /\ walmart[f].verdict[SkuOf(l)] = "accepted"
        BY <2>1, <3>1 DEF VerdictsAreBacked
      <4>2. listings[l].sku \in WalmartSku
        BY <3>1 DEF Base, TypeOK, Rows, ListingRow
      <4>3. QED
        BY <3>1, <4>1, <4>2, FeedsStay DEF FeedsAreKnown, SkuOf
    <3>2. ASSUME NEW f \in Feed, walmart[f] # None, NEW verdict \in Decided(f),
                 NEW r \in Replies(f, verdict), CheckFeed(f, verdict, r),
                 l \in feeds[f].ids \cap Rows, listings'[l].sku = listings[l].sku,
                 r[SkuOf(l)] = "SUCCESS"
          PROVE  /\ feeds'[f] # None /\ l \in feeds'[f].ids
                 /\ walmart'[f].verdict[listings'[l].sku] = "accepted"
      <4>1. listings[l].sku \in WalmartSku
        BY <3>2 DEF Base, TypeOK, Rows, ListingRow
      <4>2. QED
        BY <3>2, <4>1, CheckKeeps DEF SkuOf
    <3>3. QED
      BY <2>1, <3>1, <3>2, StatusComesFrom
  <2>2. ASSUME NEW l \in Rows', listings'[l].status = "rejected"
        PROVE  \E f \in Feed : /\ feeds'[f] # None /\ l \in feeds'[f].ids
                               /\ feeds'[f].errors[listings'[l].sku] # None
    <3>1. CASE l \in Rows /\ listings'[l] = listings[l]
      <4>1. PICK f \in Feed : /\ feeds[f] # None /\ l \in feeds[f].ids
                              /\ feeds[f].errors[SkuOf(l)] # None
        BY <2>2, <3>1 DEF VerdictsAreBacked
      <4>2. listings[l].sku \in WalmartSku
        BY <3>1 DEF Base, TypeOK, Rows, ListingRow
      <4>3. QED
        BY <3>1, <4>1, <4>2, FeedsStay DEF SkuOf
    <3>2. ASSUME NEW f \in Feed, walmart[f] # None, NEW verdict \in Decided(f),
                 NEW r \in Replies(f, verdict), CheckFeed(f, verdict, r),
                 l \in feeds[f].ids \cap Rows, listings'[l].sku = listings[l].sku
          PROVE  /\ feeds'[f] # None /\ l \in feeds'[f].ids
                 /\ feeds'[f].errors[listings'[l].sku] # None
      <4>1. listings[l].sku \in WalmartSku
        BY <3>2 DEF Base, TypeOK, Rows, ListingRow
      <4>2. QED
        BY <3>2, <4>1, CheckKeeps DEF SkuOf
    <3>3. QED
      BY <2>2, <3>1, <3>2, StatusComesFrom
  <2>3. QED
    BY <2>1, <2>2, KnownStep DEF VerdictsAreBacked, SkuOf
<1>3. QED
  BY <1>1, <1>2, BaseHolds, PTL DEF Spec

=============================================================================
