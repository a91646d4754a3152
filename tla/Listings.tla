------------------------------- MODULE Listings -------------------------------
(***************************************************************************)
(* Walmart listings on top of the catalog.  An operator lists a variant,   *)
(* submits listings in an item feed, and polls the feed for the verdict on *)
(* each item; the calls are typed one after the other, and the process may *)
(* die between any two steps.  Walmart decides item by item, and a later   *)
(* answer may say less than an earlier one.                                *)
(*                                                                         *)
(* Definitions marked "variant" are not the code's: each takes the place   *)
(* of the definition after it to see that a property notices.              *)
(***************************************************************************)
EXTENDS Catalog

CONSTANTS
  Listing,      \* row ids, which feeds refer to; not used again
  WalmartSku,
  Feed,
  MaxItems      \* bound on the items submitted, over all feeds

VARIABLES
  listings,   \* channel_listings: None before and after the row exists
  used,       \* the ids that have been given out
  feeds,      \* channel_feeds: None where there is no row
  walmart,    \* what Walmart has of each feed
  operator    \* the call that is running

listingVars == <<listings, used, feeds, walmart, operator>>
vars == <<catalogVars, listingVars>>

(* What a reply can say of an item, and the verdict it comes from. *)
Entry == {"SUCCESS", "INPROGRESS", "errors", "status"}
Verdict == {"open", "accepted", "refused"}

ListingRow == [variant : Variant, sku : WalmartSku,
               status : {"draft", "submitted", "live", "rejected"}]
FeedRow == [ids : SUBSET Listing, settled : BOOLEAN,
            errors : [WalmartSku -> Entry \cup {None, "no_outcome"}]]
(* told: items whose ingestion errors a settled answer has named to us. *)
Received == [items : SUBSET WalmartSku,
             verdict : [WalmartSku -> Verdict], told : SUBSET WalmartSku]
Reply == [WalmartSku -> Entry \cup {None}]

ASSUME ListingsAssumption ==
  /\ None \notin Listing \cup WalmartSku \cup Entry \cup {"no_outcome"}
  /\ None \notin ListingRow /\ None \notin FeedRow /\ None \notin Received
  /\ MaxItems \in Nat

Resting == [op |-> "idle"]
Operation == {Resting}
  \cup [op : {"create"}, variant : Variant, sku : WalmartSku]
  \cup [op : {"record"}, ids : SUBSET Listing, feed : Feed]

Submitted == {i \in Feed \X WalmartSku : walmart[i[1]] # None /\ i[2] \in walmart[i[1]].items}
Rows == {l \in Listing : listings[l] # None}
Listed == {listings[l].variant : l \in Rows}
SkuOf(l) == listings[l].sku

Init ==
  /\ CatalogInit
  /\ listings = [l \in Listing |-> None]
  /\ used = {}
  /\ feeds = [f \in Feed |-> None]
  /\ walmart = [f \in Feed |-> None]
  /\ operator = Resting

-----------------------------------------------------------------------------
(* Listing a variant *)

(* variant: any product will do *)
OnceCreated(v) == products[variants[v].product] # None

Listable(v) == products[variants[v].product].status = "published"

(* createListing reads the product, and inserts afterwards. *)
ReadListable(v, w) ==
  /\ operator = Resting
  /\ v \in OnFile /\ Listable(v)
  /\ operator' = [op |-> "create", variant |-> v, sku |-> w]
  /\ UNCHANGED <<catalogVars, listings, used, feeds, walmart>>

(* variant: one variant, several listings *)
OnFileStill(v, w) == v \in OnFile

(* The insert fails if the variant is gone, or it or the SKU is listed. *)
Insertable(v, w) == v \in OnFile \ Listed /\ \A l \in Rows : SkuOf(l) # w

CreateListing(l) ==
  LET call == operator IN
  /\ call.op = "create" /\ l \notin used
  /\ IF Insertable(call.variant, call.sku)
     THEN /\ listings' = [listings EXCEPT ![l] =
               [variant |-> call.variant, sku |-> call.sku, status |-> "draft"]]
          /\ used' = used \cup {l}
     ELSE UNCHANGED <<listings, used>>
  /\ operator' = Resting
  /\ UNCHANGED <<catalogVars, feeds, walmart>>

-----------------------------------------------------------------------------
(* Submitting *)

(* The rows that are found make the body of the request (a product without *)
(* an image, or a bad price, ends the call before it); Walmart takes the   *)
(* feed, and its answer may be lost.                                       *)
PostFeed(f, ids) ==
  /\ operator = Resting
  /\ ids # {} /\ ids \subseteq Rows
  /\ walmart[f] = None
  /\ Cardinality(Submitted) + Cardinality(ids) <= MaxItems
  /\ walmart' = [walmart EXCEPT ![f] =
       [items |-> {SkuOf(l) : l \in ids},
        verdict |-> [w \in WalmartSku |-> "open"], told |-> {}]]
  /\ operator' \in {[op |-> "record", ids |-> ids, feed |-> f], Resting}
  /\ UNCHANGED <<catalogVars, listings, used, feeds>>

(* updateMany: of those rows, the ones that are still there. *)
WithStatus(ids, status) ==
  [l \in Listing |-> IF l \in ids \cap Rows THEN [listings[l] EXCEPT !.status = status]
                     ELSE listings[l]]

RecordFeed ==
  LET call == operator IN
  /\ call.op = "record"
  /\ feeds' = [feeds EXCEPT ![call.feed] =
       [ids |-> call.ids, settled |-> FALSE, errors |-> [w \in WalmartSku |-> None]]]
  /\ listings' = WithStatus(call.ids, "submitted")
  /\ operator' = Resting
  /\ UNCHANGED <<catalogVars, used, walmart>>

-----------------------------------------------------------------------------
(* Walmart decides a feed item by item, and does not go back on it.  What   *)
(* it decides shows in its answers only, so it is decided when one is given. *)

Decided(f) ==
  {d \in [WalmartSku -> Verdict] : \A w \in WalmartSku :
     walmart[f].verdict[w] # "open" \/ w \notin walmart[f].items => d[w] = walmart[f].verdict[w]}

(* An open item is in progress; of a decided one an answer may say nothing. *)
Says(verdict) ==
  CASE verdict = "open"     -> {"INPROGRESS"}
    [] verdict = "accepted" -> {"SUCCESS", None}
    [] verdict = "refused"  -> {"errors", "status", None}

Replies(f, verdict) ==
  {r \in Reply : \A w \in WalmartSku :
     r[w] \in IF w \in walmart[f].items THEN Says(verdict[w]) ELSE {None}}

-----------------------------------------------------------------------------
(* Polling *)

(* variant: no word on an item of a settled feed means it went through *)
LiveUnlessRefused(said) == said \in {"SUCCESS", None}

(* itemOutcomesBySku: live on Walmart's explicit success only. *)
GoesLive(said) == said = "SUCCESS"

(* variant: the latest answer replaces what is on file *)
Latest(old, said, listed) == IF said = None /\ listed THEN "no_outcome" ELSE said

(* mergeFeedErrors, for one item: errors on file are not replaced by an    *)
(* entry without, nothing is erased, and a listing that was not mentioned  *)
(* is marked unless something is on file.                                  *)
Merged(old, said, listed) ==
  CASE said # None /\ old # "errors"          -> said
    [] said = None /\ old = None /\ listed    -> "no_outcome"
    [] OTHER                                  -> old

(* checkFeedStatus of a feed that has settled, with some items perhaps     *)
(* still in progress; until then a call changes nothing.  One step: a      *)
(* listing deleted between the answer r and the update is not updated.     *)
CheckFeed(f, verdict, r) ==
  LET mine == feeds[f].ids \cap Rows
      live == {l \in mine : GoesLive(r[SkuOf(l)])}
      rejected == {l \in mine \ live : r[SkuOf(l)] # "INPROGRESS"}
      skus == {SkuOf(l) : l \in mine}
  IN
  /\ operator = Resting
  /\ feeds[f] # None
  /\ feeds' = [feeds EXCEPT ![f].settled = TRUE,
       ![f].errors = [w \in WalmartSku |-> Merged(@[w], r[w], w \in skus)]]
  /\ listings' = [l \in Listing |->
       CASE l \in live     -> [listings[l] EXCEPT !.status = "live"]
         [] l \in rejected -> [listings[l] EXCEPT !.status = "rejected"]
         [] OTHER          -> listings[l]]
  /\ walmart' = [walmart EXCEPT ![f].verdict = verdict,
       ![f].told = @ \cup {w \in WalmartSku : r[w] = "errors"}]
  /\ UNCHANGED <<catalogVars, used, operator>>

(* The process dies, or the request fails, before the next write. *)
OperatorDies ==
  /\ operator # Resting
  /\ operator' = Resting
  /\ UNCHANGED <<catalogVars, listings, used, feeds, walmart>>

-----------------------------------------------------------------------------
(* The catalog's calls; a delete takes the listing with it. *)

CatalogStep ==
  \/ \E p \in Product, s \in Slug : CreateProduct(p, s)
  \/ \E p \in Product, vs \in (SUBSET Variant) \ {{}} :
       \E skuOf \in [vs -> Sku] : CreateVariants(p, skuOf)
  \/ \E v \in Variant : Sale(v, Listed)
  \/ \E a \in Admin :
       \/ \E p \in Product, to \in Status : ReadStatus(a, p, to)
       \/ WriteStatus(a)
       \/ \E p \in Product, s \in Slug : ReadSlug(a, p, s)
       \/ WriteSlug(a)
       \/ \E v \in Variant, k \in Sku : ReadSku(a, v, k, Listed)
       \/ WriteSku(a)
       \/ \E v \in Variant : ReadDelete(a, v, Listed)

DeleteVariant(a) ==
  /\ WriteDelete(a)
  /\ listings' = [l \in Listing |->
       IF l \in Rows /\ variants'[listings[l].variant].state = "gone" THEN None
       ELSE listings[l]]
  /\ UNCHANGED <<used, feeds, walmart, operator>>

Next ==
  \/ CatalogStep /\ UNCHANGED listingVars
  \/ \E a \in Admin : DeleteVariant(a)
  \/ \E v \in Variant, w \in WalmartSku : ReadListable(v, w)
  \/ \E l \in Listing : CreateListing(l)
  \/ \E f \in Feed, ids \in SUBSET Listing : PostFeed(f, ids)
  \/ \E f \in Feed : walmart[f] # None /\ \E verdict \in Decided(f) :
       \E r \in Replies(f, verdict) : CheckFeed(f, verdict, r)
  \/ RecordFeed
  \/ OperatorDies

Spec == Init /\ [][Next]_vars

-----------------------------------------------------------------------------
(* Unique columns, and the foreign key of a listing. *)
KeysHold ==
  /\ \A p, q \in Existing : products[p].slug = products[q].slug => p = q
  /\ \A v, x \in OnFile : variants[v].sku = variants[x].sku => v = x
  /\ \A l, m \in Rows : SkuOf(l) = SkuOf(m) \/ listings[l].variant = listings[m].variant => l = m
  /\ Listed \subseteq OnFile

(* Types, and the keys of the schema. *)
TypeOK ==
  /\ CatalogTypeOK
  /\ KeysHold
  /\ listings \in [Listing -> ListingRow \cup {None}]
  /\ used \subseteq Listing
  /\ feeds \in [Feed -> FeedRow \cup {None}]
  /\ walmart \in [Feed -> Received \cup {None}]
  /\ operator \in Operation

(* Whatever a customer can reach or has bought has had its product's URL   *)
(* locked: published products, variants that sold, and variants with a     *)
(* Walmart listing, whose product was read as published some time before;  *)
(* whatever other status changes ran in between (setProductStatus keeps    *)
(* the first publication).                                                 *)
PublicUrlsAreLocked ==
  /\ \A p \in Existing : products[p].status = "published" => products[p].published
  /\ \A v \in OnFile : v \in Listed \/ variants[v].sold => products[variants[v].product].published

(* What the tables say of an item, Walmart said: a live listing was        *)
(* accepted in a feed that carried it, a rejected one has something on     *)
(* file for it, and errors Walmart once named are still there, however     *)
(* often and in however little detail the feed was answered afterwards     *)
(* (checkFeedStatus).                                                      *)
VerdictsAreBacked ==
  /\ \A l \in Rows : listings[l].status = "live" =>
       \E f \in Feed : /\ feeds[f] # None /\ l \in feeds[f].ids
                       /\ walmart[f].verdict[SkuOf(l)] = "accepted"
  /\ \A l \in Rows : listings[l].status = "rejected" =>
       \E f \in Feed : feeds[f] # None /\ l \in feeds[f].ids /\ feeds[f].errors[SkuOf(l)] # None
  /\ \A f \in Feed : feeds[f] # None =>
       \A w \in walmart[f].told : feeds[f].errors[w] = "errors"
=============================================================================
