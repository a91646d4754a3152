------------------------------- MODULE Catalog -------------------------------
(***************************************************************************)
(* The administration of products and variants.  Every call is a           *)
(* transaction that reads its row without a lock, decides, and then writes *)
(* the row by its id: what commits between the two is not seen.  Sales     *)
(* happen meanwhile.                                                       *)
(*                                                                         *)
(* Definitions marked "variant" are not the code's: each takes the place   *)
(* of the definition after it to see that a property notices.              *)
(***************************************************************************)
EXTENDS Naturals, FiniteSets

CONSTANTS
  Product, Slug,
  Variant, Sku,   \* row ids of variants are not used again
  Admin,          \* calls that may be in flight at once
  MaxEdits,       \* bound on those calls
  None

VARIABLES
  products,   \* None where the row does not exist; published: first_published_at is set
  variants,   \* "free" before the row exists, "gone" after
  calls,      \* what each call has read and is about to write
  edits       \* calls so far

catalogVars == <<products, variants, calls, edits>>

Status == {"draft", "published", "archived"}
ProductRow == [status : Status, slug : Slug, published : BOOLEAN]
VariantRow == [state : {"free", "row", "gone"}, product : Product \cup {None},
               sku : Sku \cup {None}, sold : BOOLEAN]

ASSUME CatalogAssumption ==
  /\ None \notin Product \cup Variant \cup Slug \cup Sku
  /\ None \notin ProductRow
  /\ MaxEdits \in Nat

NoVariant == [state |-> "free", product |-> None, sku |-> None, sold |-> FALSE]

Idle == [op |-> "idle"]
Call == {Idle}
  \cup [op : {"status"}, product : Product, to : Status, published : BOOLEAN]
  \cup [op : {"slug"}, product : Product, to : Slug]
  \cup [op : {"sku"}, variant : Variant, to : Sku]
  \cup [op : {"delete"}, variant : Variant]

CatalogInit ==
  /\ products = [p \in Product |-> None]
  /\ variants = [v \in Variant |-> NoVariant]
  /\ calls = [a \in Admin |-> Idle]
  /\ edits = 0

(* A call has read its row; it writes when it ends. *)
Begin(a, call) ==
  /\ calls[a] = Idle /\ edits < MaxEdits
  /\ calls' = [calls EXCEPT ![a] = call]
  /\ edits' = edits + 1

End(a) == calls' = [calls EXCEPT ![a] = Idle] /\ UNCHANGED edits

Existing == {p \in Product : products[p] # None}
OnFile == {v \in Variant : variants[v].state = "row"}
SlugsTaken == {products[p].slug : p \in Existing}
SkusTaken == {variants[v].sku : v \in OnFile}

-----------------------------------------------------------------------------
(* Products *)

CreateProduct(p, s) ==
  /\ products[p] = None /\ s \notin SlugsTaken
  /\ products' = [products EXCEPT ![p] = [status |-> "draft", slug |-> s, published |-> FALSE]]
  /\ UNCHANGED <<variants, calls, edits>>

(* ALLOWED_TRANSITIONS *)
Allowed(from) ==
  CASE from = "draft"     -> {"published", "archived"}
    [] from = "published" -> {"draft", "archived"}
    [] from = "archived"  -> {"draft"}

(* setProductStatus, of one product or of a list: the read and its checks. *)
ReadStatus(a, p, to) ==
  /\ p \in Existing /\ to \in Allowed(products[p].status)
  /\ Begin(a, [op |-> "status", product |-> p, to |-> to, published |-> products[p].published])
  /\ UNCHANGED <<products, variants>>

(* variant: leaving the shop forgets the first publication *)
ForgottenOnLeaving(call) == call.to = "published"

(* first_published_at after the write: set by the call that found it unset *)
(* and publishes, and never cleared.                                       *)
FirstPublished(call) ==
  products[call.product].published \/ (call.to = "published" /\ ~call.published)

WriteStatus(a) ==
  LET call == calls[a] IN
  /\ call.op = "status"
  /\ products' = [products EXCEPT ![call.product].status = call.to,
                                  ![call.product].published = FirstPublished(call)]
  /\ End(a)
  /\ UNCHANGED variants

(* updateProduct, of the slug: refused once the product was published. *)
ReadSlug(a, p, s) ==
  /\ p \in Existing /\ s # products[p].slug /\ ~products[p].published
  /\ Begin(a, [op |-> "slug", product |-> p, to |-> s])
  /\ UNCHANGED <<products, variants>>

WriteSlug(a) ==
  LET call == calls[a] IN
  /\ call.op = "slug"
  /\ products' = IF call.to \in SlugsTaken THEN products
                 ELSE [products EXCEPT ![call.product].slug = call.to]
  /\ End(a)
  /\ UNCHANGED variants

-----------------------------------------------------------------------------
(* Variants *)

(* createVariant and bulkCreateVariants: all of the rows or none. *)
CreateVariants(p, skuOf) ==
  /\ p \in Existing
  /\ \A v \in DOMAIN skuOf : variants[v].state = "free" /\ skuOf[v] \notin SkusTaken
  /\ \A v, w \in DOMAIN skuOf : skuOf[v] = skuOf[w] => v = w
  /\ variants' = [v \in Variant |->
       IF v \in DOMAIN skuOf
       THEN [state |-> "row", product |-> p, sku |-> skuOf[v], sold |-> FALSE]
       ELSE variants[v]]
  /\ UNCHANGED <<products, calls, edits>>

(* updateVariant, of the SKU: refused once sold or listed. *)
ReadSku(a, v, k, listed) ==
  /\ v \in OnFile /\ k # variants[v].sku
  /\ ~variants[v].sold /\ v \notin listed
  /\ Begin(a, [op |-> "sku", variant |-> v, to |-> k])
  /\ UNCHANGED <<products, variants>>

(* The row may be gone, or the SKU taken. *)
WriteSku(a) ==
  LET call == calls[a] IN
  /\ call.op = "sku"
  /\ variants' = IF call.variant \notin OnFile \/ call.to \in SkusTaken THEN variants
                 ELSE [variants EXCEPT ![call.variant].sku = call.to]
  /\ End(a)
  /\ UNCHANGED products

(* deleteVariant: refused once sold or listed. *)
ReadDelete(a, v, listed) ==
  /\ v \in OnFile /\ ~variants[v].sold /\ v \notin listed
  /\ Begin(a, [op |-> "delete", variant |-> v])
  /\ UNCHANGED <<products, variants>>

(* An order line that came meanwhile holds the row; a listing does not. *)
Deletable(v) == v \in OnFile /\ ~variants[v].sold

WriteDelete(a) ==
  LET call == calls[a] IN
  /\ call.op = "delete"
  /\ variants' = IF Deletable(call.variant)
                 THEN [variants EXCEPT ![call.variant] = [NoVariant EXCEPT !.state = "gone"]]
                 ELSE variants
  /\ End(a)
  /\ UNCHANGED products

(* Somebody orders it: in the shop while its product is published, on      *)
(* Walmart by its listing, whatever became of the product.                 *)
Sale(v, listed) ==
  /\ v \in OnFile
  /\ products[variants[v].product].status = "published" \/ v \in listed
  /\ variants' = [variants EXCEPT ![v].sold = TRUE]
  /\ UNCHANGED <<products, calls, edits>>

-----------------------------------------------------------------------------
CatalogTypeOK ==
  /\ products \in [Product -> ProductRow \cup {None}]
  /\ variants \in [Variant -> VariantRow]
  /\ calls \in [Admin -> Call]
  /\ edits \in 0..MaxEdits
=============================================================================
