------------------------------ MODULE MCListings ------------------------------
(* One product with two variants, two administrators, and two feeds. *)
EXTENDS Listings, TLC

MCSymmetry ==
  Permutations(Admin) \cup Permutations(Variant) \cup Permutations(Feed)
    \cup Permutations(Listing) \cup Permutations(Slug) \cup Permutations(Sku)
    \cup Permutations(WalmartSku)
=============================================================================
