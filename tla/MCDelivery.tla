----------------------------- MODULE MCDelivery -----------------------------
(***************************************************************************)
(* Small instances of Delivery.  Symmetry in the listings is used only     *)
(* where no property is temporal and every listing is alike.               *)
(***************************************************************************)
EXTENDS Delivery, TLC

\* Listings are interchangeable, but for the ones Discord never accepts.
ListingSymmetry == Permutations(Items \ Unsendable)

=============================================================================
