----------------------------- MODULE MCAuctions -----------------------------
(***************************************************************************)
(* One auction, two bidders who send bids and retry them under two keys,   *)
(* one edit of the seller, a product with no unit or more than one, and a  *)
(* clock that outlives every deadline.                                     *)
(***************************************************************************)
EXTENDS Auctions

CONSTANTS a1, ann, ben, k1, k2
=============================================================================
