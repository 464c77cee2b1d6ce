---------------------------- MODULE MCSettlement ----------------------------
(* SellerOrders for TLC: two orders of one seller that share a product, and *)
(* refunds of the first one's two lines under three idempotency keys.  The  *)
(* prices are small enough for a commission that does not divide evenly     *)
(* (10% of 8 cents is 1 cent), and the stock covers one order at a time.    *)
EXTENDS SellerOrders, TLC

CONSTANTS o1, o2, s1, s2, i1, i2, i3, p1, p2, k1, k2, k3

MCOrderOf == s1 :> o1 @@ s2 :> o2
MCSellerOrderOf == i1 :> s1 @@ i2 :> s1 @@ i3 :> s2
MCProductOf == i1 :> p1 @@ i2 :> p2 @@ i3 :> p1
MCQuantityOf == i1 :> 2 @@ i2 :> 1 @@ i3 :> 1
MCUnitPriceOf == i1 :> 3 @@ i2 :> 2 @@ i3 :> 3
MCCommissionRateOf == s1 :> 1000 @@ s2 :> 2000
MCSubtotal == s1 :> 8 @@ s2 :> 3
MCInitialStock == p1 :> 2 @@ p2 :> 1

\* Keys are only compared for equality.
KeySymmetry == Permutations(Keys)
=============================================================================
