---------------------------- MODULE MCAggregate ----------------------------
(* Fulfilment for TLC: one order of three sellers, whose status            *)
(* transitions, cancellations and recomputations of the parent interleave  *)
(* with the jobs that start them.  Refunds touch neither the status nor    *)
(* the parent and are left out here (no refund key); MCSettlement has      *)
(* them.                                                                   *)
EXTENDS Fulfilment, TLC

CONSTANTS o1, s1, s2, s3, i1, i2, i3, p1, p2, p3

MCOrderOf == [so \in SellerOrderIds |-> o1]
MCSellerOrderOf ==
    [i \in Items |-> CASE i = i1 -> s1 [] i = i2 -> s2 [] OTHER -> s3]
MCProductOf ==
    [i \in Items |-> CASE i = i1 -> p1 [] i = i2 -> p2 [] OTHER -> p3]
MCQuantityOf == [i \in Items |-> 1]
MCUnitPriceOf == [i \in Items |-> 10]
MCCommissionRateOf == [so \in SellerOrderIds |-> 1000]
MCSubtotal == [so \in SellerOrderIds |-> 10]
MCInitialStock == [p \in Products |-> 1]
=============================================================================
