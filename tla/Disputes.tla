------------------------------ MODULE Disputes ------------------------------
(***************************************************************************)
(* Disputes: what becomes of a seller order after it was shipped. The      *)
(* customer opens a dispute, the seller answers it, and administrators     *)
(* decide it, with a refund in the same transaction or without one, while  *)
(* refunds are also made directly (DisputesService, RefundsService, and    *)
(* the administrators' pages).                                             *)
(*                                                                         *)
(* A resolution first locks the dispute and then, when it refunds, the     *)
(* seller order: its two steps. The other transactions lock one row before *)
(* they read anything and are single steps. A seller order has one item;   *)
(* its amounts are those of SellerOrders.                                  *)
(***************************************************************************)
EXTENDS Naturals, FiniteSets, FiniteSetsExt

CONSTANTS
    Parcels,        \* seller orders
    Ordered,        \* units of the item of a seller order
    DisputeIds,     \* ids of disputes (a bound on how many are opened)
    Admins,         \* administrators, each with the page of disputes open
    RefundKeys,     \* idempotency keys
    Null            \* no dispute, no key, no outcome

VARIABLES
    parcel,         \* the status of the seller orders
    dispute,        \* the Dispute rows
    holder,         \* the resolution that holds the lock of a dispute's row
    refunds,        \* the Refund rows
    resolvedEvents, \* the DISPUTE_RESOLVED events recorded in the outbox
    request         \* the resolution an administrator has asked for

disputesVars ==
    <<parcel, dispute, holder, refunds, resolvedEvents, request>>

DisputeStatus == {"OPEN", "UNDER_REVIEW", "RESOLVED_CUSTOMER", "RESOLVED_SELLER", "CLOSED"}
ACTIVE_STATUSES == {"OPEN", "UNDER_REVIEW"}
ELIGIBLE_STATUSES == {"SHIPPED", "DELIVERED"}
Outcomes == {"CUSTOMER", "SELLER"}

\* A resolution with units = 0 has no refund.
Resolutions == [dispute : DisputeIds, outcome : Outcomes,
                units : 0..Ordered, key : RefundKeys \cup {Null}]
NoRequest == [stage |-> "none"]

DisputeRows == [order : Parcels, status : DisputeStatus,
                outcome : Outcomes \cup {Null}, response : BOOLEAN]

ASSUME DisputesShape ==
    /\ Ordered \in Nat
    /\ Null \notin DisputeIds \cup Admins \cup RefundKeys \cup Outcomes \cup DisputeRows

DisputesTypeOK ==
    /\ parcel \in [Parcels -> {"PROCESSING", "SHIPPED", "DELIVERED"}]
    /\ dispute \in [DisputeIds -> {Null} \cup DisputeRows]
    /\ holder \in [DisputeIds -> Admins \cup {Null}]
    /\ \A r \in refunds : r.order \in Parcels /\ r.units \in 1..Ordered
    /\ \A a \in Admins : request[a] = NoRequest \/ request[a].resolution \in Resolutions

DisputesInit ==
    /\ parcel = [o \in Parcels |-> "PROCESSING"]
    /\ dispute = [d \in DisputeIds |-> Null]
    /\ holder = [d \in DisputeIds |-> Null]
    /\ refunds = {}
    /\ resolvedEvents = {}
    /\ request = [a \in Admins |-> NoRequest]

---------------------------------------------------------------------------
(* Seller orders and refunds.                                              *)

\* The seller ships and delivers: a step of SellerOrders.
Progress(o) ==
    /\ \/ parcel[o] = "PROCESSING" /\ parcel' = [parcel EXCEPT ![o] = "SHIPPED"]
       \/ parcel[o] = "SHIPPED" /\ parcel' = [parcel EXCEPT ![o] = "DELIVERED"]
    /\ UNCHANGED <<dispute, holder, refunds, resolvedEvents, request>>

RefundedUnits(o) == MapThenSumSet(LAMBDA r : r.units, {r \in refunds : r.order = o})

KeyUsed(o, key) == \E r \in refunds : r.order = o /\ r.key = key

\* createRefundInTransaction, under the lock of the seller order: it throws
\* when the units are gone or the key was used, and the transaction with it.
Refundable(o, units, key) ==
    /\ units <= Ordered - RefundedUnits(o)
    /\ ~KeyUsed(o, key)

RefundRow(o, units, key, d) == [order |-> o, units |-> units, key |-> key, dispute |-> d]

\* createRefund: the refund that the page of a seller order asks for.
RefundDirectly(o) ==
    \E units \in 1..Ordered, key \in RefundKeys :
        /\ Refundable(o, units, key)
        /\ refunds' = refunds \cup {RefundRow(o, units, key, Null)}
        /\ UNCHANGED <<parcel, dispute, holder, resolvedEvents, request>>

---------------------------------------------------------------------------
(* Disputes.                                                               *)

Exists(d) == dispute[d] # Null

IsActiveDispute(d) == Exists(d) /\ dispute[d].status \in ACTIVE_STATUSES

Unlocked(d) == holder[d] = Null

\* The partial unique index on sellerOrderId.
ActiveIndexAllows(o) == ~\E d \in DisputeIds : IsActiveDispute(d) /\ dispute[d].order = o

OpenDispute(o) ==
    /\ parcel[o] \in ELIGIBLE_STATUSES
    /\ ActiveIndexAllows(o)
    /\ \E d \in DisputeIds :
        /\ ~Exists(d)
        /\ dispute' = [dispute EXCEPT ![d] =
                [order |-> o, status |-> "OPEN", outcome |-> Null, response |-> FALSE]]
    /\ UNCHANGED <<parcel, holder, refunds, resolvedEvents, request>>

SellerRespond(d) ==
    /\ IsActiveDispute(d)
    /\ Unlocked(d)
    /\ dispute' = [dispute EXCEPT ![d].response = TRUE]
    /\ UNCHANGED <<parcel, holder, refunds, resolvedEvents, request>>

ALLOWED ==
    [OPEN |-> {"UNDER_REVIEW", "RESOLVED_CUSTOMER", "RESOLVED_SELLER", "CLOSED"},
     UNDER_REVIEW |-> {"RESOLVED_CUSTOMER", "RESOLVED_SELLER", "CLOSED"},
     RESOLVED_CUSTOMER |-> {"CLOSED"},
     RESOLVED_SELLER |-> {"CLOSED"},
     CLOSED |-> {}]

\* A transition to the same status is allowed.
MayTransition(from, to) == from = to \/ to \in ALLOWED[from]

\* updateStatus: only UNDER_REVIEW and CLOSED; the others need a resolution.
UpdateStatus(d, status) ==
    /\ Exists(d)
    /\ Unlocked(d)
    /\ MayTransition(dispute[d].status, status)
    /\ dispute' = [dispute EXCEPT ![d].status = status]
    /\ UNCHANGED <<parcel, holder, refunds, resolvedEvents, request>>

---------------------------------------------------------------------------
(* Resolutions.                                                            *)

\* A click on a case that the page shows as active. The page may be as old as
\* the case, and its list loads no refunds, so it offers every unit of the item,
\* refunded or not. A key is drawn for every click; a client of the API may use
\* one again.
ClickResolve(a, d) ==
    /\ request[a] = NoRequest
    /\ Exists(d)
    /\ \E outcome \in Outcomes, units \in 0..Ordered, key \in RefundKeys :
        /\ outcome = "SELLER" => units = 0
        /\ request' = [request EXCEPT ![a] =
                [stage |-> "sent",
                 resolution |-> [dispute |-> d, outcome |-> outcome, units |-> units,
                                 key |-> IF units > 0 THEN key ELSE Null]]]
    /\ UNCHANGED <<parcel, dispute, holder, refunds, resolvedEvents>>

Requested(a) == request[a].resolution

LockDispute(a) ==
    /\ request[a].stage = "sent"
    /\ Unlocked(Requested(a).dispute)
    /\ holder' = [holder EXCEPT ![Requested(a).dispute] = a]
    /\ request' = [request EXCEPT ![a].stage = "locked"]
    /\ UNCHANGED <<parcel, dispute, refunds, resolvedEvents>>

\* The transaction ends. Its answer arrives or is lost: the administrator may
\* click again either way.
Release(a) ==
    /\ holder' = [holder EXCEPT ![Requested(a).dispute] = Null]
    /\ request' = [request EXCEPT ![a] = NoRequest]

\* Mutant: the early return is left to the transition policy.
AlreadyDecided_LeftToPolicy(d) == dispute[d].status = "CLOSED"

\* A dispute that was decided meanwhile is returned as it is.
AlreadyDecided(d) == dispute[d].status \in {"RESOLVED_CUSTOMER", "RESOLVED_SELLER", "CLOSED"}

ReturnDecided(a) ==
    /\ request[a].stage = "locked"
    /\ AlreadyDecided(Requested(a).dispute)
    /\ Release(a)
    /\ UNCHANGED <<parcel, dispute, refunds, resolvedEvents>>

Target(outcome) == IF outcome = "CUSTOMER" THEN "RESOLVED_CUSTOMER" ELSE "RESOLVED_SELLER"

Decide(d, r) ==
    /\ MayTransition(dispute[d].status, Target(r.outcome))
    /\ dispute' = [dispute EXCEPT ![d].status = Target(r.outcome), ![d].outcome = r.outcome]
    /\ resolvedEvents' = resolvedEvents \cup
            {[dispute |-> d, outcome |-> r.outcome, refund |-> r.key, units |-> r.units]}

\* The refund and the resolution are one transaction.
Resolve(a) ==
    LET r == Requested(a)
        d == r.dispute
        o == dispute[d].order
    IN  /\ request[a].stage = "locked"
        /\ ~AlreadyDecided(d)
        /\ r.units > 0 => Refundable(o, r.units, r.key)
        /\ Decide(d, r)
        /\ refunds' = IF r.units = 0 THEN refunds
                      ELSE refunds \cup {RefundRow(o, r.units, r.key, d)}
        /\ Release(a)
        /\ UNCHANGED <<parcel>>

\* The refund throws: everything is rolled back.
RefuseResolution(a) ==
    LET r == Requested(a)
    IN  /\ request[a].stage = "locked"
        /\ ~AlreadyDecided(r.dispute)
        /\ r.units > 0
        /\ ~Refundable(dispute[r.dispute].order, r.units, r.key)
        /\ Release(a)
        /\ UNCHANGED <<parcel, dispute, refunds, resolvedEvents>>

\* The request is lost before it is served.
LoseResolution(a) ==
    /\ request[a].stage = "sent"
    /\ request' = [request EXCEPT ![a] = NoRequest]
    /\ UNCHANGED <<parcel, dispute, holder, refunds, resolvedEvents>>

DisputesNext ==
    \/ \E o \in Parcels : Progress(o) \/ RefundDirectly(o) \/ OpenDispute(o)
    \/ \E d \in DisputeIds :
        SellerRespond(d) \/ UpdateStatus(d, "UNDER_REVIEW") \/ UpdateStatus(d, "CLOSED")
    \/ \E a \in Admins :
        \/ LockDispute(a) \/ ReturnDecided(a) \/ Resolve(a)
        \/ RefuseResolution(a) \/ LoseResolution(a)
        \/ \E d \in DisputeIds : ClickResolve(a, d)

DisputesSpec == DisputesInit /\ [][DisputesNext]_disputesVars

---------------------------------------------------------------------------
(* Properties.                                                             *)

RefundsOf(d) == {r \in refunds : r.dispute = d}

\* A dispute is decided once, and its refund is the one it was decided with:
\* administrators who decide it at the same time, or again after an answer was
\* lost, under new keys or old ones, record one event, and the refund the event
\* names was made for this dispute, of these units. A dispute that was not
\* decided for the customer has no refund.
DecidedOnce ==
    \A d \in DisputeIds :
        LET events == {e \in resolvedEvents : e.dispute = d}
        IN  /\ Cardinality(events) = IF Exists(d) /\ dispute[d].outcome # Null THEN 1 ELSE 0
            /\ \A e \in events :
                /\ e.outcome = dispute[d].outcome
                /\ {<<r.key, r.units>> : r \in RefundsOf(d)}
                        = IF e.units = 0 THEN {} ELSE {<<e.refund, e.units>>}
            /\ events = {} => RefundsOf(d) = {}

=============================================================================
