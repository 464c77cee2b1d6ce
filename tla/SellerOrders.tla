---------------------------- MODULE SellerOrders ----------------------------
(***************************************************************************)
(* The life of a SellerOrder after checkout committed it: the status       *)
(* transitions and the cancellation of SellerOrderLifecycleService, the    *)
(* partial refunds of RefundsService, the asynchronous start of processing *)
(* by SellerOrderProcessingProcessor, and what each of them does to the    *)
(* parent Order's aggregate status, the seller ledger and product stock.   *)
(*                                                                         *)
(* Every operation is a READ COMMITTED transaction that first takes        *)
(* SELECT ... FOR UPDATE on its SellerOrder row.  A transaction that       *)
(* touches nothing but rows guarded by that lock (a refund, the start of   *)
(* processing) is one step taken while the row is unlocked.  A transaction *)
(* that recomputes the parent reads its siblings and the Order without a   *)
(* lock, so it is a step for the lock, one for each of these reads and one *)
(* for the commit, and those of two siblings interleave.  Its writes       *)
(* become visible at the commit, and it may roll back before (a crash, a   *)
(* lost connection, a database error).                                     *)
(***************************************************************************)
EXTENDS Money, FiniteSetsExt

CONSTANTS
    Orders,             \* parent orders
    SellerOrderIds,     \* the per-seller slices of all of them
    Items,              \* purchased lines (SellerOrderItem rows)
    Products,           \* the catalogue rows the lines were bought from
    Keys,               \* refund idempotency keys
    OrderOf,            \* SellerOrder.orderId
    SellerOrderOf,      \* SellerOrderItem.sellerOrderId
    ProductOf,          \* SellerOrderItem.productId
    QuantityOf,         \* SellerOrderItem.quantity
    UnitPriceOf,        \* SellerOrderItem.unitPrice, in cents
    CommissionRateOf,   \* the seller's rate at checkout, hundredths of a percent
    Subtotal,           \* SellerOrder.subtotal, in cents
    InitialStock,       \* Product.stockQuantity before any order
    Deletable           \* the products whose seller may delete them (a bound)

ItemsOf(so) == {i \in Items : SellerOrderOf[i] = so}
SellerOrdersOf(o) == {so \in SellerOrderIds : OrderOf[so] = o}

ASSUME ShapeAssumption ==
    /\ OrderOf \in [SellerOrderIds -> Orders]
    /\ SellerOrderOf \in [Items -> SellerOrderIds]
    /\ ProductOf \in [Items -> Products]
    /\ QuantityOf \in [Items -> Nat \ {0}]
    /\ UnitPriceOf \in [Items -> Nat]
    /\ CommissionRateOf \in [SellerOrderIds -> Nat]
    /\ \A so \in SellerOrderIds : CommissionRateOf[so] <= 10000
    /\ Subtotal \in [SellerOrderIds -> Nat]
    /\ InitialStock \in [Products -> Nat]
    /\ Deletable \subseteq Products

\* Checkout creates a SellerOrder per seller of a cart with something in it, a
\* cart has one line per product (unique index on cartId, productId), and the
\* subtotal is the sum of the lines.
ASSUME CheckoutAssumption ==
    /\ \A o \in Orders : SellerOrdersOf(o) # {}
    /\ \A so \in SellerOrderIds : ItemsOf(so) # {}
    /\ \A i, j \in Items :
          /\ OrderOf[SellerOrderOf[i]] = OrderOf[SellerOrderOf[j]]
          /\ ProductOf[i] = ProductOf[j]
          => i = j
    /\ \A so \in SellerOrderIds :
          Subtotal[so] = SumFunction([i \in ItemsOf(so) |-> UnitPriceOf[i] * QuantityOf[i]])

\* A line has a uuid, of which there are finitely many.
ASSUME FiniteAssumption == IsFiniteSet(Items)

SellerOrderStatus == {"AWAITING_FULFILLMENT", "PROCESSING", "SHIPPED",
                      "DELIVERED", "CANCELLED", "REFUNDED"}
OrderStatus == {"NEW", "PROCESSING", "PARTIALLY_SHIPPED", "SHIPPED",
                "PARTIALLY_COMPLETED", "COMPLETED", "PARTIALLY_CANCELLED",
                "CANCELLED"}
LedgerEntryType == {"SALE_CREDIT", "COMMISSION_DEBIT",
                    "SELLER_EARNING_REVERSAL", "PLATFORM_COMMISSION_REVERSAL"}
\* The row does not exist (yet).
Absent == "Absent"
NoRefund == [quantity |-> 0]
NoTransaction == [phase |-> "none"]

VARIABLES
    status,       \* committed SellerOrder.status, Absent before checkout
    orderStatus,  \* committed Order.status, Absent before checkout
    refunds,      \* COMPLETED Refund rows by (sellerOrderId, idempotencyKey)
    ledger,       \* the sum of a SellerOrder's LedgerEntry rows of each type
    stock,        \* Product.stockQuantity
    live,         \* the products not deleted
    transaction   \* the transaction that holds a SellerOrder's row lock

vars == <<status, orderStatus, refunds, ledger, stock, live, transaction>>

Refund == [item : Items, quantity : Nat \ {0}, amount : Nat,
           commissionAdjustment : Nat]

\* phase: the row is locked; the siblings were read and `derived` computed;
\* the Order was read and `differs` says whether it has another status.
Transaction ==
    [phase : {"locked", "derived", "compared"}, to : SellerOrderStatus,
     derived : OrderStatus, differs : BOOLEAN]

TypeOK ==
    /\ status \in [SellerOrderIds -> SellerOrderStatus \cup {Absent}]
    /\ orderStatus \in [Orders -> OrderStatus \cup {Absent}]
    /\ refunds \in [SellerOrderIds -> [Keys -> Refund \cup {NoRefund}]]
    /\ ledger \in [SellerOrderIds -> [LedgerEntryType -> Nat]]
    /\ stock \in [Products -> Nat]
    /\ live \subseteq Products
    /\ transaction \in [SellerOrderIds -> Transaction \cup {NoTransaction}]

Commission(so) == ApplyPercent(Subtotal[so], CommissionRateOf[so])

Init ==
    /\ status = [so \in SellerOrderIds |-> Absent]
    /\ orderStatus = [o \in Orders |-> Absent]
    /\ refunds = [so \in SellerOrderIds |-> [k \in Keys |-> NoRefund]]
    /\ ledger = [so \in SellerOrderIds |-> [t \in LedgerEntryType |-> 0]]
    /\ stock = InitialStock
    /\ live = Products
    /\ transaction = [so \in SellerOrderIds |-> NoTransaction]

-----------------------------------------------------------------------------
(* The status policy and the derivation of the parent's status.            *)

ForwardTransitions ==
    [s \in SellerOrderStatus |->
        CASE s = "AWAITING_FULFILLMENT" -> {"PROCESSING"}
          [] s = "PROCESSING"           -> {"SHIPPED"}
          [] s = "SHIPPED"              -> {"DELIVERED"}
          [] OTHER                      -> {}]

\* Mutant: a shipped seller order may still be cancelled.
CancellableFrom_Shipped == {"AWAITING_FULFILLMENT", "PROCESSING", "SHIPPED"}

CancellableFrom == {"AWAITING_FULFILLMENT", "PROCESSING"}

\* Mutant: assertRefundable forgets the cancelled ones.
RefundableFrom_Cancelled == {"PROCESSING", "SHIPPED", "DELIVERED", "CANCELLED"}

RefundableFrom == {"PROCESSING", "SHIPPED", "DELIVERED"}

\* rankOf(status) = 3: REFUNDED counts as complete although nothing sets it.
Rank3 == {"DELIVERED", "REFUNDED"}

\* Mutant: the most advanced seller order alone completes the parent.
DeriveParentOrderStatus_MaxOnly(statuses) ==
    IF statuses = {}                     THEN "NEW"
    ELSE IF statuses = {"CANCELLED"}     THEN "CANCELLED"
    ELSE IF "CANCELLED" \in statuses     THEN "PARTIALLY_CANCELLED"
    ELSE IF statuses \cap Rank3 # {}     THEN "COMPLETED"
    ELSE IF "SHIPPED" \in statuses       THEN "PARTIALLY_SHIPPED"
    ELSE IF "PROCESSING" \in statuses    THEN "PROCESSING"
    ELSE "NEW"

\* The statuses are passed as a set: only which of them occur matters (min = 3
\* is "all of rank 3", max = 2 is "none of rank 3 and some SHIPPED").
DeriveParentOrderStatus(statuses) ==
    IF statuses = {}                     THEN "NEW"
    ELSE IF statuses = {"CANCELLED"}     THEN "CANCELLED"
    ELSE IF "CANCELLED" \in statuses     THEN "PARTIALLY_CANCELLED"
    ELSE IF statuses \subseteq Rank3     THEN "COMPLETED"
    ELSE IF statuses \cap Rank3 # {}     THEN "PARTIALLY_COMPLETED"
    ELSE IF statuses = {"SHIPPED"}       THEN "SHIPPED"
    ELSE IF "SHIPPED" \in statuses       THEN "PARTIALLY_SHIPPED"
    ELSE IF "PROCESSING" \in statuses    THEN "PROCESSING"
    ELSE "NEW"

-----------------------------------------------------------------------------
(* Stock and ledger updates.                                               *)

\* The units of p in items of one order, which has at most one line of p.
Units(items, p) ==
    IF \E i \in items : ProductOf[i] = p
    THEN QuantityOf[CHOOSE i \in items : ProductOf[i] = p]
    ELSE 0

\* Mutant: the guard of the decrement copied to the restoration.
RestoreProductStock_Guarded(quantity) ==
    stock' = [p \in Products |->
                 IF p \in live /\ stock[p] >= quantity[p]
                 THEN stock[p] + quantity[p] ELSE stock[p]]

\* `stockQuantity + qty`; the row of a deleted product is not there to update.
RestoreProductStock(quantity) ==
    stock' = [p \in Products |->
                 IF p \in live THEN stock[p] + quantity[p] ELSE stock[p]]

ReverseInLedger(so, earning, commission) ==
    ledger' = [ledger EXCEPT
        ![so]["SELLER_EARNING_REVERSAL"] = @ + earning,
        ![so]["PLATFORM_COMMISSION_REVERSAL"] = @ + commission]

-----------------------------------------------------------------------------
(* Operations.                                                             *)

\* The guarded UPDATE of each line finds its row.
InStock(lines) ==
    \A i \in lines : /\ ProductOf[i] \in live
                     /\ stock[ProductOf[i]] >= QuantityOf[i]

\* The committed effect of a checkout: the order, its seller orders, their
\* sale credit and commission debit, and the guarded stock decrements, all
\* or none of them.
PlaceOrder(o) ==
    LET lines == {i \in Items : OrderOf[SellerOrderOf[i]] = o}
    IN  /\ orderStatus[o] = Absent
        /\ InStock(lines)
        /\ orderStatus' = [orderStatus EXCEPT ![o] = "NEW"]
        /\ status' = [so \in SellerOrderIds |->
                         IF OrderOf[so] = o THEN "AWAITING_FULFILLMENT"
                                            ELSE status[so]]
        /\ ledger' = [so \in SellerOrderIds |->
                         IF OrderOf[so] = o
                         THEN [ledger[so] EXCEPT
                                 !["SALE_CREDIT"] = Subtotal[so],
                                 !["COMMISSION_DEBIT"] = Commission(so)]
                         ELSE ledger[so]]
        /\ stock' = [p \in Products |-> stock[p] - Units(lines, p)]
        /\ UNCHANGED <<refunds, live, transaction>>

\* The consumer of SELLER_ORDER_CREATED.  A duplicate delivery finds another
\* status and does nothing.  The parent is not recomputed.
StartProcessing(so) ==
    /\ transaction[so] = NoTransaction
    /\ status[so] = "AWAITING_FULFILLMENT"
    /\ status' = [status EXCEPT ![so] = "PROCESSING"]
    /\ UNCHANGED <<orderStatus, refunds, ledger, stock, live, transaction>>

\* Takes the row lock and passes the transition check of the operation that
\* brings the row to `to`; a request that fails the check changes nothing.
Lock(so, to) ==
    /\ transaction[so] = NoTransaction
    /\ status[so] # Absent
    /\ transaction' = [transaction EXCEPT ![so] =
          [phase |-> "locked", to |-> to, derived |-> "NEW", differs |-> FALSE]]
    /\ UNCHANGED <<status, orderStatus, refunds, ledger, stock, live>>

UpdateStatus(so, target) ==
    /\ status[so] \in SellerOrderStatus
    /\ target \in ForwardTransitions[status[so]]
    /\ Lock(so, target)

Cancel(so) ==
    /\ status[so] \in CancellableFrom
    /\ Lock(so, "CANCELLED")

\* recomputeParentOrderStatus, first read: the committed statuses of the
\* siblings and this transaction's own, still uncommitted one.
ReadSiblings(so) ==
    LET seen == {IF s = so THEN transaction[so].to ELSE status[s] :
                    s \in SellerOrdersOf(OrderOf[so])}
    IN  /\ transaction[so].phase = "locked"
        /\ transaction' = [transaction EXCEPT
              ![so].phase = "derived",
              ![so].derived = DeriveParentOrderStatus(seen)]
        /\ UNCHANGED <<status, orderStatus, refunds, ledger, stock, live>>

\* Second read: the Order row as committed now.
ReadParent(so) ==
    /\ transaction[so].phase = "derived"
    /\ transaction' = [transaction EXCEPT
          ![so].phase = "compared",
          ![so].differs = orderStatus[OrderOf[so]] # transaction[so].derived]
    /\ UNCHANGED <<status, orderStatus, refunds, ledger, stock, live>>

\* The commit makes the new status, the parent's status if it differed, and
\* for a cancellation the restored stock and the full reversal, visible.
Commit(so) ==
    LET t == transaction[so]
    IN  /\ t.phase = "compared"
        /\ status' = [status EXCEPT ![so] = t.to]
        /\ orderStatus' = [orderStatus EXCEPT
              ![OrderOf[so]] = IF t.differs THEN t.derived ELSE @]
        /\ IF t.to = "CANCELLED"
           THEN /\ RestoreProductStock([p \in Products |-> Units(ItemsOf(so), p)])
                /\ ReverseInLedger(so, Subtotal[so], Commission(so))
           ELSE UNCHANGED <<ledger, stock>>
        /\ transaction' = [transaction EXCEPT ![so] = NoTransaction]
        /\ UNCHANGED <<refunds, live>>

Rollback(so) ==
    /\ transaction[so] # NoTransaction
    /\ transaction' = [transaction EXCEPT ![so] = NoTransaction]
    /\ UNCHANGED <<status, orderStatus, refunds, ledger, stock, live>>

-----------------------------------------------------------------------------
(* Refunds.                                                                *)

RefundRows(so) == {k \in Keys : refunds[so][k] # NoRefund}

\* Mutant: counts the refunds of the item instead of their units.
AlreadyRefundedQuantity_Rows(i) ==
    LET so == SellerOrderOf[i]
    IN  Cardinality({k \in RefundRows(so) : refunds[so][k].item = i})

AlreadyRefundedQuantity(i) ==
    LET so == SellerOrderOf[i]
    IN  SumFunction([k \in {r \in RefundRows(so) : refunds[so][r].item = i} |->
                        refunds[so][k].quantity])

\* Mutant: no unique index on (sellerOrderId, idempotencyKey).
RefundAnswer_NoIndex(so, k, i, q) ==
    IF \/ status[so] \notin RefundableFrom
       \/ q > QuantityOf[i] - AlreadyRefundedQuantity(i)
    THEN "conflict" ELSE "created"

\* What a request with key k for q units of item i of so is answered.  The
\* checks come before the insert whose unique index recognises a retry.
RefundAnswer(so, k, i, q) ==
    IF \/ status[so] \notin RefundableFrom
       \/ q > QuantityOf[i] - AlreadyRefundedQuantity(i)
    THEN "conflict"
    ELSE IF k \in RefundRows(so) THEN "replayed" ELSE "created"

\* The gross is the purchase snapshot's price, the commission correction the
\* stored commission/subtotal ratio of it.
RefundOf(so, i, q) ==
    LET gross == MultiplyCentsByQuantity(UnitPriceOf[i], q)
    IN  [item |-> i, quantity |-> q, amount |-> gross,
         commissionAdjustment |-> ApplyRatio(gross, Commission(so), Subtotal[so])]

CreateRefund(so, k, i, q) ==
    LET refund == RefundOf(so, i, q)
    IN  /\ transaction[so] = NoTransaction
        /\ RefundAnswer(so, k, i, q) = "created"
        /\ refunds' = [refunds EXCEPT ![so][k] = refund]
        /\ ReverseInLedger(so, refund.amount, refund.commissionAdjustment)
        /\ RestoreProductStock([p \in Products |->
                                   IF p = ProductOf[i] THEN q ELSE 0])
        /\ UNCHANGED <<status, orderStatus, live, transaction>>

\* ProductsService.deleteOwned removes the row; the items bought from it lose
\* their productId (ON DELETE SET NULL).
DeleteProduct(p) ==
    /\ p \in live
    /\ live' = live \ {p}
    /\ UNCHANGED <<status, orderStatus, refunds, ledger, stock, transaction>>

-----------------------------------------------------------------------------
TransactionStep(so) == ReadSiblings(so) \/ ReadParent(so) \/ Commit(so)

\* What a customer, a seller or an administrator asks for, and how it goes on.
Request(so) ==
    \/ \E target \in SellerOrderStatus : UpdateStatus(so, target)
    \/ Cancel(so)
    \/ TransactionStep(so)
    \/ Rollback(so)
    \/ \E k \in Keys, i \in ItemsOf(so) :
          \E q \in 1..QuantityOf[i] : CreateRefund(so, k, i, q)

Next ==
    \/ \E o \in Orders : PlaceOrder(o)
    \/ \E so \in SellerOrderIds : StartProcessing(so) \/ Request(so)
    \/ \E p \in Deletable : DeleteProduct(p)

Spec == Init /\ [][Next]_vars

-----------------------------------------------------------------------------
(* Properties.                                                             *)

NotAwaiting == SellerOrderStatus \ {"AWAITING_FULFILLMENT"}
HandedOver == {"SHIPPED", "DELIVERED", "REFUNDED"}

\* What each aggregate status tells the customer: one of the seller orders is
\* in SomeIn[status], and all of them are in AllIn[status].
SomeIn == [s \in OrderStatus |->
    CASE s = "PROCESSING" -> NotAwaiting
      [] s = "PARTIALLY_SHIPPED" -> HandedOver
      [] s = "PARTIALLY_COMPLETED" -> Rank3
      [] s = "PARTIALLY_CANCELLED" -> {"CANCELLED"}
      [] OTHER -> SellerOrderStatus]
AllIn == [s \in OrderStatus |->
    CASE s = "SHIPPED" -> HandedOver
      [] s = "COMPLETED" -> Rank3
      [] s = "CANCELLED" -> {"CANCELLED"}
      [] OTHER -> SellerOrderStatus]

Supported(claim, statusOf, sellerOrders) ==
    /\ \E so \in sellerOrders : statusOf[so] \in SomeIn[claim]
    /\ \A so \in sellerOrders : statusOf[so] \in AllIn[claim]

\* The parent never claims more than its seller orders have reached, however
\* the recomputations of concurrent transactions interleave: an order shown
\* SHIPPED has nothing left to hand over, one shown COMPLETED or CANCELLED is
\* so throughout (recomputeParentOrderStatus reads its siblings unlocked).
OrderClaimsSupported ==
    \A o \in Orders :
        orderStatus[o] # Absent =>
            Supported(orderStatus[o], status, SellerOrdersOf(o))

\* A parent that reached COMPLETED or CANCELLED keeps it: no transaction that
\* read its siblings earlier overwrites it later.
SettledOrderIsFinal ==
    [][\A o \in Orders :
          orderStatus[o] \in {"COMPLETED", "CANCELLED"} =>
              orderStatus'[o] = orderStatus[o]]_vars

\* After the cancellation committed, nothing moves the seller order's money
\* or its status again: neither a second cancel, nor a refund or a status
\* update that was racing it for the row lock.
CancelledIsFinal ==
    [][\A so \in SellerOrderIds :
          status[so] = "CANCELLED" =>
              /\ status'[so] = "CANCELLED"
              /\ ledger'[so] = ledger[so]
              /\ refunds'[so] = refunds[so]]_vars

RefundedAmount(so) ==
    SumFunction([k \in RefundRows(so) |-> refunds[so][k].amount])
RefundedCommission(so) ==
    SumFunction([k \in RefundRows(so) |-> refunds[so][k].commissionAdjustment])

\* Every ledger row is accounted for by the sale, a refund row or the one
\* cancellation: a retried request or a lost race never posts twice, and no
\* committed refund or cancellation lacks its reversal.
LedgerExplained ==
    \A so \in SellerOrderIds :
        LET cancelled == status[so] = "CANCELLED"
            placed == status[so] # Absent
        IN  /\ ledger[so]["SALE_CREDIT"] = IF placed THEN Subtotal[so] ELSE 0
            /\ ledger[so]["COMMISSION_DEBIT"] = IF placed THEN Commission(so) ELSE 0
            /\ ledger[so]["SELLER_EARNING_REVERSAL"] =
                  RefundedAmount(so) + IF cancelled THEN Subtotal[so] ELSE 0
            /\ ledger[so]["PLATFORM_COMMISSION_REVERSAL"] =
                  RefundedCommission(so) + IF cancelled THEN Commission(so) ELSE 0

\* The units of an item that are with the customer, by the code's own books.
UnitsOut(i) ==
    LET so == SellerOrderOf[i]
    IN  IF status[so] = Absent THEN 0
        ELSE QuantityOf[i] - AlreadyRefundedQuantity(i)
               - IF status[so] = "CANCELLED" THEN QuantityOf[i] ELSE 0

\* A product's stock is what checkout left of it plus exactly what refunds and
\* cancellations brought back, each of them once.
StockExplained ==
    \A p \in live :
        stock[p] + SumFunction([i \in {j \in Items : ProductOf[j] = p} |-> UnitsOut(i)])
            = InitialStock[p]

\* A refund row never takes more commission back than was charged, and never
\* more than it gives the customer: the seller's adjustment is not negative.
RefundSplitSound ==
    \A so \in SellerOrderIds : \A k \in RefundRows(so) :
        /\ refunds[so][k].commissionAdjustment <= refunds[so][k].amount
        /\ refunds[so][k].commissionAdjustment <= Commission(so)

\* The refunds of a seller order together give back at most what was paid for
\* each item, and the commission they give back is within half a cent
\* per refund of the exact share (the rounding of applyRatio).
RefundsBounded ==
    /\ RefundSplitSound
    /\ \A so \in SellerOrderIds :
           LET n == Cardinality(RefundRows(so))
               exact == RefundedAmount(so) * Commission(so)
               actual == RefundedCommission(so) * Subtotal[so]
           IN  /\ \A i \in ItemsOf(so) : AlreadyRefundedQuantity(i) <= QuantityOf[i]
               /\ RefundedAmount(so) <= Subtotal[so]
               /\ 2 * (actual - exact) <= n * Subtotal[so]
               /\ 2 * (exact - actual) <= n * Subtotal[so]

-----------------------------------------------------------------------------
(* The inductive invariant behind the properties of the parent's status.   *)

\* Where a status may go: forward, or to CANCELLED while it still may.
Successors(s) ==
    ForwardTransitions[s] \cup (IF s \in CancellableFrom THEN {"CANCELLED"} ELSE {})

\* Checkout commits an order and its seller orders together.
PlacedTogether ==
    \A so \in SellerOrderIds :
        status[so] = Absent <=> orderStatus[OrderOf[so]] = Absent

\* While a transaction holds the row lock its step stays legal; and what it
\* derived from its siblings stays supported, since they only move forward.
TransactionSound ==
    \A so \in SellerOrderIds :
        transaction[so] # NoTransaction =>
            /\ status[so] # Absent
            /\ transaction[so].to \in Successors(status[so])
            /\ transaction[so].phase # "locked" =>
                  Supported(transaction[so].derived,
                            [status EXCEPT ![so] = transaction[so].to],
                            SellerOrdersOf(OrderOf[so]))

AggregateInv == PlacedTogether /\ TransactionSound /\ OrderClaimsSupported

-----------------------------------------------------------------------------
(* What the documentation says and the code does not do.                   *)

\* deriveSellerOrderFinancialSummary: a cancelled seller order is reversed in
\* full by definition, another one by its refunds.
SummaryRefundedAmount(so) ==
    IF status[so] = "CANCELLED" THEN Subtotal[so] ELSE RefundedAmount(so)

\* README.md:486 "SALE_CREDIT - SELLER_EARNING_REVERSAL ... always reconcile to
\* the current effective figures".
LedgerReconciles ==
    \A so \in SellerOrderIds :
        status[so] # Absent =>
            ledger[so]["SALE_CREDIT"] - ledger[so]["SELLER_EARNING_REVERSAL"]
                = Subtotal[so] - SummaryRefundedAmount(so)
=============================================================================
