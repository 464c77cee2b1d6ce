-------------------------- MODULE SellerOrdersProofs --------------------------
(***************************************************************************)
(* Theorems about SellerOrders and Fulfilment, for any number of orders,   *)
(* sellers, items, products, refund keys and attempts of a job.            *)
(***************************************************************************)
EXTENDS Fulfilment, MoneyProofs

-----------------------------------------------------------------------------
(* The derivation of the parent's status.                                  *)

\* Every status that can follow a claimed one still supports the claim.
LEMMA ClaimsClosed ==
    ASSUME NEW c \in OrderStatus, NEW s \in SellerOrderStatus,
           NEW t \in Successors(s)
    PROVE  /\ t \in SellerOrderStatus
           /\ s \in SomeIn[c] => t \in SomeIn[c]
           /\ s \in AllIn[c] => t \in AllIn[c]
  BY DEF OrderStatus, SellerOrderStatus, Successors, ForwardTransitions,
         CancellableFrom, SomeIn, AllIn, NotAwaiting, HandedOver, Rank3

\* A settled status has no successor.
LEMMA SettledHasNoSuccessor ==
    ASSUME NEW s \in Rank3 \cup {"CANCELLED"}
    PROVE  Successors(s) = {}
  BY DEF Rank3, Successors, ForwardTransitions, CancellableFrom, SellerOrderStatus

\* deriveParentOrderStatus claims no more than the statuses it is given.
LEMMA DerivedIsSupported ==
    ASSUME NEW statuses \in SUBSET SellerOrderStatus, statuses # {}
    PROVE  LET d == DeriveParentOrderStatus(statuses)
           IN  /\ d \in OrderStatus
               /\ \E s \in statuses : s \in SomeIn[d]
               /\ \A s \in statuses : s \in AllIn[d]
  BY DEF DeriveParentOrderStatus, OrderStatus, SellerOrderStatus, SomeIn, AllIn,
         NotAwaiting, HandedOver, Rank3

\* Whatever it is given, it returns a status of the enum.
LEMMA DerivedIsStatus ==
    ASSUME NEW statuses
    PROVE  DeriveParentOrderStatus(statuses) \in OrderStatus
  BY DEF DeriveParentOrderStatus, OrderStatus

\* A claim survives any legal moves of the seller orders.
LEMMA SupportedIsStable ==
    ASSUME NEW c \in OrderStatus, NEW S \in SUBSET SellerOrderIds,
           NEW f, NEW g, Supported(c, f, S),
           \A so \in S : /\ f[so] \in SellerOrderStatus
                         /\ g[so] = f[so] \/ g[so] \in Successors(f[so])
    PROVE  Supported(c, g, S)
<1>1. PICK so \in S : f[so] \in SomeIn[c]
  BY DEF Supported
<1>2. g[so] \in SomeIn[c]
  BY <1>1, ClaimsClosed
<1>3. ASSUME NEW s \in S PROVE g[s] \in AllIn[c]
  <2>1. f[s] \in AllIn[c]
    BY DEF Supported
  <2>. QED
    BY <2>1, ClaimsClosed
<1>. QED
  BY <1>2, <1>3 DEF Supported

-----------------------------------------------------------------------------
(* Types.                                                                  *)

LEMMA CommissionBounds ==
    ASSUME NEW so \in SellerOrderIds
    PROVE  Commission(so) \in Nat /\ Commission(so) <= Subtotal[so]
<1>1. PICK cents \in Nat : cents = Subtotal[so]
  BY ShapeAssumption
<1>2. PICK percent \in Nat : percent = CommissionRateOf[so]
  BY ShapeAssumption
<1>3. percent <= 10000
  BY <1>2, ShapeAssumption
<1>4. ApplyPercent(cents, percent) \in Nat /\ ApplyPercent(cents, percent) <= cents
  BY <1>3, ApplyPercentBounds
<1>5. Commission(so) = ApplyPercent(cents, percent)
  BY <1>1, <1>2 DEF Commission
<1>. QED
  BY <1>1, <1>4, <1>5

\* The lines of a seller order: each of them is at most the subtotal.
LEMMA LineWithinSubtotal ==
    ASSUME NEW i \in Items
    PROVE  UnitPriceOf[i] * QuantityOf[i] <= Subtotal[SellerOrderOf[i]]
<1> DEFINE so == SellerOrderOf[i]
           f == [j \in ItemsOf(so) |-> UnitPriceOf[j] * QuantityOf[j]]
<1>1. i \in ItemsOf(so) /\ IsFiniteSet(ItemsOf(so))
  BY FiniteAssumption, FS_Subset DEF ItemsOf
<1>2. \A j \in ItemsOf(so) : f[j] \in Nat
  <2> SUFFICES ASSUME NEW j \in ItemsOf(so) PROVE UnitPriceOf[j] * QuantityOf[j] \in Nat
    OBVIOUS
  <2>1. UnitPriceOf[j] \in Nat /\ QuantityOf[j] \in Nat
    BY ShapeAssumption DEF ItemsOf
  <2>. QED
    BY <2>1, SMT
<1>3. f[i] <= SumFunction(f)
  BY <1>1, <1>2, TotalAtLeast
<1>4. Subtotal[so] = SumFunction(f)
  BY CheckoutAssumption, ShapeAssumption
<1>. QED
  BY <1>1, <1>3, <1>4

\* A refund of at most the purchased quantity splits within the subtotal.
LEMMA RefundOfBounds ==
    ASSUME NEW so \in SellerOrderIds, NEW i \in ItemsOf(so),
           NEW q \in 1..QuantityOf[i]
    PROVE  /\ RefundOf(so, i, q) \in Refund
           /\ RefundOf(so, i, q).commissionAdjustment <= RefundOf(so, i, q).amount
           /\ RefundOf(so, i, q).commissionAdjustment <= Commission(so)
<1> DEFINE gross == UnitPriceOf[i] * q
<1>1. /\ i \in Items /\ SellerOrderOf[i] = so
      /\ QuantityOf[i] \in Nat /\ UnitPriceOf[i] \in Nat /\ Subtotal[so] \in Nat
  BY ShapeAssumption DEF ItemsOf
<1>2. gross \in Nat
  BY <1>1, SMT
<1>3. gross <= Subtotal[so]
  <2>1. q * UnitPriceOf[i] <= QuantityOf[i] * UnitPriceOf[i]
    BY <1>1, ProductMonotone
  <2>2. UnitPriceOf[i] * QuantityOf[i] <= Subtotal[so]
    BY <1>1, LineWithinSubtotal
  <2>3. /\ q * UnitPriceOf[i] = gross
        /\ QuantityOf[i] * UnitPriceOf[i] = UnitPriceOf[i] * QuantityOf[i]
        /\ QuantityOf[i] * UnitPriceOf[i] \in Nat
    BY <1>1, SMT
  <2>. QED
    BY <1>1, <1>2, <2>1, <2>2, <2>3
<1> HIDE DEF gross
<1>4. LET a == ApplyRatio(gross, Commission(so), Subtotal[so])
      IN  a \in Nat /\ a <= Commission(so) /\ a <= gross
  BY <1>1, <1>2, <1>3, CommissionBounds, ApplyRatioBounds
<1>5. RefundOf(so, i, q) =
        [item |-> i, quantity |-> q, amount |-> gross,
         commissionAdjustment |-> ApplyRatio(gross, Commission(so), Subtotal[so])]
  BY DEF RefundOf, MultiplyCentsByQuantity, gross
<1>. QED
  BY <1>1, <1>2, <1>4, <1>5 DEF Refund

LEMMA UnitsBounds ==
    ASSUME NEW lines \in SUBSET Items, NEW p \in Products
    PROVE  /\ Units(lines, p) \in Nat
           /\ Units(lines, p) # 0 =>
                \E i \in lines : ProductOf[i] = p /\ Units(lines, p) = QuantityOf[i]
<1>1. CASE \E i \in lines : ProductOf[i] = p
  <2>1. PICK i \in lines : i = CHOOSE j \in lines : ProductOf[j] = p
    BY <1>1
  <2>2. ProductOf[i] = p /\ Units(lines, p) = QuantityOf[i]
    BY <1>1, <2>1 DEF Units
  <2>3. QuantityOf[i] \in Nat
    BY ShapeAssumption
  <2>. QED
    BY <2>2, <2>3
<1>2. CASE ~ \E i \in lines : ProductOf[i] = p
  BY <1>2 DEF Units
<1>. QED
  BY <1>1, <1>2

\* A transaction with a phase is one that holds its row lock.
LEMMA OpenTransaction ==
    ASSUME TypeOK, NEW so \in SellerOrderIds, transaction[so].phase # "none"
    PROVE  transaction[so] \in Transaction
  BY DEF TypeOK, NoTransaction

\* Each step of a transaction that only moves its own bookkeeping.
LEMMA BookkeepingKeepsType ==
    ASSUME TypeOK, NEW so \in SellerOrderIds, NEW t \in Transaction \cup {NoTransaction},
           transaction' = [transaction EXCEPT ![so] = t],
           UNCHANGED <<status, orderStatus, refunds, ledger, stock, live>>
    PROVE  TypeOK'
  BY DEF TypeOK

LEMMA ReverseInLedgerType ==
    ASSUME TypeOK, NEW so \in SellerOrderIds, NEW e \in Nat, NEW c \in Nat,
           ReverseInLedger(so, e, c)
    PROVE  ledger' \in [SellerOrderIds -> [LedgerEntryType -> Nat]]
  BY DEF TypeOK, ReverseInLedger, LedgerEntryType

LEMMA RestoreProductStockType ==
    ASSUME TypeOK, NEW quantity \in [Products -> Nat], RestoreProductStock(quantity)
    PROVE  stock' \in [Products -> Nat]
  BY DEF TypeOK, RestoreProductStock

\* The type invariant, of which the natural-number stock is the part that can
\* fail: checkout's guarded decrement never sells a unit that is not there.
THEOREM TypeCorrect == Spec => []TypeOK
<1>1. Init => TypeOK
  BY ShapeAssumption
     DEF Init, TypeOK, LedgerEntryType, NoRefund, NoTransaction, Absent
<1>2. TypeOK /\ [Next]_vars => TypeOK'
  <2> SUFFICES ASSUME TypeOK, [Next]_vars PROVE TypeOK'
    OBVIOUS
  <2>1. ASSUME NEW o \in Orders, PlaceOrder(o) PROVE TypeOK'
    <3> DEFINE lines == {i \in Items : OrderOf[SellerOrderOf[i]] = o}
    <3>1. lines \in SUBSET Items
      OBVIOUS
    <3>2. stock' \in [Products -> Nat]
      <4>1. ASSUME NEW p \in Products
            PROVE  stock[p] - Units(lines, p) \in Nat
        <5>1. stock[p] \in Nat /\ Units(lines, p) \in Nat
          BY <3>1, UnitsBounds DEF TypeOK
        <5>2. CASE Units(lines, p) = 0
          BY <5>1, <5>2
        <5>3. CASE Units(lines, p) # 0
          <6>1. PICK i \in lines : ProductOf[i] = p /\ Units(lines, p) = QuantityOf[i]
            BY <3>1, <5>3, UnitsBounds
          <6>2. stock[p] >= Units(lines, p)
            BY <2>1, <6>1 DEF PlaceOrder, InStock
          <6>. QED
            BY <5>1, <6>2
        <5>. QED
          BY <5>2, <5>3
      <4>2. stock' = [p \in Products |-> stock[p] - Units(lines, p)]
        BY <2>1 DEF PlaceOrder
      <4>. QED
        BY <4>1, <4>2
    <3>3. ledger' \in [SellerOrderIds -> [LedgerEntryType -> Nat]]
      <4>1. ASSUME NEW so \in SellerOrderIds
            PROVE  [ledger[so] EXCEPT !["SALE_CREDIT"] = Subtotal[so],
                                      !["COMMISSION_DEBIT"] = Commission(so)]
                      \in [LedgerEntryType -> Nat]
        <5>1. Subtotal[so] \in Nat /\ Commission(so) \in Nat
          BY CommissionBounds, ShapeAssumption
        <5>. QED
          BY <5>1 DEF TypeOK
      <4>. QED
        BY <2>1, <4>1 DEF PlaceOrder, TypeOK
    <3>4. /\ orderStatus' \in [Orders -> OrderStatus \cup {Absent}]
          /\ status' \in [SellerOrderIds -> SellerOrderStatus \cup {Absent}]
      BY <2>1 DEF PlaceOrder, TypeOK, OrderStatus, SellerOrderStatus
    <3>5. UNCHANGED <<refunds, live, transaction>>
      BY <2>1 DEF PlaceOrder
    <3>. QED
      BY <3>2, <3>3, <3>4, <3>5 DEF TypeOK
  <2>2. ASSUME NEW so \in SellerOrderIds, StartProcessing(so) PROVE TypeOK'
    BY <2>2 DEF StartProcessing, TypeOK, SellerOrderStatus
  <2>3. ASSUME NEW so \in SellerOrderIds, NEW target \in SellerOrderStatus,
               UpdateStatus(so, target)
        PROVE  TypeOK'
    BY <2>3, BookkeepingKeepsType DEF UpdateStatus, Lock, Transaction, OrderStatus
  <2>4. ASSUME NEW so \in SellerOrderIds, Cancel(so) PROVE TypeOK'
    BY <2>4, BookkeepingKeepsType
       DEF Cancel, Lock, Transaction, OrderStatus, SellerOrderStatus
  <2>5. ASSUME NEW so \in SellerOrderIds, ReadSiblings(so) PROVE TypeOK'
    <3> DEFINE seen == {IF s = so THEN transaction[so].to ELSE status[s] :
                          s \in SellerOrdersOf(OrderOf[so])}
               d == DeriveParentOrderStatus(seen)
    <3>1. d \in OrderStatus
      BY DerivedIsStatus
    <3>2. /\ transaction' = [transaction EXCEPT ![so].phase = "derived",
                                                ![so].derived = d]
          /\ transaction[so].phase = "locked"
          /\ UNCHANGED <<status, orderStatus, refunds, ledger, stock, live>>
      BY <2>5 DEF ReadSiblings
    <3>3. transaction[so] \in Transaction
      BY <3>2, OpenTransaction
    <3> HIDE DEF d
    <3>. QED
      BY <3>1, <3>2, <3>3 DEF TypeOK, Transaction
  <2>6. ASSUME NEW so \in SellerOrderIds, ReadParent(so) PROVE TypeOK'
    <3>1. transaction[so] \in Transaction
      BY <2>6, OpenTransaction DEF ReadParent
    <3> DEFINE b == orderStatus[OrderOf[so]] # transaction[so].derived
    <3>2. /\ transaction' = [transaction EXCEPT ![so].phase = "compared",
                                                ![so].differs = b]
          /\ UNCHANGED <<status, orderStatus, refunds, ledger, stock, live>>
      BY <2>6 DEF ReadParent
    <3>3. b \in BOOLEAN
      OBVIOUS
    <3> HIDE DEF b
    <3>4. [transaction[so] EXCEPT !.phase = "compared", !.differs = b] \in Transaction
      BY <3>1, <3>3 DEF Transaction
    <3>. QED
      BY <3>2, <3>4 DEF TypeOK
  <2>7. ASSUME NEW so \in SellerOrderIds, Commit(so) PROVE TypeOK'
    <3>1. transaction[so] \in Transaction /\ OrderOf[so] \in Orders
      BY <2>7, OpenTransaction, ShapeAssumption DEF Commit
    <3>2. /\ status' \in [SellerOrderIds -> SellerOrderStatus \cup {Absent}]
          /\ orderStatus' \in [Orders -> OrderStatus \cup {Absent}]
      BY <2>7, <3>1 DEF Commit, TypeOK, Transaction
    <3>3. ledger' \in [SellerOrderIds -> [LedgerEntryType -> Nat]]
      <4>1. Subtotal[so] \in Nat /\ Commission(so) \in Nat
        BY CommissionBounds, ShapeAssumption
      <4>. QED
        BY <2>7, <4>1, ReverseInLedgerType DEF Commit, TypeOK
    <3>4. stock' \in [Products -> Nat]
      <4>1. [p \in Products |-> Units(ItemsOf(so), p)] \in [Products -> Nat]
        BY UnitsBounds DEF ItemsOf
      <4>. QED
        BY <2>7, <4>1, RestoreProductStockType DEF Commit, TypeOK
    <3>. QED
      BY <2>7, <3>2, <3>3, <3>4 DEF Commit, TypeOK
  <2>8. ASSUME NEW so \in SellerOrderIds, Rollback(so) PROVE TypeOK'
    BY <2>8, BookkeepingKeepsType DEF Rollback
  <2>9. ASSUME NEW so \in SellerOrderIds, NEW k \in Keys, NEW i \in ItemsOf(so),
               NEW q \in 1..QuantityOf[i], CreateRefund(so, k, i, q)
        PROVE  TypeOK'
    <3>1. i \in Items /\ q \in Nat
      BY ShapeAssumption DEF ItemsOf
    <3>2. RefundOf(so, i, q) \in Refund
      BY RefundOfBounds
    <3>3. refunds' \in [SellerOrderIds -> [Keys -> Refund \cup {NoRefund}]]
      BY <2>9, <3>2 DEF CreateRefund, TypeOK
    <3>4. ledger' \in [SellerOrderIds -> [LedgerEntryType -> Nat]]
      BY <2>9, <3>2, ReverseInLedgerType DEF CreateRefund, Refund
    <3>5. stock' \in [Products -> Nat]
      BY <2>9, <3>1, RestoreProductStockType DEF CreateRefund
    <3>. QED
      BY <2>9, <3>3, <3>4, <3>5 DEF CreateRefund, TypeOK
  <2>10. ASSUME NEW p \in Deletable, DeleteProduct(p) PROVE TypeOK'
    BY <2>10 DEF DeleteProduct, TypeOK
  <2>11. CASE UNCHANGED vars
    BY <2>11 DEF vars, TypeOK
  <2>. QED
    BY <2>1, <2>2, <2>3, <2>4, <2>5, <2>6, <2>7, <2>8, <2>9, <2>10, <2>11
       DEF Next, Request, TransactionStep
<1>. QED
  BY <1>1, <1>2, PTL DEF Spec

-----------------------------------------------------------------------------
(* The parent's status.                                                    *)

\* A row that is locked can still move.
LEMMA LockedCanMove ==
    ASSUME TypeOK, TransactionSound, NEW so \in SellerOrderIds,
           transaction[so] # NoTransaction
    PROVE  /\ status[so] \in SellerOrderStatus
           /\ transaction[so].to \in Successors(status[so])
           /\ status[so] \notin Rank3 \cup {"CANCELLED"}
<1>1. status[so] \in SellerOrderStatus /\ transaction[so].to \in Successors(status[so])
  BY DEF TypeOK, TransactionSound
<1>. QED
  BY <1>1, SettledHasNoSuccessor

\* Every step moves each seller order along a legal transition, creates it, or
\* leaves its status alone.
Moves ==
    \A so \in SellerOrderIds :
        \/ status[so] = Absent
        \/ status'[so] = status[so]
        \/ status[so] \in SellerOrderStatus /\ status'[so] \in Successors(status[so])

\* A step that makes only legal moves keeps what open transactions derived and
\* what the parents claim, as far as it leaves them alone.
LEMMA MovesKeepTransactions ==
    ASSUME TypeOK, AggregateInv, Moves, status' \in [SellerOrderIds -> SellerOrderStatus \cup {Absent}],
           NEW so \in SellerOrderIds,
           transaction[so] # NoTransaction, transaction'[so] = transaction[so],
           status'[so] = status[so]
    PROVE  /\ status'[so] # Absent
           /\ transaction'[so].to \in Successors(status'[so])
           /\ transaction'[so].phase # "locked" =>
                 Supported(transaction'[so].derived,
                           [status' EXCEPT ![so] = transaction'[so].to],
                           SellerOrdersOf(OrderOf[so]))
<1> DEFINE t == transaction[so]
           S == SellerOrdersOf(OrderOf[so])
           f == [status EXCEPT ![so] = t.to]
           g == [status' EXCEPT ![so] = t.to]
<1>1. status[so] # Absent /\ t.to \in Successors(status[so])
  BY DEF AggregateInv, TransactionSound
<1>2. t \in Transaction
  BY DEF TypeOK
<1>3. ASSUME t.phase # "locked" PROVE Supported(t.derived, g, S)
  <2>1. Supported(t.derived, f, S)
    BY <1>3 DEF AggregateInv, TransactionSound
  <2>2. t.derived \in OrderStatus /\ t.to \in SellerOrderStatus /\ S \in SUBSET SellerOrderIds
    BY <1>2 DEF Transaction, SellerOrdersOf
  <2>3. ASSUME NEW s \in S
        PROVE  /\ f[s] \in SellerOrderStatus
               /\ g[s] = f[s] \/ g[s] \in Successors(f[s])
    <3>1. s \in SellerOrderIds /\ OrderOf[s] = OrderOf[so]
      BY DEF SellerOrdersOf
    <3>2. CASE s = so
      BY <2>2, <3>2 DEF TypeOK
    <3>3. CASE s # so
      <4>1. f[s] = status[s] /\ g[s] = status'[s]
        BY <3>1, <3>3 DEF TypeOK
      <4>2. status[s] # Absent
        BY <1>1, <3>1 DEF AggregateInv, PlacedTogether
      <4>. QED
        BY <3>1, <4>1, <4>2 DEF Moves, TypeOK
    <3>. QED
      BY <3>2, <3>3
  <2>. QED
    BY <2>1, <2>2, <2>3, SupportedIsStable
<1>. QED
  BY <1>1, <1>3

LEMMA MovesKeepClaims ==
    ASSUME TypeOK, AggregateInv, Moves, NEW o \in Orders, orderStatus[o] # Absent
    PROVE  Supported(orderStatus[o], status', SellerOrdersOf(o))
<1> DEFINE S == SellerOrdersOf(o)
<1>1. Supported(orderStatus[o], status, S)
  BY DEF AggregateInv, OrderClaimsSupported
<1>2. orderStatus[o] \in OrderStatus /\ S \in SUBSET SellerOrderIds
  BY DEF TypeOK, SellerOrdersOf
<1>3. ASSUME NEW s \in S
      PROVE  /\ status[s] \in SellerOrderStatus
             /\ status'[s] = status[s] \/ status'[s] \in Successors(status[s])
  <2>1. status[s] # Absent
    BY DEF AggregateInv, PlacedTogether, SellerOrdersOf
  <2>. QED
    BY <1>2, <2>1 DEF TypeOK, Moves
<1>. QED
  BY <1>1, <1>2, <1>3, SupportedIsStable

\* A step that changes no status only has to justify the transaction it moves.
LEMMA BookkeepingKeepsAggregate ==
    ASSUME TypeOK, AggregateInv, NEW so \in SellerOrderIds,
           UNCHANGED <<status, orderStatus>>,
           \A s \in SellerOrderIds \ {so} : transaction'[s] = transaction[s],
           transaction'[so] # NoTransaction =>
               /\ status[so] # Absent
               /\ transaction'[so].to \in Successors(status[so])
               /\ transaction'[so].phase # "locked" =>
                     Supported(transaction'[so].derived,
                               [status EXCEPT ![so] = transaction'[so].to],
                               SellerOrdersOf(OrderOf[so]))
    PROVE  AggregateInv'
  BY DEF AggregateInv, PlacedTogether, TransactionSound, OrderClaimsSupported

\* The inductive invariant.
LEMMA AggregateInvariant == Spec => []AggregateInv
<1>1. Init => AggregateInv
  BY ShapeAssumption
     DEF Init, AggregateInv, PlacedTogether, TransactionSound, OrderClaimsSupported
<1>2. TypeOK /\ TypeOK' /\ AggregateInv /\ [Next]_vars => AggregateInv'
  <2> SUFFICES ASSUME TypeOK, TypeOK', AggregateInv, [Next]_vars PROVE AggregateInv'
    OBVIOUS
  <2>1. ASSUME NEW o \in Orders, PlaceOrder(o) PROVE AggregateInv'
    <3>1. \A s \in SellerOrderIds : OrderOf[s] = o => status[s] = Absent
      BY <2>1 DEF PlaceOrder, AggregateInv, PlacedTogether
    <3>2. /\ \A s \in SellerOrderIds :
                status'[s] = IF OrderOf[s] = o THEN "AWAITING_FULFILLMENT"
                                               ELSE status[s]
          /\ orderStatus' = [orderStatus EXCEPT ![o] = "NEW"]
          /\ transaction' = transaction
      BY <2>1 DEF PlaceOrder
    <3>3. Moves
      BY <3>1, <3>2 DEF Moves
    <3>4. PlacedTogether'
      BY <3>2, ShapeAssumption
         DEF AggregateInv, PlacedTogether, TypeOK, Absent
    <3>5. TransactionSound'
      <4>1. ASSUME NEW s \in SellerOrderIds, transaction[s] # NoTransaction
            PROVE  status'[s] = status[s]
        BY <3>1, <3>2, <4>1 DEF AggregateInv, TransactionSound
      <4>. QED
        BY <3>2, <3>3, <4>1, MovesKeepTransactions DEF TransactionSound, TypeOK
    <3>6. ASSUME NEW x \in Orders, orderStatus'[x] # Absent
          PROVE  Supported(orderStatus'[x], status', SellerOrdersOf(x))
      <4>1. CASE x = o
        <5>1. orderStatus'[x] = "NEW"
          BY <3>2, <4>1 DEF TypeOK
        <5>2. \A s \in SellerOrdersOf(x) : status'[s] = "AWAITING_FULFILLMENT"
          BY <3>2, <4>1 DEF SellerOrdersOf
        <5>3. SellerOrdersOf(x) # {}
          BY CheckoutAssumption
        <5>. QED
          BY <5>1, <5>2, <5>3
             DEF Supported, SomeIn, AllIn, OrderStatus, SellerOrderStatus
      <4>2. CASE x # o
        BY <3>2, <3>3, <3>6, <4>2, MovesKeepClaims DEF TypeOK
      <4>. QED
        BY <4>1, <4>2
    <3>. QED
      BY <3>4, <3>5, <3>6 DEF AggregateInv, OrderClaimsSupported
  <2>2. ASSUME NEW so \in SellerOrderIds, StartProcessing(so) PROVE AggregateInv'
    <3>1. /\ status' = [status EXCEPT ![so] = "PROCESSING"]
          /\ UNCHANGED <<orderStatus, transaction>>
          /\ transaction[so] = NoTransaction
          /\ status[so] = "AWAITING_FULFILLMENT"
      BY <2>2 DEF StartProcessing
    <3>2. Moves
      BY <3>1 DEF Moves, Successors, ForwardTransitions, SellerOrderStatus, TypeOK
    <3>3. PlacedTogether'
      BY <3>1 DEF AggregateInv, PlacedTogether, Absent, TypeOK
    <3>4. TransactionSound'
      BY <3>1, <3>2, MovesKeepTransactions DEF TransactionSound, TypeOK
    <3>5. OrderClaimsSupported'
      BY <3>1, <3>2, MovesKeepClaims DEF OrderClaimsSupported
    <3>. QED
      BY <3>3, <3>4, <3>5 DEF AggregateInv
  <2>3. ASSUME NEW so \in SellerOrderIds, NEW to \in Successors(status[so]),
               status[so] \in SellerOrderStatus, Lock(so, to)
        PROVE  AggregateInv'
    BY <2>3, BookkeepingKeepsAggregate DEF Lock, TypeOK
  <2>4. ASSUME NEW so \in SellerOrderIds, ReadSiblings(so) PROVE AggregateInv'
    <3> DEFINE S == SellerOrdersOf(OrderOf[so])
               f == [status EXCEPT ![so] = transaction[so].to]
               seen == {f[s] : s \in S}
               d == DeriveParentOrderStatus(seen)
    <3>1. transaction[so] \in Transaction /\ transaction[so] # NoTransaction
      BY <2>4, OpenTransaction DEF ReadSiblings, NoTransaction
    <3>2. status[so] # Absent /\ transaction[so].to \in Successors(status[so])
      BY <3>1 DEF AggregateInv, TransactionSound
    <3>3. so \in S /\ seen # {}
      BY DEF SellerOrdersOf
    <3>4. seen \in SUBSET SellerOrderStatus
      <4>1. transaction[so].to \in SellerOrderStatus
        BY <3>1 DEF Transaction
      <4>2. ASSUME NEW s \in S PROVE f[s] \in SellerOrderStatus
        <5>1. s \in SellerOrderIds /\ OrderOf[s] = OrderOf[so]
          BY DEF SellerOrdersOf
        <5>2. status[s] # Absent
          BY <3>2, <5>1 DEF AggregateInv, PlacedTogether
        <5>. QED
          BY <4>1, <5>1, <5>2 DEF TypeOK
      <4>. QED
        BY <4>2
    <3>5. Supported(d, f, S)
      BY <3>3, <3>4, DerivedIsSupported DEF Supported
    <3>6. seen = {IF s = so THEN transaction[so].to ELSE status[s] : s \in S}
      BY DEF SellerOrdersOf, TypeOK
    <3>7. /\ transaction' = [transaction EXCEPT ![so].phase = "derived",
                                                ![so].derived = d]
          /\ UNCHANGED <<status, orderStatus>>
      BY <2>4, <3>6 DEF ReadSiblings
    <3> HIDE DEF d
    <3>8. /\ transaction'[so].to = transaction[so].to
          /\ transaction'[so].derived = d
          /\ \A s \in SellerOrderIds \ {so} : transaction'[s] = transaction[s]
      BY <3>1, <3>7 DEF TypeOK, Transaction
    <3>. QED
      BY <3>2, <3>5, <3>7, <3>8, BookkeepingKeepsAggregate
  <2>5. ASSUME NEW so \in SellerOrderIds, ReadParent(so) PROVE AggregateInv'
    <3>1. transaction[so] \in Transaction /\ transaction[so].phase = "derived"
      BY <2>5, OpenTransaction DEF ReadParent
    <3>2. /\ transaction'[so].to = transaction[so].to
          /\ transaction'[so].derived = transaction[so].derived
          /\ \A s \in SellerOrderIds \ {so} : transaction'[s] = transaction[s]
          /\ UNCHANGED <<status, orderStatus>>
      BY <2>5, <3>1 DEF ReadParent, TypeOK, Transaction
    <3>3. transaction[so] # NoTransaction
      BY <3>1 DEF NoTransaction
    <3>4. /\ status[so] # Absent
          /\ transaction[so].to \in Successors(status[so])
          /\ Supported(transaction[so].derived,
                       [status EXCEPT ![so] = transaction[so].to],
                       SellerOrdersOf(OrderOf[so]))
      BY <3>1, <3>3 DEF AggregateInv, TransactionSound
    <3>. QED
      BY <3>2, <3>4, BookkeepingKeepsAggregate
  <2>6. ASSUME NEW so \in SellerOrderIds, Commit(so) PROVE AggregateInv'
    <3> DEFINE t == transaction[so]
    <3>1. t \in Transaction /\ t.phase = "compared" /\ t # NoTransaction
      BY <2>6, OpenTransaction DEF Commit, NoTransaction
    <3>2. /\ status' = [status EXCEPT ![so] = t.to]
          /\ orderStatus' = [orderStatus EXCEPT
                               ![OrderOf[so]] = IF t.differs THEN t.derived ELSE @]
          /\ transaction' = [transaction EXCEPT ![so] = NoTransaction]
      BY <2>6 DEF Commit
    <3>3. /\ status[so] # Absent /\ t.to \in Successors(status[so])
          /\ Supported(t.derived, status', SellerOrdersOf(OrderOf[so]))
      BY <3>1, <3>2 DEF AggregateInv, TransactionSound
    <3>4. status[so] \in SellerOrderStatus /\ t.to \in SellerOrderStatus
      BY <3>1, <3>3 DEF TypeOK, Transaction
    <3>5. Moves
      BY <3>2, <3>3, <3>4 DEF Moves, TypeOK
    <3>6. OrderOf[so] \in Orders /\ orderStatus[OrderOf[so]] # Absent
      BY <3>3, ShapeAssumption DEF AggregateInv, PlacedTogether
    <3>7. t.to # Absent /\ t.derived # Absent
      BY <3>1 DEF Transaction, SellerOrderStatus, OrderStatus, Absent
    <3>8. PlacedTogether'
      BY <3>2, <3>3, <3>6, <3>7, ShapeAssumption
         DEF AggregateInv, PlacedTogether, TypeOK
    <3>9. TransactionSound'
      BY <3>2, <3>5, MovesKeepTransactions DEF TransactionSound, TypeOK
    <3>10. OrderClaimsSupported'
      BY <3>2, <3>3, <3>5, <3>6, MovesKeepClaims DEF OrderClaimsSupported, TypeOK
    <3>. QED
      BY <3>8, <3>9, <3>10 DEF AggregateInv
  <2>7. ASSUME NEW so \in SellerOrderIds, Rollback(so) PROVE AggregateInv'
    BY <2>7, BookkeepingKeepsAggregate DEF Rollback, TypeOK
  <2>8. CASE UNCHANGED <<status, orderStatus, transaction>>
    BY <2>8 DEF AggregateInv, PlacedTogether, TransactionSound, OrderClaimsSupported
  <2>9. ASSUME NEW so \in SellerOrderIds, NEW target \in SellerOrderStatus,
               UpdateStatus(so, target)
        PROVE  AggregateInv'
    BY <2>3, <2>9 DEF UpdateStatus, Successors
  <2>10. ASSUME NEW so \in SellerOrderIds, Cancel(so) PROVE AggregateInv'
    BY <2>3, <2>10 DEF Cancel, Successors, CancellableFrom, SellerOrderStatus
  <2>. QED
    BY <2>1, <2>2, <2>4, <2>5, <2>6, <2>7, <2>8, <2>9, <2>10
       DEF Next, Request, TransactionStep, CreateRefund, DeleteProduct, vars
<1>. QED
  BY <1>1, <1>2, TypeCorrect, PTL DEF Spec

\* Whatever the interleaving of the recomputations, the parent never claims
\* more than its seller orders have reached.
THEOREM AggregateSound == Spec => []OrderClaimsSupported
<1>1. AggregateInv => OrderClaimsSupported
  BY DEF AggregateInv
<1>. QED
  BY <1>1, AggregateInvariant, PTL

\* A completed or cancelled parent has only settled seller orders, none of
\* which can be locked any more, so nothing is left to overwrite its status.
THEOREM SettledFinal == Spec => SettledOrderIsFinal
<1>1. TypeOK /\ AggregateInv /\ [Next]_vars =>
        [\A o \in Orders : orderStatus[o] \in {"COMPLETED", "CANCELLED"} =>
                               orderStatus'[o] = orderStatus[o]]_vars
  <2> SUFFICES ASSUME TypeOK, AggregateInv, Next, NEW o \in Orders,
                      orderStatus[o] \in {"COMPLETED", "CANCELLED"}
               PROVE  orderStatus'[o] = orderStatus[o]
    BY DEF vars
  <2>1. ASSUME NEW so \in SellerOrdersOf(o) PROVE transaction[so] = NoTransaction
    <3>1. so \in SellerOrderIds /\ status[so] \in Rank3 \cup {"CANCELLED"}
      BY DEF AggregateInv, OrderClaimsSupported, Supported, SellerOrdersOf,
             AllIn, OrderStatus, Absent
    <3>. QED
      BY <3>1, LockedCanMove DEF AggregateInv
  <2>2. CASE \E x \in Orders : PlaceOrder(x)
    BY <2>2 DEF PlaceOrder, TypeOK, Absent
  <2>3. ASSUME NEW so \in SellerOrderIds, Commit(so)
        PROVE  orderStatus'[o] = orderStatus[o]
    <3>1. transaction[so] # NoTransaction
      BY <2>3 DEF Commit, NoTransaction
    <3>2. OrderOf[so] # o
      BY <2>1, <3>1 DEF SellerOrdersOf
    <3>. QED
      BY <2>3, <3>2 DEF Commit, TypeOK
  <2>4. CASE UNCHANGED orderStatus
    BY <2>4
  <2>. QED
    BY <2>2, <2>3, <2>4
       DEF Next, Request, TransactionStep, StartProcessing, UpdateStatus, Cancel, Lock,
           ReadSiblings, ReadParent, Rollback, CreateRefund, DeleteProduct
<1>. QED
  BY <1>1, TypeCorrect, AggregateInvariant, PTL DEF Spec, SettledOrderIsFinal

-----------------------------------------------------------------------------
(* Money.                                                                  *)

\* A cancelled seller order is never locked by a transaction that will move it
\* again, and no refund passes its check.
THEOREM CancelledFinal == Spec => CancelledIsFinal
<1>1. TypeOK /\ AggregateInv /\ [Next]_vars =>
        [\A so \in SellerOrderIds :
            status[so] = "CANCELLED" => /\ status'[so] = "CANCELLED"
                                        /\ ledger'[so] = ledger[so]
                                        /\ refunds'[so] = refunds[so]]_vars
  <2> SUFFICES ASSUME TypeOK, AggregateInv, Next, NEW so \in SellerOrderIds,
                      status[so] = "CANCELLED"
               PROVE  UNCHANGED <<status[so], ledger[so], refunds[so]>>
    BY DEF vars
  <2>1. transaction[so] = NoTransaction
    BY LockedCanMove DEF AggregateInv
  <2>2. ASSUME NEW o \in Orders, PlaceOrder(o)
        PROVE  UNCHANGED <<status[so], ledger[so], refunds[so]>>
    <3>1. OrderOf[so] # o
      BY <2>2 DEF PlaceOrder, AggregateInv, PlacedTogether, Absent
    <3>. QED
      BY <2>2, <3>1 DEF PlaceOrder
  <2>3. ASSUME NEW s \in SellerOrderIds, StartProcessing(s)
        PROVE  UNCHANGED <<status[so], ledger[so], refunds[so]>>
    BY <2>3 DEF StartProcessing, TypeOK
  <2>4. ASSUME NEW s \in SellerOrderIds, Commit(s)
        PROVE  UNCHANGED <<status[so], ledger[so], refunds[so]>>
    <3>1. s # so
      BY <2>1, <2>4 DEF Commit, NoTransaction
    <3>. QED
      BY <2>4, <3>1 DEF Commit, TypeOK, ReverseInLedger
  <2>5. ASSUME NEW s \in SellerOrderIds, NEW k \in Keys, NEW i \in ItemsOf(s),
               NEW q \in 1..QuantityOf[i], CreateRefund(s, k, i, q)
        PROVE  UNCHANGED <<status[so], ledger[so], refunds[so]>>
    <3>1. s # so
      BY <2>5 DEF CreateRefund, RefundAnswer, RefundableFrom
    <3>. QED
      BY <2>5, <3>1 DEF CreateRefund, TypeOK, ReverseInLedger
  <2>6. CASE UNCHANGED <<status, ledger, refunds>>
    BY <2>6
  <2>. QED
    BY <2>2, <2>3, <2>4, <2>5, <2>6
       DEF Next, Request, TransactionStep, UpdateStatus, Cancel, Lock, ReadSiblings,
           ReadParent, Rollback, DeleteProduct
<1>. QED
  BY <1>1, TypeCorrect, AggregateInvariant, PTL DEF Spec, CancelledIsFinal

\* Every refund row splits its gross amount between the seller and the platform
\* without taking more from either than the sale gave them.
THEOREM RefundSplitCorrect == Spec => []RefundSplitSound
<1>1. Init => RefundSplitSound
  BY DEF Init, RefundSplitSound, RefundRows
<1>2. TypeOK /\ RefundSplitSound /\ [Next]_vars => RefundSplitSound'
  <2> SUFFICES ASSUME TypeOK, RefundSplitSound, [Next]_vars PROVE RefundSplitSound'
    OBVIOUS
  <2>1. ASSUME NEW s \in SellerOrderIds, NEW k \in Keys, NEW i \in ItemsOf(s),
               NEW q \in 1..QuantityOf[i], CreateRefund(s, k, i, q)
        PROVE  RefundSplitSound'
    <3>1. refunds' = [refunds EXCEPT ![s][k] = RefundOf(s, i, q)]
      BY <2>1 DEF CreateRefund
    <3>2. /\ RefundOf(s, i, q).commissionAdjustment <= RefundOf(s, i, q).amount
          /\ RefundOf(s, i, q).commissionAdjustment <= Commission(s)
      BY RefundOfBounds
    <3>3. ASSUME NEW x \in SellerOrderIds, NEW y \in Keys, refunds'[x][y] # NoRefund
          PROVE  /\ refunds'[x][y].commissionAdjustment <= refunds'[x][y].amount
                 /\ refunds'[x][y].commissionAdjustment <= Commission(x)
      <4>1. CASE x = s /\ y = k
        BY <3>1, <3>2, <4>1 DEF TypeOK
      <4>2. CASE ~(x = s /\ y = k)
        <5>1. refunds'[x][y] = refunds[x][y]
          BY <3>1, <4>2 DEF TypeOK
        <5>. QED
          BY <3>3, <5>1 DEF RefundSplitSound, RefundRows
      <4>. QED
        BY <4>1, <4>2
    <3>. QED
      BY <3>3 DEF RefundSplitSound, RefundRows, Commission
  <2>2. CASE UNCHANGED refunds
    BY <2>2 DEF RefundSplitSound, RefundRows, Commission
  <2>. QED
    BY <2>1, <2>2
       DEF Next, vars, Request, TransactionStep, PlaceOrder, StartProcessing, UpdateStatus,
           Cancel, Lock, ReadSiblings, ReadParent, Commit, Rollback, DeleteProduct
<1>. QED
  BY <1>1, <1>2, TypeCorrect, PTL DEF Spec

-----------------------------------------------------------------------------
(* The books: what one more refund row does to the totals.                 *)

\* The rows of one seller order and their totals.
RowsOf(book) == {k \in Keys : book[k] # NoRefund}
AmountIn(book) == SumFunction([k \in RowsOf(book) |-> book[k].amount])
CommissionIn(book) == SumFunction([k \in RowsOf(book) |-> book[k].commissionAdjustment])
RowsOfItem(book, i) == {k \in RowsOf(book) : book[k].item = i}
UnitsIn(book, i) == SumFunction([k \in RowsOfItem(book, i) |-> book[k].quantity])

Books == [Keys -> Refund \cup {NoRefund}]

\* They are the totals of the specification, before a step and after it.
LEMMA BookTotals ==
    ASSUME NEW so \in SellerOrderIds
    PROVE  /\ RefundRows(so) = RowsOf(refunds[so])
           /\ RefundedAmount(so) = AmountIn(refunds[so])
           /\ RefundedCommission(so) = CommissionIn(refunds[so])
           /\ \A i \in ItemsOf(so) : AlreadyRefundedQuantity(i) = UnitsIn(refunds[so], i)
           /\ RefundRows(so)' = RowsOf(refunds'[so])
           /\ RefundedAmount(so)' = AmountIn(refunds'[so])
           /\ RefundedCommission(so)' = CommissionIn(refunds'[so])
           /\ \A i \in ItemsOf(so) : AlreadyRefundedQuantity(i)' = UnitsIn(refunds'[so], i)
  BY DEF RefundRows, RefundedAmount, RefundedCommission, AlreadyRefundedQuantity,
         RowsOf, AmountIn, CommissionIn, UnitsIn, RowsOfItem, ItemsOf

\* The totals of finitely many rows are natural numbers.
LEMMA BookTypes ==
    ASSUME NEW book \in Books, IsFiniteSet(RowsOf(book))
    PROVE  /\ AmountIn(book) \in Nat /\ CommissionIn(book) \in Nat
           /\ Cardinality(RowsOf(book)) \in Nat
           /\ \A i : UnitsIn(book, i) \in Nat
<1>1. \A k \in RowsOf(book) : book[k] \in Refund
  BY DEF RowsOf, Books
<1>2. \A k \in RowsOf(book) : /\ book[k].amount \in Nat
                              /\ book[k].commissionAdjustment \in Nat
                              /\ book[k].quantity \in Nat
  BY <1>1 DEF Refund
<1>3. AmountIn(book) \in Nat /\ CommissionIn(book) \in Nat
  BY <1>2, TotalNat DEF AmountIn, CommissionIn
<1>4. ASSUME NEW i PROVE UnitsIn(book, i) \in Nat
  <2>1. RowsOfItem(book, i) \subseteq RowsOf(book)
    BY DEF RowsOfItem
  <2>2. IsFiniteSet(RowsOfItem(book, i))
    BY <2>1, FS_Subset
  <2>. QED
    BY <1>2, <2>1, <2>2, TotalNat DEF UnitsIn
<1>. QED
  BY <1>3, <1>4, FS_CardinalityType

\* A row that is added under a key of its own.
LEMMA RowAdded ==
    ASSUME NEW book \in Books, IsFiniteSet(RowsOf(book)),
           NEW k \in Keys, k \notin RowsOf(book), NEW row \in Refund,
           NEW after \in Books, after[k] = row,
           \A x \in Keys \ {k} : after[x] = book[x]
    PROVE  /\ RowsOf(after) = RowsOf(book) \cup {k}
           /\ IsFiniteSet(RowsOf(after))
           /\ Cardinality(RowsOf(after)) = Cardinality(RowsOf(book)) + 1
           /\ AmountIn(after) = AmountIn(book) + row.amount
           /\ CommissionIn(after) = CommissionIn(book) + row.commissionAdjustment
           /\ \A i : UnitsIn(after, i) =
                        UnitsIn(book, i) + (IF row.item = i THEN row.quantity ELSE 0)
<1>1. row # NoRefund /\ row.amount \in Nat /\ row.commissionAdjustment \in Nat
      /\ row.quantity \in Nat
  BY DEF Refund, NoRefund
<1>2. \A x \in Keys : after[x] = IF x = k THEN row ELSE book[x]
  OBVIOUS
<1>3. RowsOf(after) = RowsOf(book) \cup {k}
  BY <1>1, <1>2 DEF RowsOf
<1>10. k \in RowsOf(after) /\ RowsOf(book) \subseteq RowsOf(after)
  BY <1>3
<1>4. \A x \in RowsOf(book) : x # k /\ after[x] = book[x] /\ book[x] \in Refund
  BY <1>2 DEF RowsOf, Books
<1>5. \A x \in RowsOf(book) : /\ book[x].amount \in Nat
                              /\ book[x].commissionAdjustment \in Nat
                              /\ book[x].quantity \in Nat
  BY <1>4 DEF Refund
<1>6. IsFiniteSet(RowsOf(after)) /\ Cardinality(RowsOf(after)) = Cardinality(RowsOf(book)) + 1
  <2>1. /\ IsFiniteSet(RowsOf(book) \cup {k})
        /\ Cardinality(RowsOf(book) \cup {k}) = Cardinality(RowsOf(book)) + 1
    BY FS_AddElement
  <2>. QED
    BY <1>3, <2>1, Zenon
<1>7. AmountIn(after) = AmountIn(book) + row.amount
  <2> DEFINE f == [x \in RowsOf(book) |-> book[x].amount]
             g == [x \in RowsOf(after) |-> after[x].amount]
  <2>1. DOMAIN f = RowsOf(book) /\ DOMAIN g = RowsOf(after)
    OBVIOUS
  <2>2. /\ \A y \in DOMAIN f : f[y] \in Int /\ g[y] = f[y]
        /\ g[k] = row.amount /\ g[k] \in Int
    <3>1. g[k] = row.amount
      BY <1>2, <1>10
    <3>2. ASSUME NEW y \in RowsOf(book) PROVE f[y] \in Int /\ g[y] = f[y]
      <4>1. book[y].amount \in Int /\ after[y] = book[y] /\ y \in RowsOf(after)
        BY <1>4, <1>5, <1>10
      <4>2. f[y] = book[y].amount
        OBVIOUS
      <4>3. g[y] = after[y].amount
        BY <4>1
      <4>. QED
        BY <4>1, <4>2, <4>3
    <3>. QED
      BY <1>1, <2>1, <3>1, <3>2
  <2> HIDE DEF f, g
  <2>3. DOMAIN g = DOMAIN f \cup {k} /\ k \notin DOMAIN f /\ IsFiniteSet(DOMAIN f)
    BY <1>3, <2>1, Zenon
  <2>4. SumFunction(g) = SumFunction(f) + g[k]
    BY <2>2, <2>3, TotalExtended
  <2>. QED
    BY <2>2, <2>4, Zenon DEF AmountIn, f, g
<1>8. CommissionIn(after) = CommissionIn(book) + row.commissionAdjustment
  <2> DEFINE f == [x \in RowsOf(book) |-> book[x].commissionAdjustment]
             g == [x \in RowsOf(after) |-> after[x].commissionAdjustment]
  <2>1. DOMAIN f = RowsOf(book) /\ DOMAIN g = RowsOf(after)
    OBVIOUS
  <2>2. /\ \A y \in DOMAIN f : f[y] \in Int /\ g[y] = f[y]
        /\ g[k] = row.commissionAdjustment /\ g[k] \in Int
    <3>1. g[k] = row.commissionAdjustment
      BY <1>2, <1>10
    <3>2. ASSUME NEW y \in RowsOf(book) PROVE f[y] \in Int /\ g[y] = f[y]
      <4>1. book[y].commissionAdjustment \in Int /\ after[y] = book[y] /\ y \in RowsOf(after)
        BY <1>4, <1>5, <1>10
      <4>2. f[y] = book[y].commissionAdjustment
        OBVIOUS
      <4>3. g[y] = after[y].commissionAdjustment
        BY <4>1
      <4>. QED
        BY <4>1, <4>2, <4>3
    <3>. QED
      BY <1>1, <2>1, <3>1, <3>2
  <2> HIDE DEF f, g
  <2>3. DOMAIN g = DOMAIN f \cup {k} /\ k \notin DOMAIN f /\ IsFiniteSet(DOMAIN f)
    BY <1>3, <2>1, Zenon
  <2>4. SumFunction(g) = SumFunction(f) + g[k]
    BY <2>2, <2>3, TotalExtended
  <2>. QED
    BY <2>2, <2>4, Zenon DEF CommissionIn, f, g
<1>9. ASSUME NEW i
      PROVE  UnitsIn(after, i) = UnitsIn(book, i) + (IF row.item = i THEN row.quantity ELSE 0)
  <2> DEFINE f == [x \in RowsOfItem(book, i) |-> book[x].quantity]
             g == [x \in RowsOfItem(after, i) |-> after[x].quantity]
  <2>1. RowsOfItem(book, i) \subseteq RowsOf(book) /\ IsFiniteSet(RowsOfItem(book, i))
    <3>1. RowsOfItem(book, i) \subseteq RowsOf(book)
      BY DEF RowsOfItem
    <3>. QED
      BY <3>1, FS_Subset
  <2>2. CASE row.item = i
    <3>1. RowsOfItem(after, i) = RowsOfItem(book, i) \cup {k}
      BY <1>2, <1>3, <1>4, <2>2 DEF RowsOfItem
    <3>2. DOMAIN f = RowsOfItem(book, i) /\ DOMAIN g = RowsOfItem(after, i)
      OBVIOUS
    <3>7. k \in RowsOfItem(after, i) /\ RowsOfItem(book, i) \subseteq RowsOfItem(after, i)
      BY <3>1
    <3>3. /\ \A y \in DOMAIN f : f[y] \in Int /\ g[y] = f[y]
          /\ g[k] = row.quantity /\ g[k] \in Int
      <4>1. g[k] = row.quantity
        BY <1>2, <3>7
      <4>2. ASSUME NEW y \in RowsOfItem(book, i) PROVE f[y] \in Int /\ g[y] = f[y]
        BY <1>4, <1>5, <2>1, <3>7
      <4>. QED
        BY <1>1, <4>1, <4>2
    <3> HIDE DEF f, g
    <3>4. DOMAIN g = DOMAIN f \cup {k} /\ k \notin DOMAIN f /\ IsFiniteSet(DOMAIN f)
      BY <2>1, <3>1, <3>2, Zenon
    <3>5. SumFunction(g) = SumFunction(f) + g[k]
      BY <3>3, <3>4, TotalExtended
    <3>6. UnitsIn(after, i) = UnitsIn(book, i) + row.quantity
      BY <3>3, <3>5, Zenon DEF UnitsIn, f, g
    <3>. QED
      BY <2>2, <3>6
  <2>3. CASE row.item # i
    <3>1. RowsOfItem(after, i) = RowsOfItem(book, i)
      BY <1>2, <1>3, <1>4, <2>3 DEF RowsOfItem
    <3>2. f = g
      BY <1>4, <2>1, <3>1
    <3>3. UnitsIn(after, i) = UnitsIn(book, i) /\ UnitsIn(book, i) \in Nat
      BY <3>2, BookTypes, Zenon DEF UnitsIn
    <3>. QED
      BY <2>3, <3>3
  <2>. QED
    BY <2>2, <2>3
<1>. QED
  BY <1>2, <1>3, <1>6, <1>7, <1>8, <1>9

-----------------------------------------------------------------------------
(* The books: the seller's side.                                           *)

\* What BooksInv says of one seller order, as far as it is not implied.
SellerBooks(so, st, book, entries) ==
    /\ book \in Books /\ IsFiniteSet(RowsOf(book))
    /\ st = Absent => RowsOf(book) = {}
    /\ \A k \in RowsOf(book) : \E i \in ItemsOf(so) : \E q \in 1..QuantityOf[i] :
          book[k] = RefundOf(so, i, q)
    /\ \A i \in ItemsOf(so) : UnitsIn(book, i) <= QuantityOf[i]
    /\ AmountIn(book) = SumFunction([i \in ItemsOf(so) |-> UnitPriceOf[i] * UnitsIn(book, i)])
    /\ entries["SALE_CREDIT"] = IF st # Absent THEN Subtotal[so] ELSE 0
    /\ entries["COMMISSION_DEBIT"] = IF st # Absent THEN Commission(so) ELSE 0
    /\ entries["SELLER_EARNING_REVERSAL"] =
          AmountIn(book) + IF st = "CANCELLED" THEN Subtotal[so] ELSE 0
    /\ entries["PLATFORM_COMMISSION_REVERSAL"] =
          CommissionIn(book) + IF st = "CANCELLED" THEN Commission(so) ELSE 0
    /\ LET exact == AmountIn(book) * Commission(so)
           actual == CommissionIn(book) * Subtotal[so]
           n == Cardinality(RowsOf(book))
       IN  /\ 2 * (actual - exact) <= n * Subtotal[so]
           /\ 2 * (exact - actual) <= n * Subtotal[so]

\* No rows, no totals.
LEMMA EmptyBook ==
    ASSUME NEW book, RowsOf(book) = {}
    PROVE  /\ AmountIn(book) = 0 /\ CommissionIn(book) = 0
           /\ Cardinality(RowsOf(book)) = 0 /\ IsFiniteSet(RowsOf(book))
           /\ \A i : UnitsIn(book, i) = 0
<1>1. ASSUME NEW f, DOMAIN f = {} PROVE SumFunction(f) = 0
  BY <1>1, SumEmpty, Zenon DEF SumFunction
<1>2. AmountIn(book) = 0 /\ CommissionIn(book) = 0
  <2> DEFINE f == [k \in RowsOf(book) |-> book[k].amount]
             g == [k \in RowsOf(book) |-> book[k].commissionAdjustment]
  <2>1. DOMAIN f = {} /\ DOMAIN g = {}
    OBVIOUS
  <2> HIDE DEF f, g
  <2>2. SumFunction(f) = 0 /\ SumFunction(g) = 0
    BY <1>1, <2>1
  <2>. QED
    BY <2>2, Zenon DEF AmountIn, CommissionIn, f, g
<1>3. ASSUME NEW i PROVE UnitsIn(book, i) = 0
  <2> DEFINE f == [k \in RowsOfItem(book, i) |-> book[k].quantity]
  <2>1. DOMAIN f = {}
    BY DEF RowsOfItem
  <2> HIDE DEF f
  <2>2. SumFunction(f) = 0
    BY <1>1, <2>1
  <2>. QED
    BY <2>2, Zenon DEF UnitsIn, f
<1>4. Cardinality(RowsOf(book)) = 0 /\ IsFiniteSet(RowsOf(book))
  BY FS_EmptySet, Zenon
<1>. QED
  BY <1>2, <1>3, <1>4

\* A seller order without refunds has its books in order when its sale, or
\* neither sale nor anything else, was posted.
LEMMA BooksWithoutRefunds ==
    ASSUME NEW so \in SellerOrderIds, NEW st, st # "CANCELLED",
           NEW book \in Books, RowsOf(book) = {}, NEW entries,
           entries["SALE_CREDIT"] = IF st # Absent THEN Subtotal[so] ELSE 0,
           entries["COMMISSION_DEBIT"] = IF st # Absent THEN Commission(so) ELSE 0,
           entries["SELLER_EARNING_REVERSAL"] = 0,
           entries["PLATFORM_COMMISSION_REVERSAL"] = 0
    PROVE  SellerBooks(so, st, book, entries)
<1>1. /\ AmountIn(book) = 0 /\ CommissionIn(book) = 0
      /\ Cardinality(RowsOf(book)) = 0 /\ IsFiniteSet(RowsOf(book))
      /\ \A i : UnitsIn(book, i) = 0
  BY EmptyBook
<1>2. \A i \in ItemsOf(so) : QuantityOf[i] \in Nat /\ UnitPriceOf[i] \in Nat
  BY ShapeAssumption DEF ItemsOf
<1>3. Subtotal[so] \in Nat /\ Commission(so) \in Nat
  BY ShapeAssumption, CommissionBounds
<1>4. SumFunction([i \in ItemsOf(so) |-> UnitPriceOf[i] * UnitsIn(book, i)]) = 0
  <2> DEFINE f == [i \in ItemsOf(so) |-> UnitPriceOf[i] * UnitsIn(book, i)]
             z == [i \in ItemsOf(so) |-> 0]
  <2>1. f = z
    <3> SUFFICES ASSUME NEW i \in ItemsOf(so) PROVE UnitPriceOf[i] * UnitsIn(book, i) = 0
      BY Zenon
    <3>. QED
      BY <1>1, <1>2
  <2>2. IsFiniteSet(DOMAIN z) /\ \A i \in DOMAIN z : z[i] = 0
    BY FiniteAssumption, FS_Subset DEF ItemsOf
  <2> HIDE DEF z
  <2>3. SumFunction(z) = 0
    BY <2>2, TotalZero
  <2>. QED
    BY <2>1, <2>3
<1>. QED
  BY <1>1, <1>2, <1>3, <1>4 DEF SellerBooks

\* What RefundOf says of the refund of some units of a line.
LEMMA RefundShares ==
    ASSUME NEW so \in SellerOrderIds, NEW i \in ItemsOf(so), NEW q \in 1..QuantityOf[i]
    PROVE  LET row == RefundOf(so, i, q)
           IN  /\ row \in Refund /\ row.item = i /\ row.quantity = q
               /\ row.amount = UnitPriceOf[i] * q /\ row.amount \in Nat
               /\ row.commissionAdjustment \in Nat
               /\ 2 * (row.commissionAdjustment * Subtotal[so] - row.amount * Commission(so))
                     <= Subtotal[so]
               /\ 2 * (row.amount * Commission(so) - row.commissionAdjustment * Subtotal[so])
                     <= Subtotal[so]
<1> DEFINE row == RefundOf(so, i, q)
<1>1. row \in Refund
  BY RefundOfBounds
<1>2. /\ row.item = i /\ row.quantity = q
      /\ row.amount = UnitPriceOf[i] * q
      /\ row.commissionAdjustment = ApplyRatio(row.amount, Commission(so), Subtotal[so])
  BY DEF RefundOf, MultiplyCentsByQuantity
<1>3. /\ i \in Items /\ SellerOrderOf[i] = so
      /\ QuantityOf[i] \in Nat /\ UnitPriceOf[i] \in Nat /\ Subtotal[so] \in Nat
      /\ Commission(so) \in Nat
  BY ShapeAssumption, CommissionBounds DEF ItemsOf
<1> HIDE DEF row
<1>4. row.amount \in Nat /\ row.commissionAdjustment \in Nat
  BY <1>1 DEF Refund
<1>5. row.amount <= Subtotal[so]
  <2>1. q * UnitPriceOf[i] <= QuantityOf[i] * UnitPriceOf[i]
    BY <1>3, ProductMonotone
  <2>2. UnitPriceOf[i] * QuantityOf[i] <= Subtotal[so]
    BY <1>3, LineWithinSubtotal
  <2>3. /\ q * UnitPriceOf[i] = row.amount
        /\ QuantityOf[i] * UnitPriceOf[i] = UnitPriceOf[i] * QuantityOf[i]
        /\ QuantityOf[i] * UnitPriceOf[i] \in Nat
    BY <1>2, <1>3, SMT
  <2>. QED
    BY <1>3, <1>4, <2>1, <2>2, <2>3
<1>6. LET a == ApplyRatio(row.amount, Commission(so), Subtotal[so])
      IN  /\ 2 * (a * Subtotal[so] - row.amount * Commission(so)) <= Subtotal[so]
          /\ 2 * (row.amount * Commission(so) - a * Subtotal[so]) <= Subtotal[so]
  BY <1>3, <1>4, <1>5, ApplyRatioNearest
<1>. QED
  BY <1>1, <1>2, <1>4, <1>6 DEF row

\* The distance of the shares given back from the exact ones grows by at most
\* half a cent a row (all figures times the subtotal).
LEMMA DriftGrowsByHalfACent ==
    ASSUME NEW amount \in Nat, NEW share \in Nat, NEW n \in Nat,
           NEW total \in Nat, NEW commission \in Nat,
           NEW gross \in Nat, NEW part \in Nat,
           2 * (share * total - amount * commission) <= n * total,
           2 * (amount * commission - share * total) <= n * total,
           2 * (part * total - gross * commission) <= total,
           2 * (gross * commission - part * total) <= total
    PROVE  /\ 2 * ((share + part) * total - (amount + gross) * commission) <= (n + 1) * total
           /\ 2 * ((amount + gross) * commission - (share + part) * total) <= (n + 1) * total
<1>1. /\ share * total \in Nat /\ amount * commission \in Nat /\ n * total \in Nat
      /\ part * total \in Nat /\ gross * commission \in Nat
  BY SMT
<1>2. /\ (share + part) * total = share * total + part * total
      /\ (amount + gross) * commission = amount * commission + gross * commission
      /\ (n + 1) * total = n * total + total
  BY SMT
<1>. QED
  BY <1>1, <1>2, SMT

\* A refund that passes the check keeps the books.
LEMMA BooksAfterRefund ==
    ASSUME NEW so \in SellerOrderIds, NEW st, st # "CANCELLED", st # Absent,
           NEW book, NEW entries, SellerBooks(so, st, book, entries),
           NEW k \in Keys, k \notin RowsOf(book),
           NEW i \in ItemsOf(so), NEW q \in 1..QuantityOf[i],
           q <= QuantityOf[i] - UnitsIn(book, i),
           NEW after \in Books, after[k] = RefundOf(so, i, q),
           \A x \in Keys \ {k} : after[x] = book[x],
           NEW posted,
           posted["SALE_CREDIT"] = entries["SALE_CREDIT"],
           posted["COMMISSION_DEBIT"] = entries["COMMISSION_DEBIT"],
           posted["SELLER_EARNING_REVERSAL"] =
              entries["SELLER_EARNING_REVERSAL"] + after[k].amount,
           posted["PLATFORM_COMMISSION_REVERSAL"] =
              entries["PLATFORM_COMMISSION_REVERSAL"] + after[k].commissionAdjustment
    PROVE  SellerBooks(so, st, after, posted)
<1> DEFINE row == after[k]
<1>1. /\ row \in Refund /\ row.item = i /\ row.quantity = q
      /\ row.amount = UnitPriceOf[i] * q /\ row.amount \in Nat
      /\ row.commissionAdjustment \in Nat
      /\ 2 * (row.commissionAdjustment * Subtotal[so] - row.amount * Commission(so))
            <= Subtotal[so]
      /\ 2 * (row.amount * Commission(so) - row.commissionAdjustment * Subtotal[so])
            <= Subtotal[so]
  BY RefundShares
<1>2. book \in Books /\ IsFiniteSet(RowsOf(book))
  BY DEF SellerBooks
<1>3. /\ AmountIn(book) \in Nat /\ CommissionIn(book) \in Nat
      /\ Cardinality(RowsOf(book)) \in Nat
      /\ \A j : UnitsIn(book, j) \in Nat
  BY <1>2, BookTypes
<1>4. /\ RowsOf(after) = RowsOf(book) \cup {k}
      /\ IsFiniteSet(RowsOf(after))
      /\ Cardinality(RowsOf(after)) = Cardinality(RowsOf(book)) + 1
      /\ AmountIn(after) = AmountIn(book) + row.amount
      /\ CommissionIn(after) = CommissionIn(book) + row.commissionAdjustment
      /\ \A j : UnitsIn(after, j) = UnitsIn(book, j) + (IF row.item = j THEN row.quantity ELSE 0)
  BY <1>1, <1>2, RowAdded
<1> HIDE DEF row
<1>5. Subtotal[so] \in Nat /\ Commission(so) \in Nat
  BY ShapeAssumption, CommissionBounds
<1>6. \A j \in ItemsOf(so) : QuantityOf[j] \in Nat /\ UnitPriceOf[j] \in Nat
  BY ShapeAssumption DEF ItemsOf
<1>7. \A j \in ItemsOf(so) : UnitsIn(after, j) <= QuantityOf[j]
  <2> SUFFICES ASSUME NEW j \in ItemsOf(so) PROVE UnitsIn(after, j) <= QuantityOf[j]
    OBVIOUS
  <2>1. UnitsIn(book, j) <= QuantityOf[j]
    BY DEF SellerBooks
  <2>2. CASE j = i
    BY <1>1, <1>3, <1>4, <1>6, <2>2
  <2>3. CASE j # i
    BY <1>1, <1>3, <1>4, <2>1, <2>3
  <2>. QED
    BY <2>2, <2>3
<1>8. AmountIn(after) = SumFunction([j \in ItemsOf(so) |-> UnitPriceOf[j] * UnitsIn(after, j)])
  <2> DEFINE f == [j \in ItemsOf(so) |-> UnitPriceOf[j] * UnitsIn(book, j)]
             g == [j \in ItemsOf(so) |-> UnitPriceOf[j] * UnitsIn(after, j)]
  <2>1. \A j \in ItemsOf(so) : f[j] \in Int /\ g[j] \in Int
    <3> SUFFICES ASSUME NEW j \in ItemsOf(so)
                 PROVE  /\ UnitPriceOf[j] * UnitsIn(book, j) \in Int
                        /\ UnitPriceOf[j] * UnitsIn(after, j) \in Int
      OBVIOUS
    <3>1. UnitsIn(after, j) \in Nat
      BY <1>1, <1>3, <1>4
    <3>. QED
      BY <1>3, <1>6, <3>1, SMT
  <2>2. \A j \in ItemsOf(so) \ {i} : g[j] = f[j]
    BY <1>1, <1>3, <1>4
  <2>3. g[i] - f[i] = row.amount
    <3>1. UnitPriceOf[i] * (UnitsIn(book, i) + q)
             = UnitPriceOf[i] * UnitsIn(book, i) + UnitPriceOf[i] * q
      BY <1>3, <1>6, SMT
    <3>2. UnitsIn(after, i) = UnitsIn(book, i) + q
      BY <1>1, <1>4
    <3>3. UnitPriceOf[i] * UnitsIn(book, i) \in Int
      BY <2>1
    <3>. QED
      BY <1>1, <3>1, <3>2, <3>3
  <2>4. DOMAIN f = ItemsOf(so) /\ DOMAIN g = ItemsOf(so)
    OBVIOUS
  <2>5. IsFiniteSet(ItemsOf(so))
    BY FiniteAssumption, FS_Subset DEF ItemsOf
  <2>6. AmountIn(book) = SumFunction(f)
    BY DEF SellerBooks
  <2> HIDE DEF f, g
  <2>7. SumFunction(g) = SumFunction(f) + (g[i] - f[i])
    BY <2>1, <2>2, <2>4, <2>5, TotalChanged
  <2>8. AmountIn(after) = SumFunction(g)
    BY <1>4, <2>3, <2>6, <2>7
  <2>. QED
    BY <2>8 DEF g
<1>9. \A x \in RowsOf(after) : \E j \in ItemsOf(so) : \E u \in 1..QuantityOf[j] :
          after[x] = RefundOf(so, j, u)
  <2> SUFFICES ASSUME NEW x \in RowsOf(after)
               PROVE  \E j \in ItemsOf(so) : \E u \in 1..QuantityOf[j] :
                          after[x] = RefundOf(so, j, u)
    OBVIOUS
  <2>1. CASE x = k
    BY <2>1
  <2>2. CASE x # k
    <3>1. x \in RowsOf(book) /\ after[x] = book[x]
      BY <1>4, <2>2 DEF RowsOf
    <3>. QED
      BY <3>1 DEF SellerBooks
  <2>. QED
    BY <2>1, <2>2
<1>10. /\ posted["SALE_CREDIT"] = Subtotal[so]
       /\ posted["COMMISSION_DEBIT"] = Commission(so)
       /\ posted["SELLER_EARNING_REVERSAL"] = AmountIn(after)
       /\ posted["PLATFORM_COMMISSION_REVERSAL"] = CommissionIn(after)
  BY <1>1, <1>3, <1>4 DEF SellerBooks, row
<1>11. /\ 2 * (CommissionIn(after) * Subtotal[so] - AmountIn(after) * Commission(so))
             <= Cardinality(RowsOf(after)) * Subtotal[so]
       /\ 2 * (AmountIn(after) * Commission(so) - CommissionIn(after) * Subtotal[so])
             <= Cardinality(RowsOf(after)) * Subtotal[so]
  <2>1. /\ 2 * (CommissionIn(book) * Subtotal[so] - AmountIn(book) * Commission(so))
             <= Cardinality(RowsOf(book)) * Subtotal[so]
        /\ 2 * (AmountIn(book) * Commission(so) - CommissionIn(book) * Subtotal[so])
             <= Cardinality(RowsOf(book)) * Subtotal[so]
    BY DEF SellerBooks
  <2>2. /\ 2 * ((CommissionIn(book) + row.commissionAdjustment) * Subtotal[so]
                  - (AmountIn(book) + row.amount) * Commission(so))
             <= (Cardinality(RowsOf(book)) + 1) * Subtotal[so]
        /\ 2 * ((AmountIn(book) + row.amount) * Commission(so)
                  - (CommissionIn(book) + row.commissionAdjustment) * Subtotal[so])
             <= (Cardinality(RowsOf(book)) + 1) * Subtotal[so]
    BY <1>1, <1>3, <1>5, <2>1, DriftGrowsByHalfACent
  <2>. QED
    BY <1>4, <2>2
<1>12. AmountIn(after) \in Nat /\ CommissionIn(after) \in Nat
  BY <1>4, BookTypes
<1>13. AmountIn(after) + 0 = AmountIn(after) /\ CommissionIn(after) + 0 = CommissionIn(after)
  BY <1>12
<1>. QED
  BY <1>4, <1>7, <1>8, <1>9, <1>10, <1>11, <1>13 DEF SellerBooks

\* The books of every seller order are in order.
SellerSide ==
    \A so \in SellerOrderIds : SellerBooks(so, status[so], refunds[so], ledger[so])

\* What the ledger and the refunds of a seller order are bounded by follows.
LEMMA SellerSideSuffices ==
    ASSUME TypeOK, SellerSide, RefundSplitSound
    PROVE  LedgerExplained /\ RefundsBounded
<1>1. LedgerExplained
  <2> SUFFICES ASSUME NEW so \in SellerOrderIds
               PROVE  /\ ledger[so]["SALE_CREDIT"] =
                            IF status[so] # Absent THEN Subtotal[so] ELSE 0
                      /\ ledger[so]["COMMISSION_DEBIT"] =
                            IF status[so] # Absent THEN Commission(so) ELSE 0
                      /\ ledger[so]["SELLER_EARNING_REVERSAL"] = RefundedAmount(so)
                            + IF status[so] = "CANCELLED" THEN Subtotal[so] ELSE 0
                      /\ ledger[so]["PLATFORM_COMMISSION_REVERSAL"] = RefundedCommission(so)
                            + IF status[so] = "CANCELLED" THEN Commission(so) ELSE 0
    BY DEF LedgerExplained
  <2>. QED
    BY BookTotals DEF SellerSide, SellerBooks
<1>2. ASSUME NEW so \in SellerOrderIds
      PROVE  LET n == Cardinality(RefundRows(so))
                 exact == RefundedAmount(so) * Commission(so)
                 actual == RefundedCommission(so) * Subtotal[so]
             IN  /\ \A i \in ItemsOf(so) : AlreadyRefundedQuantity(i) <= QuantityOf[i]
                 /\ RefundedAmount(so) <= Subtotal[so]
                 /\ 2 * (actual - exact) <= n * Subtotal[so]
                 /\ 2 * (exact - actual) <= n * Subtotal[so]
  <2> DEFINE book == refunds[so]
             f == [i \in ItemsOf(so) |-> UnitPriceOf[i] * UnitsIn(book, i)]
             g == [i \in ItemsOf(so) |-> UnitPriceOf[i] * QuantityOf[i]]
  <2>1. SellerBooks(so, status[so], book, ledger[so])
    BY DEF SellerSide
  <2>2. \A i \in ItemsOf(so) : f[i] \in Int /\ g[i] \in Int /\ f[i] <= g[i]
    <3> SUFFICES ASSUME NEW i \in ItemsOf(so)
                 PROVE  LET a == UnitPriceOf[i] * UnitsIn(book, i)
                            b == UnitPriceOf[i] * QuantityOf[i]
                        IN  a \in Int /\ b \in Int /\ a <= b
      OBVIOUS
    <3>1. UnitPriceOf[i] \in Nat /\ QuantityOf[i] \in Nat
      BY ShapeAssumption DEF ItemsOf
    <3>2. UnitsIn(book, i) \in Nat /\ UnitsIn(book, i) <= QuantityOf[i]
      BY <2>1, BookTypes DEF SellerBooks
    <3>3. UnitsIn(book, i) * UnitPriceOf[i] <= QuantityOf[i] * UnitPriceOf[i]
      BY <3>1, <3>2, ProductMonotone
    <3>. QED
      BY <3>1, <3>2, <3>3, SMT
  <2>3. IsFiniteSet(ItemsOf(so))
    BY FiniteAssumption, FS_Subset DEF ItemsOf
  <2>4. DOMAIN f = ItemsOf(so) /\ DOMAIN g = ItemsOf(so)
    OBVIOUS
  <2>5. AmountIn(book) = SumFunction(f)
    BY <2>1 DEF SellerBooks
  <2>6. Subtotal[so] = SumFunction(g)
    BY CheckoutAssumption
  <2> HIDE DEF f, g
  <2>7. SumFunction(f) <= SumFunction(g)
    BY <2>2, <2>3, <2>4, TotalAtMost
  <2>8. AmountIn(book) <= Subtotal[so]
    BY <2>5, <2>6, <2>7
  <2>. QED
    BY <2>1, <2>8, BookTotals DEF SellerBooks
<1>. QED
  BY <1>1, <1>2 DEF RefundsBounded

\* The seller's side of the books is kept by every step.
LEMMA SellerSideStep ==
    ASSUME TypeOK, TypeOK', AggregateInv, SellerSide, [Next]_vars
    PROVE  SellerSide'
<1>1. ASSUME NEW so \in SellerOrderIds,
             UNCHANGED <<refunds[so], ledger[so]>>,
             \/ status'[so] = status[so]
             \/ /\ status[so] # Absent /\ status'[so] # Absent
                /\ status[so] # "CANCELLED" /\ status'[so] # "CANCELLED"
      PROVE  SellerBooks(so, status'[so], refunds'[so], ledger'[so])
  BY <1>1 DEF SellerSide, SellerBooks
<1>2. ASSUME NEW o \in Orders, PlaceOrder(o) PROVE SellerSide'
  <2> SUFFICES ASSUME NEW so \in SellerOrderIds
               PROVE  SellerBooks(so, status'[so], refunds'[so], ledger'[so])
    BY DEF SellerSide
  <2>1. CASE OrderOf[so] # o
    BY <1>1, <1>2, <2>1 DEF PlaceOrder
  <2>2. CASE OrderOf[so] = o
    <3>1. status[so] = Absent
      BY <1>2, <2>2 DEF PlaceOrder, AggregateInv, PlacedTogether
    <3>2. SellerBooks(so, Absent, refunds[so], ledger[so])
      BY <3>1 DEF SellerSide
    <3>3. refunds[so] \in Books /\ RowsOf(refunds[so]) = {}
      BY <3>2 DEF SellerBooks
    <3>4. AmountIn(refunds[so]) = 0 /\ CommissionIn(refunds[so]) = 0
      BY <3>3, EmptyBook
    <3>5. /\ ledger[so]["SELLER_EARNING_REVERSAL"] = 0
          /\ ledger[so]["PLATFORM_COMMISSION_REVERSAL"] = 0
      BY <3>2, <3>4 DEF SellerBooks, Absent
    <3>6. /\ status'[so] = "AWAITING_FULFILLMENT" /\ refunds' = refunds
          /\ ledger'[so] = [ledger[so] EXCEPT !["SALE_CREDIT"] = Subtotal[so],
                                              !["COMMISSION_DEBIT"] = Commission(so)]
      BY <1>2, <2>2 DEF PlaceOrder
    <3>7. ledger[so] \in [LedgerEntryType -> Nat]
      BY DEF TypeOK
    <3>8. /\ ledger'[so]["SALE_CREDIT"] = Subtotal[so]
          /\ ledger'[so]["COMMISSION_DEBIT"] = Commission(so)
          /\ ledger'[so]["SELLER_EARNING_REVERSAL"] = 0
          /\ ledger'[so]["PLATFORM_COMMISSION_REVERSAL"] = 0
      BY <3>5, <3>6, <3>7 DEF LedgerEntryType
    <3>. QED
      BY <3>3, <3>6, <3>8, BooksWithoutRefunds DEF Absent
  <2>. QED
    BY <2>1, <2>2
<1>3. ASSUME NEW so \in SellerOrderIds, StartProcessing(so) PROVE SellerSide'
  <2> SUFFICES ASSUME NEW s \in SellerOrderIds
               PROVE  SellerBooks(s, status'[s], refunds'[s], ledger'[s])
    BY DEF SellerSide
  <2>. QED
    BY <1>1, <1>3 DEF StartProcessing, TypeOK, Absent
<1>4. ASSUME NEW so \in SellerOrderIds, Commit(so) PROVE SellerSide'
  <2> SUFFICES ASSUME NEW s \in SellerOrderIds
               PROVE  SellerBooks(s, status'[s], refunds'[s], ledger'[s])
    BY DEF SellerSide
  <2> DEFINE t == transaction[so]
  <2>1. t \in Transaction /\ t # NoTransaction
    BY <1>4, OpenTransaction DEF Commit, NoTransaction
  <2>2. /\ status[so] \in SellerOrderStatus /\ t.to \in Successors(status[so])
        /\ status[so] # "CANCELLED"
    BY <2>1, LockedCanMove DEF AggregateInv
  <2>3. t.to \in SellerOrderStatus /\ t.to # Absent /\ status[so] # Absent
    BY <2>1, <2>2 DEF Transaction, SellerOrderStatus, Absent
  <2>4. /\ status' = [status EXCEPT ![so] = t.to] /\ refunds' = refunds
        /\ t.to = "CANCELLED" => ReverseInLedger(so, Subtotal[so], Commission(so))
        /\ t.to # "CANCELLED" => ledger' = ledger
    BY <1>4 DEF Commit
  <2>5. CASE s # so
    <3>1. ledger'[s] = ledger[s] /\ status'[s] = status[s]
      BY <2>4, <2>5 DEF ReverseInLedger, TypeOK
    <3>. QED
      BY <1>1, <2>4, <3>1
  <2>6. CASE s = so /\ t.to # "CANCELLED"
    BY <1>1, <2>2, <2>3, <2>4, <2>6 DEF TypeOK
  <2>7. CASE s = so /\ t.to = "CANCELLED"
    <3>1. ledger[s] \in [LedgerEntryType -> Nat]
      BY DEF TypeOK
    <3>2. ledger'[s] = [ledger[s] EXCEPT !["SELLER_EARNING_REVERSAL"] = @ + Subtotal[s],
                                         !["PLATFORM_COMMISSION_REVERSAL"] = @ + Commission(s)]
      BY <2>4, <2>7 DEF ReverseInLedger, TypeOK
    <3>3. /\ ledger'[s]["SALE_CREDIT"] = ledger[s]["SALE_CREDIT"]
          /\ ledger'[s]["COMMISSION_DEBIT"] = ledger[s]["COMMISSION_DEBIT"]
          /\ ledger'[s]["SELLER_EARNING_REVERSAL"] =
                ledger[s]["SELLER_EARNING_REVERSAL"] + Subtotal[s]
          /\ ledger'[s]["PLATFORM_COMMISSION_REVERSAL"] =
                ledger[s]["PLATFORM_COMMISSION_REVERSAL"] + Commission(s)
      BY <3>1, <3>2 DEF LedgerEntryType
    <3>4. SellerBooks(s, status[s], refunds[s], ledger[s])
      BY DEF SellerSide
    <3>5. AmountIn(refunds[s]) \in Nat /\ CommissionIn(refunds[s]) \in Nat
      BY <3>4, BookTypes DEF SellerBooks
    <3>6. Subtotal[s] \in Nat /\ Commission(s) \in Nat
      BY ShapeAssumption, CommissionBounds
    <3>7. status'[s] = "CANCELLED" /\ status[s] # "CANCELLED" /\ status[s] # Absent
          /\ refunds'[s] = refunds[s]
      BY <2>2, <2>3, <2>4, <2>7 DEF TypeOK
    <3>8. "CANCELLED" # Absent
      BY DEF Absent
    <3>. QED
      BY <3>3, <3>4, <3>5, <3>6, <3>7, <3>8 DEF SellerBooks
  <2>. QED
    BY <2>5, <2>6, <2>7
<1>5. ASSUME NEW so \in SellerOrderIds, NEW k \in Keys, NEW i \in ItemsOf(so),
             NEW q \in 1..QuantityOf[i], CreateRefund(so, k, i, q)
      PROVE  SellerSide'
  <2> SUFFICES ASSUME NEW s \in SellerOrderIds
               PROVE  SellerBooks(s, status'[s], refunds'[s], ledger'[s])
    BY DEF SellerSide
  <2> DEFINE row == RefundOf(so, i, q)
  <2>1. /\ refunds' = [refunds EXCEPT ![so][k] = row]
        /\ ReverseInLedger(so, row.amount, row.commissionAdjustment)
        /\ status' = status
        /\ RefundAnswer(so, k, i, q) = "created"
    BY <1>5 DEF CreateRefund
  <2>2. CASE s # so
    <3>1. ledger'[s] = ledger[s] /\ status'[s] = status[s] /\ refunds'[s] = refunds[s]
      BY <2>1, <2>2 DEF ReverseInLedger, TypeOK
    <3>. QED
      BY <1>1, <3>1
  <2>3. CASE s = so
    <3>1. /\ status[s] \in RefundableFrom
          /\ ~(q > QuantityOf[i] - AlreadyRefundedQuantity(i))
          /\ k \notin RefundRows(s)
      BY <2>1, <2>3 DEF RefundAnswer
    <3>2. status[s] # "CANCELLED" /\ status[s] # Absent
      BY <3>1 DEF RefundableFrom, Absent
    <3>3. /\ RefundRows(s) = RowsOf(refunds[s])
          /\ AlreadyRefundedQuantity(i) = UnitsIn(refunds[s], i)
      BY <2>3, BookTotals
    <3>4. SellerBooks(s, status[s], refunds[s], ledger[s])
      BY DEF SellerSide
    <3>5. k \notin RowsOf(refunds[s]) /\ i \in ItemsOf(s)
      BY <2>3, <3>1, <3>3
    <3>6. q <= QuantityOf[i] - UnitsIn(refunds[s], i)
      <4>1. UnitsIn(refunds[s], i) \in Nat
        BY <3>4, BookTypes DEF SellerBooks
      <4>2. QuantityOf[i] \in Nat
        BY ShapeAssumption DEF ItemsOf
      <4>. QED
        BY <3>1, <3>3, <4>1, <4>2
    <3>7. row \in Refund
      BY RefundOfBounds
    <3>8. /\ refunds'[s] \in Books /\ refunds'[s][k] = RefundOf(s, i, q)
          /\ \A x \in Keys \ {k} : refunds'[s][x] = refunds[s][x]
      BY <2>1, <2>3 DEF TypeOK, Books
    <3>9. ledger[s] \in [LedgerEntryType -> Nat]
      BY DEF TypeOK
    <3>10. ledger'[s] = [ledger[s] EXCEPT
               !["SELLER_EARNING_REVERSAL"] = @ + row.amount,
               !["PLATFORM_COMMISSION_REVERSAL"] = @ + row.commissionAdjustment]
      BY <2>1, <2>3 DEF ReverseInLedger, TypeOK
    <3> HIDE DEF row
    <3>11. /\ ledger'[s]["SALE_CREDIT"] = ledger[s]["SALE_CREDIT"]
           /\ ledger'[s]["COMMISSION_DEBIT"] = ledger[s]["COMMISSION_DEBIT"]
           /\ ledger'[s]["SELLER_EARNING_REVERSAL"] =
                 ledger[s]["SELLER_EARNING_REVERSAL"] + row.amount
           /\ ledger'[s]["PLATFORM_COMMISSION_REVERSAL"] =
                 ledger[s]["PLATFORM_COMMISSION_REVERSAL"] + row.commissionAdjustment
      BY <3>9, <3>10 DEF LedgerEntryType
    <3>12. row = refunds'[s][k]
      BY <2>3, <3>8 DEF row
    <3>13. /\ ledger'[s]["SALE_CREDIT"] = ledger[s]["SALE_CREDIT"]
           /\ ledger'[s]["COMMISSION_DEBIT"] = ledger[s]["COMMISSION_DEBIT"]
           /\ ledger'[s]["SELLER_EARNING_REVERSAL"] =
                 ledger[s]["SELLER_EARNING_REVERSAL"] + refunds'[s][k].amount
           /\ ledger'[s]["PLATFORM_COMMISSION_REVERSAL"] =
                 ledger[s]["PLATFORM_COMMISSION_REVERSAL"]
                    + refunds'[s][k].commissionAdjustment
      BY <3>11, <3>12
    <3>14. SellerBooks(s, status[s], refunds'[s], ledger'[s])
      BY <3>2, <3>4, <3>5, <3>6, <3>8, <3>13, BooksAfterRefund
    <3>. QED
      BY <2>1, <3>14
  <2>. QED
    BY <2>2, <2>3
<1>6. CASE UNCHANGED <<status, refunds, ledger>>
  BY <1>6 DEF SellerSide
<1>. QED
  BY <1>2, <1>3, <1>4, <1>5, <1>6
     DEF Next, vars, Request, TransactionStep, UpdateStatus, Cancel, Lock, ReadSiblings,
         ReadParent, Rollback, DeleteProduct

-----------------------------------------------------------------------------
(* The books: the stock.                                                   *)

\* UnitsOut of a line, in terms of its seller order's status and book.
Out(i, st, book) ==
    IF st = Absent THEN 0
    ELSE QuantityOf[i] - UnitsIn(book, i) - IF st = "CANCELLED" THEN QuantityOf[i] ELSE 0

LinesOf(p) == {i \in Items : ProductOf[i] = p}

\* The lookup Out of a line's own seller order is its UnitsOut, before a step
\* and after it; what it subtracts is a number.
LEMMA OutBounds ==
    ASSUME TypeOK, SellerSide, NEW i \in Items
    PROVE  LET so == SellerOrderOf[i]
           IN  /\ so \in SellerOrderIds /\ i \in ItemsOf(so)
               /\ UnitsOut(i) = Out(i, status[so], refunds[so])
               /\ UnitsOut(i)' = Out(i, status'[so], refunds'[so])
               /\ UnitsOut(i) \in Int
               /\ UnitsIn(refunds[so], i) \in Nat /\ QuantityOf[i] \in Nat
<1> DEFINE so == SellerOrderOf[i]
<1>1. so \in SellerOrderIds /\ i \in ItemsOf(so) /\ QuantityOf[i] \in Nat
  BY ShapeAssumption DEF ItemsOf
<1>2. /\ AlreadyRefundedQuantity(i) = UnitsIn(refunds[so], i)
      /\ AlreadyRefundedQuantity(i)' = UnitsIn(refunds'[so], i)
  BY <1>1, BookTotals
<1>3. /\ UnitsOut(i) = Out(i, status[so], refunds[so])
      /\ UnitsOut(i)' = Out(i, status'[so], refunds'[so])
  BY <1>2 DEF UnitsOut, Out
<1>4. UnitsIn(refunds[so], i) \in Nat
  BY <1>1, BookTypes DEF SellerSide, SellerBooks
<1>. QED
  BY <1>1, <1>3, <1>4 DEF Out

\* The line of p among those of one order, if there is one.
LEMMA UnitsOfOneLine ==
    ASSUME NEW lines \in SUBSET Items, NEW p \in Products,
           \A i, j \in lines : ProductOf[i] = ProductOf[j] => i = j
    PROVE  \/ \E x \in lines : /\ ProductOf[x] = p /\ Units(lines, p) = QuantityOf[x]
                               /\ \A y \in lines : ProductOf[y] = p => y = x
           \/ Units(lines, p) = 0 /\ \A y \in lines : ProductOf[y] # p
<1>1. CASE \E i \in lines : ProductOf[i] = p
  <2>1. PICK i \in lines : i = CHOOSE j \in lines : ProductOf[j] = p
    BY <1>1
  <2>2. ProductOf[i] = p /\ Units(lines, p) = QuantityOf[i]
    BY <1>1, <2>1 DEF Units
  <2>. QED
    BY <2>2
<1>2. CASE ~ \E i \in lines : ProductOf[i] = p
  BY <1>2 DEF Units
<1>. QED
  BY <1>1, <1>2

\* The stock of a product stays explained if no line of it changes hands and
\* its stock stays, or one line does and the stock makes up for it.
LEMMA StockStaysExplained ==
    ASSUME TypeOK, TypeOK', SellerSide, SellerSide', NEW p \in Products,
           stock[p] + SumFunction([i \in LinesOf(p) |-> UnitsOut(i)]) = InitialStock[p],
           \/ /\ stock'[p] = stock[p]
              /\ \A i \in LinesOf(p) : UnitsOut(i)' = UnitsOut(i)
           \/ \E x \in LinesOf(p) :
                 /\ stock'[p] = stock[p] + (UnitsOut(x) - UnitsOut(x)')
                 /\ \A i \in LinesOf(p) \ {x} : UnitsOut(i)' = UnitsOut(i)
    PROVE  stock'[p] + SumFunction([i \in LinesOf(p) |-> UnitsOut(i)']) = InitialStock[p]
<1> DEFINE f == [i \in LinesOf(p) |-> UnitsOut(i)]
           g == [i \in LinesOf(p) |-> UnitsOut(i)']
<1>1. \A i \in LinesOf(p) : UnitsOut(i) \in Int /\ UnitsOut(i)' \in Int
  <2> SUFFICES ASSUME NEW i \in LinesOf(p) PROVE UnitsOut(i) \in Int /\ UnitsOut(i)' \in Int
    OBVIOUS
  <2>1. i \in Items /\ SellerOrderOf[i] \in SellerOrderIds
    BY ShapeAssumption DEF LinesOf
  <2>2. UnitsOut(i) \in Int /\ UnitsOut(i)' = Out(i, status'[SellerOrderOf[i]], refunds'[SellerOrderOf[i]])
        /\ QuantityOf[i] \in Nat
    BY <2>1, OutBounds
  <2>3. UnitsIn(refunds'[SellerOrderOf[i]], i) \in Nat
    BY <2>1, BookTypes DEF SellerSide, SellerBooks
  <2>. QED
    BY <2>2, <2>3 DEF Out
<1>2. IsFiniteSet(LinesOf(p))
  BY FiniteAssumption, FS_Subset DEF LinesOf
<1>3. stock[p] \in Int /\ stock'[p] \in Int
  BY DEF TypeOK
<1>4. CASE /\ stock'[p] = stock[p]
           /\ \A i \in LinesOf(p) : UnitsOut(i)' = UnitsOut(i)
  <2>1. f = g
    BY <1>4
  <2>. QED
    BY <1>4, <2>1, Zenon
<1>5. ASSUME NEW x \in LinesOf(p),
             stock'[p] = stock[p] + (UnitsOut(x) - UnitsOut(x)'),
             \A i \in LinesOf(p) \ {x} : UnitsOut(i)' = UnitsOut(i)
      PROVE  stock'[p] + SumFunction(g) = InitialStock[p]
  <2>1. DOMAIN f = LinesOf(p) /\ DOMAIN g = LinesOf(p)
    OBVIOUS
  <2>2. /\ \A i \in LinesOf(p) : f[i] = UnitsOut(i) /\ g[i] = UnitsOut(i)'
        /\ \A i \in LinesOf(p) : f[i] \in Int /\ g[i] \in Int
        /\ \A i \in LinesOf(p) \ {x} : g[i] = f[i]
    BY <1>1, <1>5
  <2>3. SumFunction(f) \in Int
    <3> HIDE DEF f
    <3>. QED
      BY <1>2, <2>1, <2>2, SumInt DEF SumFunction
  <2>4. stock[p] + SumFunction(f) = InitialStock[p]
    OBVIOUS
  <2> HIDE DEF f, g
  <2>5. SumFunction(g) = SumFunction(f) + (g[x] - f[x])
    BY <1>2, <2>1, <2>2, TotalChanged
  <2>6. f[x] \in Int /\ g[x] \in Int /\ stock'[p] = stock[p] + (f[x] - g[x])
    BY <1>5, <2>2
  <2>. QED
    BY <1>3, <2>3, <2>4, <2>5, <2>6
<1>. QED
  BY <1>4, <1>5

\* Every step that changes a stock or what is out of it changes both.
LEMMA StockStep ==
    ASSUME TypeOK, TypeOK', AggregateInv, SellerSide, SellerSide', StockExplained,
           [Next]_vars
    PROVE  StockExplained'
<1>1. SUFFICES
        ASSUME NEW p \in live'
        PROVE  \/ /\ stock'[p] = stock[p]
                  /\ \A i \in LinesOf(p) : UnitsOut(i)' = UnitsOut(i)
               \/ \E x \in LinesOf(p) :
                     /\ stock'[p] = stock[p] + (UnitsOut(x) - UnitsOut(x)')
                     /\ \A i \in LinesOf(p) \ {x} : UnitsOut(i)' = UnitsOut(i)
  <2>1. live' \subseteq live
    BY DEF Next, vars, Request, TransactionStep, PlaceOrder, StartProcessing, UpdateStatus,
           Cancel, Lock, ReadSiblings, ReadParent, Commit, Rollback, CreateRefund,
           DeleteProduct
  <2>2. ASSUME NEW p \in live'
        PROVE  /\ p \in Products
               /\ stock[p] + SumFunction([i \in LinesOf(p) |-> UnitsOut(i)]) = InitialStock[p]
    BY <2>1 DEF StockExplained, LinesOf, TypeOK
  <2>. QED
    BY <2>2, StockStaysExplained DEF StockExplained, LinesOf
<1>2. p \in Products /\ p \in live /\ stock[p] \in Nat
  BY DEF TypeOK, Next, vars, Request, TransactionStep, PlaceOrder, StartProcessing, UpdateStatus,
         Cancel, Lock, ReadSiblings, ReadParent, Commit, Rollback, CreateRefund,
         DeleteProduct
<1> DEFINE Same(i) == UnitsOut(i)' = UnitsOut(i)
<1>3. ASSUME NEW i \in LinesOf(p), refunds'[SellerOrderOf[i]] = refunds[SellerOrderOf[i]],
             \/ status'[SellerOrderOf[i]] = status[SellerOrderOf[i]]
             \/ /\ status[SellerOrderOf[i]] \notin {Absent, "CANCELLED"}
                /\ status'[SellerOrderOf[i]] \notin {Absent, "CANCELLED"}
      PROVE  Same(i)
  BY <1>3, OutBounds DEF Out, LinesOf
<1>4. ASSUME NEW o \in Orders, PlaceOrder(o)
      PROVE  \/ stock'[p] = stock[p] /\ \A i \in LinesOf(p) : Same(i)
             \/ \E x \in LinesOf(p) :
                   /\ stock'[p] = stock[p] + (UnitsOut(x) - UnitsOut(x)')
                   /\ \A i \in LinesOf(p) \ {x} : Same(i)
  <2> DEFINE lines == {i \in Items : OrderOf[SellerOrderOf[i]] = o}
  <2>1. /\ stock'[p] = stock[p] - Units(lines, p) /\ refunds' = refunds
        /\ \A so \in SellerOrderIds :
              status'[so] = IF OrderOf[so] = o THEN "AWAITING_FULFILLMENT" ELSE status[so]
        /\ orderStatus[o] = Absent
    BY <1>2, <1>4 DEF PlaceOrder
  <2>2. \A i \in LinesOf(p) \ lines : Same(i)
    <3> SUFFICES ASSUME NEW i \in LinesOf(p) \ lines PROVE Same(i)
      OBVIOUS
    <3>1. /\ SellerOrderOf[i] \in SellerOrderIds /\ i \in LinesOf(p)
          /\ OrderOf[SellerOrderOf[i]] # o
      BY ShapeAssumption DEF LinesOf
    <3>. QED
      BY <1>3, <2>1, <3>1
  <2>3. lines \in SUBSET Items
    OBVIOUS
  <2>4. \A i, j \in lines : ProductOf[i] = ProductOf[j] => i = j
    BY CheckoutAssumption
  <2> HIDE DEF lines
  <2>5. CASE Units(lines, p) = 0 /\ \A y \in lines : ProductOf[y] # p
    BY <1>2, <2>1, <2>2, <2>5 DEF LinesOf
  <2>6. ASSUME NEW x \in lines, ProductOf[x] = p, Units(lines, p) = QuantityOf[x],
               \A y \in lines : ProductOf[y] = p => y = x
        PROVE  /\ x \in LinesOf(p)
               /\ stock'[p] = stock[p] + (UnitsOut(x) - UnitsOut(x)')
               /\ \A i \in LinesOf(p) \ {x} : Same(i)
    <3>1. x \in LinesOf(p) /\ x \in Items
      BY <2>3, <2>6 DEF LinesOf
    <3>2. \A i \in LinesOf(p) \ {x} : i \in LinesOf(p) \ lines
      BY <2>6 DEF LinesOf
    <3>3. OrderOf[SellerOrderOf[x]] = o /\ SellerOrderOf[x] \in SellerOrderIds
      BY <3>1, ShapeAssumption DEF lines
    <3>4. status[SellerOrderOf[x]] = Absent
      BY <2>1, <3>3 DEF AggregateInv, PlacedTogether
    <3>5. RowsOf(refunds[SellerOrderOf[x]]) = {}
      BY <3>3, <3>4 DEF SellerSide, SellerBooks
    <3>6. UnitsIn(refunds[SellerOrderOf[x]], x) = 0
      BY <3>5, EmptyBook
    <3>7. /\ UnitsOut(x) = Out(x, status[SellerOrderOf[x]], refunds[SellerOrderOf[x]])
          /\ UnitsOut(x)' = Out(x, status'[SellerOrderOf[x]], refunds'[SellerOrderOf[x]])
          /\ QuantityOf[x] \in Nat
      BY <3>1, OutBounds
    <3>8. status'[SellerOrderOf[x]] = "AWAITING_FULFILLMENT" /\ refunds' = refunds
      BY <2>1, <3>3
    <3>9. UnitsOut(x) = 0 /\ UnitsOut(x)' = QuantityOf[x]
      BY <3>4, <3>6, <3>7, <3>8 DEF Out, Absent
    <3>10. stock'[p] = stock[p] + (UnitsOut(x) - UnitsOut(x)')
      BY <1>2, <2>1, <2>6, <3>7, <3>9
    <3>. QED
      BY <2>2, <3>1, <3>2, <3>10
  <2>. QED
    BY <1>2, <2>3, <2>4, <2>5, <2>6, UnitsOfOneLine
<1>5. ASSUME NEW so \in SellerOrderIds, StartProcessing(so)
      PROVE  stock'[p] = stock[p] /\ \A i \in LinesOf(p) : Same(i)
  <2> SUFFICES ASSUME NEW i \in LinesOf(p) PROVE Same(i)
    BY <1>5 DEF StartProcessing
  <2>1. SellerOrderOf[i] \in SellerOrderIds
    BY ShapeAssumption DEF LinesOf
  <2>. QED
    BY <1>3, <1>5, <2>1 DEF StartProcessing, TypeOK, Absent
<1>6. ASSUME NEW so \in SellerOrderIds, Commit(so)
      PROVE  \/ stock'[p] = stock[p] /\ \A i \in LinesOf(p) : Same(i)
             \/ \E x \in LinesOf(p) :
                   /\ stock'[p] = stock[p] + (UnitsOut(x) - UnitsOut(x)')
                   /\ \A i \in LinesOf(p) \ {x} : Same(i)
  <2> DEFINE t == transaction[so]
  <2>1. t \in Transaction /\ t # NoTransaction
    BY <1>6, OpenTransaction DEF Commit, NoTransaction
  <2>2. /\ status[so] \in SellerOrderStatus /\ t.to \in Successors(status[so])
        /\ status[so] # "CANCELLED"
    BY <2>1, LockedCanMove DEF AggregateInv
  <2>3. t.to \in SellerOrderStatus /\ t.to # Absent /\ status[so] # Absent
    BY <2>1, <2>2 DEF Transaction, SellerOrderStatus, Absent
  <2>4. status' = [status EXCEPT ![so] = t.to] /\ refunds' = refunds
    BY <1>6 DEF Commit
  <2>5. \A i \in LinesOf(p) \ ItemsOf(so) : Same(i)
    <3> SUFFICES ASSUME NEW i \in LinesOf(p) \ ItemsOf(so) PROVE Same(i)
      OBVIOUS
    <3>1. SellerOrderOf[i] \in SellerOrderIds /\ SellerOrderOf[i] # so /\ i \in LinesOf(p)
      BY ShapeAssumption DEF LinesOf, ItemsOf
    <3>2. status'[SellerOrderOf[i]] = status[SellerOrderOf[i]]
      BY <2>4, <3>1 DEF TypeOK
    <3>. QED
      BY <1>3, <2>4, <3>1, <3>2
  <2>6. status'[so] = t.to
    BY <2>4 DEF TypeOK
  <2>7. CASE t.to # "CANCELLED"
    <3>1. stock' = stock
      BY <1>6, <2>7 DEF Commit
    <3>2. \A i \in LinesOf(p) \cap ItemsOf(so) : Same(i)
      <4> SUFFICES ASSUME NEW i \in LinesOf(p) \cap ItemsOf(so) PROVE Same(i)
        OBVIOUS
      <4>1. SellerOrderOf[i] = so /\ i \in LinesOf(p)
        BY DEF ItemsOf
      <4>. QED
        BY <1>3, <2>2, <2>3, <2>4, <2>6, <2>7, <4>1
    <3>. QED
      BY <2>5, <3>1, <3>2
  <2>8. CASE t.to = "CANCELLED"
    <3> DEFINE lines == ItemsOf(so)
    <3>1. stock'[p] = stock[p] + Units(lines, p)
      BY <1>2, <1>6, <2>8 DEF Commit, RestoreProductStock
    <3>2. lines \in SUBSET Items /\ \A i, j \in lines : ProductOf[i] = ProductOf[j] => i = j
      BY CheckoutAssumption DEF ItemsOf
    <3> HIDE DEF lines
    <3>3. CASE Units(lines, p) = 0 /\ \A y \in lines : ProductOf[y] # p
      <4>1. \A i \in LinesOf(p) : i \in LinesOf(p) \ ItemsOf(so)
        BY <3>3 DEF LinesOf, lines
      <4>. QED
        BY <1>2, <2>5, <3>1, <3>3, <4>1
    <3>4. ASSUME NEW x \in lines, ProductOf[x] = p, Units(lines, p) = QuantityOf[x],
                 \A y \in lines : ProductOf[y] = p => y = x
          PROVE  /\ x \in LinesOf(p)
                 /\ stock'[p] = stock[p] + (UnitsOut(x) - UnitsOut(x)')
                 /\ \A i \in LinesOf(p) \ {x} : Same(i)
      <4>1. x \in LinesOf(p) /\ x \in Items /\ SellerOrderOf[x] = so
        BY <3>2, <3>4 DEF LinesOf, lines, ItemsOf
      <4>2. \A i \in LinesOf(p) \ {x} : i \in LinesOf(p) \ ItemsOf(so)
        BY <3>4 DEF LinesOf, lines
      <4>3. /\ UnitsOut(x) = Out(x, status[so], refunds[so])
            /\ UnitsOut(x)' = Out(x, status'[so], refunds'[so])
            /\ QuantityOf[x] \in Nat /\ UnitsIn(refunds[so], x) \in Nat
        BY <4>1, OutBounds
      <4>4. /\ UnitsOut(x) = QuantityOf[x] - UnitsIn(refunds[so], x)
            /\ UnitsOut(x)' = QuantityOf[x] - UnitsIn(refunds[so], x) - QuantityOf[x]
        BY <2>2, <2>3, <2>4, <2>6, <2>8, <4>3 DEF Out, Absent
      <4>5. stock'[p] = stock[p] + (UnitsOut(x) - UnitsOut(x)')
        BY <1>2, <3>1, <3>4, <4>3, <4>4
      <4>. QED
        BY <2>5, <4>1, <4>2, <4>5
    <3>. QED
      BY <1>2, <3>2, <3>3, <3>4, UnitsOfOneLine
  <2>. QED
    BY <2>7, <2>8
<1>7. ASSUME NEW so \in SellerOrderIds, NEW k \in Keys, NEW i \in ItemsOf(so),
             NEW q \in 1..QuantityOf[i], CreateRefund(so, k, i, q)
      PROVE  \/ stock'[p] = stock[p] /\ \A j \in LinesOf(p) : Same(j)
             \/ \E x \in LinesOf(p) :
                   /\ stock'[p] = stock[p] + (UnitsOut(x) - UnitsOut(x)')
                   /\ \A j \in LinesOf(p) \ {x} : Same(j)
  <2> DEFINE row == RefundOf(so, i, q)
  <2>1. /\ refunds' = [refunds EXCEPT ![so][k] = row] /\ status' = status
        /\ RefundAnswer(so, k, i, q) = "created"
        /\ stock'[p] = IF p = ProductOf[i] THEN stock[p] + q ELSE stock[p] + 0
    BY <1>2, <1>7 DEF CreateRefund, RestoreProductStock
  <2>2. status[so] \in RefundableFrom /\ k \notin RowsOf(refunds[so])
    BY <2>1, BookTotals DEF RefundAnswer
  <2>3. status[so] # Absent /\ status[so] # "CANCELLED"
    BY <2>2 DEF RefundableFrom, Absent
  <2>4. row \in Refund /\ row.item = i /\ row.quantity = q
    BY RefundShares
  <2>5. /\ refunds[so] \in Books /\ IsFiniteSet(RowsOf(refunds[so]))
        /\ refunds'[so] \in Books /\ refunds'[so][k] = row
        /\ \A x \in Keys \ {k} : refunds'[so][x] = refunds[so][x]
        /\ \A s \in SellerOrderIds \ {so} : refunds'[s] = refunds[s]
    <3>1. refunds \in [SellerOrderIds -> Books] /\ refunds' \in [SellerOrderIds -> Books]
      BY DEF SellerSide, TypeOK, Books
    <3>2. IsFiniteSet(RowsOf(refunds[so]))
      BY DEF SellerSide, SellerBooks
    <3> HIDE DEF row
    <3>3. refunds' = [refunds EXCEPT ![so] = [refunds[so] EXCEPT ![k] = row]]
      BY <2>1
    <3>4. refunds[so] \in [Keys -> Refund \cup {NoRefund}]
      BY <3>1 DEF Books
    <3>. QED
      BY <3>1, <3>2, <3>3, <3>4
  <2> HIDE DEF row
  <2>6. \A j : UnitsIn(refunds'[so], j) =
                  UnitsIn(refunds[so], j) + (IF row.item = j THEN row.quantity ELSE 0)
    BY <2>2, <2>4, <2>5, RowAdded
  <2>7. \A j \in LinesOf(p) \ {i} : Same(j)
    <3> SUFFICES ASSUME NEW j \in LinesOf(p) \ {i} PROVE Same(j)
      OBVIOUS
    <3>1. j \in Items /\ SellerOrderOf[j] \in SellerOrderIds /\ j \in LinesOf(p)
      BY ShapeAssumption DEF LinesOf
    <3>2. CASE SellerOrderOf[j] # so
      BY <1>3, <2>1, <2>5, <3>1, <3>2
    <3>3. CASE SellerOrderOf[j] = so
      <4>1. UnitsIn(refunds'[so], j) = UnitsIn(refunds[so], j) + 0
        BY <2>4, <2>6
      <4>2. UnitsIn(refunds[so], j) \in Nat
        BY <3>1, <3>3, OutBounds
      <4>3. UnitsIn(refunds'[so], j) = UnitsIn(refunds[so], j)
        BY <4>1, <4>2
      <4>. QED
        BY <2>1, <3>1, <3>3, <4>3, OutBounds DEF Out
    <3>. QED
      BY <3>2, <3>3
  <2>8. i \in Items /\ SellerOrderOf[i] = so /\ q \in Nat /\ QuantityOf[i] \in Nat
    BY ShapeAssumption DEF ItemsOf
  <2>9. CASE p # ProductOf[i]
    <3>1. i \notin LinesOf(p)
      BY <2>9 DEF LinesOf
    <3>. QED
      BY <1>2, <2>1, <2>7, <2>9, <3>1
  <2>10. CASE p = ProductOf[i]
    <3>1. i \in LinesOf(p)
      BY <2>8, <2>10 DEF LinesOf
    <3>2. /\ UnitsOut(i) = Out(i, status[so], refunds[so])
          /\ UnitsOut(i)' = Out(i, status'[so], refunds'[so])
          /\ UnitsIn(refunds[so], i) \in Nat
      BY <2>8, OutBounds
    <3>3. /\ UnitsOut(i) = QuantityOf[i] - UnitsIn(refunds[so], i) - 0
          /\ UnitsOut(i)' = QuantityOf[i] - (UnitsIn(refunds[so], i) + q) - 0
      BY <2>1, <2>3, <2>4, <2>6, <3>2 DEF Out
    <3>4. stock'[p] = stock[p] + (UnitsOut(i) - UnitsOut(i)')
      BY <1>2, <2>1, <2>8, <2>10, <3>2, <3>3
    <3>. QED
      BY <2>7, <3>1, <3>4
  <2>. QED
    BY <2>9, <2>10
<1>8. CASE UNCHANGED <<status, refunds, stock>>
  <2> SUFFICES ASSUME NEW i \in LinesOf(p) PROVE Same(i)
    BY <1>8
  <2>. QED
    BY <1>3, <1>8
<1>. QED
  BY <1>4, <1>5, <1>6, <1>7, <1>8
     DEF Next, vars, Request, TransactionStep, UpdateStatus, Cancel, Lock, ReadSiblings,
         ReadParent, Rollback, DeleteProduct

\* The inductive invariant of the books.
LEMMA BooksInvariant == Spec => [](SellerSide /\ StockExplained)
<1>1. Init => SellerSide /\ StockExplained
  <2> SUFFICES ASSUME Init PROVE SellerSide /\ StockExplained
    OBVIOUS
  <2>1. SellerSide
    <3> SUFFICES ASSUME NEW so \in SellerOrderIds
                 PROVE  SellerBooks(so, status[so], refunds[so], ledger[so])
      BY DEF SellerSide
    <3>1. /\ status[so] = Absent /\ refunds[so] = [k \in Keys |-> NoRefund]
          /\ ledger[so] = [t \in LedgerEntryType |-> 0]
      BY DEF Init
    <3>2. refunds[so] \in Books /\ RowsOf(refunds[so]) = {}
      BY <3>1 DEF Books, RowsOf
    <3>3. \A t \in LedgerEntryType : ledger[so][t] = 0
      BY <3>1
    <3>4. /\ ledger[so]["SALE_CREDIT"] = 0 /\ ledger[so]["COMMISSION_DEBIT"] = 0
          /\ ledger[so]["SELLER_EARNING_REVERSAL"] = 0
          /\ ledger[so]["PLATFORM_COMMISSION_REVERSAL"] = 0
      BY <3>3 DEF LedgerEntryType
    <3>5. Absent # "CANCELLED"
      BY DEF Absent
    <3>. QED
      BY <3>1, <3>2, <3>4, <3>5, BooksWithoutRefunds
  <2>2. StockExplained
    <3> SUFFICES ASSUME NEW p \in live
                 PROVE  stock[p] + SumFunction([i \in LinesOf(p) |-> UnitsOut(i)])
                            = InitialStock[p]
      BY DEF StockExplained, LinesOf
    <3> DEFINE f == [i \in LinesOf(p) |-> UnitsOut(i)]
    <3>1. \A i \in LinesOf(p) : UnitsOut(i) = 0
      BY ShapeAssumption DEF Init, UnitsOut, LinesOf
    <3>2. IsFiniteSet(DOMAIN f) /\ \A i \in DOMAIN f : f[i] = 0
      BY <3>1, FiniteAssumption, FS_Subset DEF LinesOf
    <3> HIDE DEF f
    <3>3. SumFunction(f) = 0
      BY <3>2, TotalZero
    <3>4. stock[p] = InitialStock[p] /\ InitialStock[p] \in Nat
      BY ShapeAssumption DEF Init
    <3>. QED
      BY <3>3, <3>4 DEF f
  <2>. QED
    BY <2>1, <2>2
<1>2. TypeOK /\ TypeOK' /\ AggregateInv /\ (SellerSide /\ StockExplained) /\ [Next]_vars
        => (SellerSide /\ StockExplained)'
  BY SellerSideStep, StockStep
<1>. QED
  BY <1>1, <1>2, TypeCorrect, AggregateInvariant, PTL DEF Spec

\* Every ledger row is accounted for by the sale, a refund row or the one
\* cancellation, whatever requests are retried or race for the row lock.
THEOREM LedgerCorrect == Spec => []LedgerExplained
<1>1. TypeOK /\ SellerSide /\ RefundSplitSound => LedgerExplained
  BY SellerSideSuffices
<1>. QED
  BY <1>1, TypeCorrect, BooksInvariant, RefundSplitCorrect, PTL

\* Stock comes back once: what is left of a product and what its customers
\* hold, by the code's own books, is what there was.
THEOREM StockCorrect == Spec => []StockExplained
  BY BooksInvariant, PTL

\* Refunds give back at most what was bought and what was paid, and the
\* commission to within half a cent a refund, for any prices, rates and order
\* of the requests.
THEOREM RefundsCorrect == Spec => []RefundsBounded
<1>1. TypeOK /\ SellerSide /\ RefundSplitSound => RefundsBounded
  BY SellerSideSuffices
<1>. QED
  BY <1>1, TypeCorrect, BooksInvariant, RefundSplitCorrect, PTL

-----------------------------------------------------------------------------
(* The job that starts fulfilment.                                         *)

\* The job adds no step to a seller order that SellerOrders does not have: its
\* theorems hold of the seller orders of Fulfilment, however attempts fail.
THEOREM FulfilmentImplements == FulfilmentSpec => Spec
<1>1. FulfilmentInit => Init
  BY DEF FulfilmentInit
<1>2. [FulfilmentNext]_fulfilmentVars => [Next]_vars
  <2> SUFFICES ASSUME [FulfilmentNext]_fulfilmentVars PROVE [Next]_vars
    OBVIOUS
  <2>1. ASSUME NEW o \in Orders, Place(o) PROVE Next
    BY <2>1 DEF Place, Next
  <2>2. ASSUME NEW so \in SellerOrderIds, JobStep(so) PROVE Next \/ UNCHANGED vars
    BY <2>2 DEF JobStep, Replay, FailAttempt, Process, Next
  <2>3. ASSUME NEW so \in SellerOrderIds, Request(so) PROVE Next
    BY <2>3 DEF Next
  <2>4. ASSUME NEW p \in Deletable, DeleteProduct(p) PROVE Next
    BY <2>4 DEF Next
  <2>5. CASE UNCHANGED fulfilmentVars
    BY <2>5 DEF fulfilmentVars
  <2>. QED
    BY <2>1, <2>2, <2>3, <2>4, <2>5 DEF FulfilmentNext
<1>. QED
  BY <1>1, <1>2, PTL DEF FulfilmentSpec, Spec

\* What a request does to a seller order never brings it back to wait for its
\* job: only a transaction that may move the row commits.
LEMMA RequestMovesOn ==
    ASSUME TypeOK, AggregateInv, NEW so \in SellerOrderIds, Request(so)
    PROVE  \A s \in SellerOrderIds :
              status'[s] = "AWAITING_FULFILLMENT" => status[s] = "AWAITING_FULFILLMENT"
<1>1. CASE Commit(so)
  <2>1. transaction[so] # NoTransaction
    BY <1>1 DEF Commit, NoTransaction
  <2>2. status[so] \in SellerOrderStatus /\ transaction[so].to \in Successors(status[so])
    BY <2>1, LockedCanMove DEF AggregateInv
  <2>3. transaction[so].to # "AWAITING_FULFILLMENT"
    BY <2>2 DEF Successors, ForwardTransitions, SellerOrderStatus
  <2>4. status' = [status EXCEPT ![so] = transaction[so].to]
    BY <1>1 DEF Commit
  <2>. QED
    BY <2>3, <2>4 DEF TypeOK
<1>2. CASE UNCHANGED status
  BY <1>2
<1>. QED
  BY <1>1, <1>2 DEF Request, TransactionStep, UpdateStatus, Cancel, Lock,
                    ReadSiblings, ReadParent, Rollback, CreateRefund

\* The start of a placed seller order is not forgotten: while it awaits
\* fulfilment its job is still to come or has failed for good, whatever attempts
\* fail before or after their commit and whatever requests race for the row.
THEOREM StartRemembered == FulfilmentSpec => []StartNotForgotten
<1>. DEFINE JobInv == job \in [SellerOrderIds -> JobState] /\ StartNotForgotten
<1>1. FulfilmentInit => JobInv
  BY DEF FulfilmentInit, Init, StartNotForgotten, JobState, Absent
<1>2. TypeOK /\ AggregateInv /\ JobInv /\ [FulfilmentNext]_fulfilmentVars => JobInv'
  <2> SUFFICES ASSUME TypeOK, AggregateInv, JobInv, [FulfilmentNext]_fulfilmentVars
               PROVE  JobInv'
    OBVIOUS
  <2>1. ASSUME NEW o \in Orders, Place(o) PROVE JobInv'
    BY <2>1 DEF Place, PlaceOrder, StartNotForgotten, JobState
  <2>2. ASSUME NEW so \in SellerOrderIds, Replay(so) PROVE JobInv'
    BY <2>2 DEF Replay, vars, StartNotForgotten, JobState
  <2>3. ASSUME NEW so \in SellerOrderIds, Throw(so)
        PROVE  /\ job' \in [SellerOrderIds -> JobState]
               /\ job'[so] \in {"waiting", "failed"}
               /\ \A s \in SellerOrderIds : s # so => job'[s] = job[s]
    BY <2>3 DEF Throw, JobState
  <2>4. ASSUME NEW so \in SellerOrderIds, FailAttempt(so) PROVE JobInv'
    BY <2>3, <2>4 DEF FailAttempt, vars, StartNotForgotten
  <2>5. ASSUME NEW so \in SellerOrderIds, Process(so) PROVE JobInv'
    <3>1. /\ status'[so] # "AWAITING_FULFILLMENT"
          /\ \A s \in SellerOrderIds : s # so => status'[s] = status[s]
      BY <2>5 DEF Process, StartProcessing, vars, TypeOK
    <3>2. CASE job' = [job EXCEPT ![so] = "completed"] /\ UNCHANGED attempts
      BY <2>5, <3>1, <3>2 DEF Process, StartNotForgotten, JobState
    <3>3. CASE Throw(so)
      BY <2>3, <2>5, <3>1, <3>3 DEF Process, StartNotForgotten
    <3>. QED
      BY <2>5, <3>2, <3>3 DEF Process
  <2>6. ASSUME NEW so \in SellerOrderIds, Request(so), UNCHANGED <<job, attempts>>
        PROVE  JobInv'
    BY <2>6, RequestMovesOn DEF StartNotForgotten
  <2>7. ASSUME NEW p \in Deletable, DeleteProduct(p), UNCHANGED <<job, attempts>>
        PROVE  JobInv'
    BY <2>7 DEF DeleteProduct, StartNotForgotten
  <2>8. CASE UNCHANGED fulfilmentVars
    BY <2>8 DEF fulfilmentVars, vars, StartNotForgotten
  <2>. QED
    BY <2>1, <2>2, <2>4, <2>5, <2>6, <2>7, <2>8 DEF FulfilmentNext, JobStep
<1>. QED
  BY <1>1, <1>2, TypeCorrect, AggregateInvariant, FulfilmentImplements, PTL
     DEF FulfilmentSpec
=============================================================================
