------------------------------ MODULE Checkout ------------------------------
(***************************************************************************)
(* CheckoutService and CartService: carts that change while they are being *)
(* checked out, checkout requests that are duplicated and retried under an *)
(* idempotency key, and the guarded stock decrements by which the orders   *)
(* of different customers compete for the same products.                   *)
(*                                                                         *)
(* A checkout is one READ COMMITTED transaction.  Its first statement      *)
(* inserts the idempotency key, where a duplicate blocks on the unique     *)
(* index until the transaction that holds the key has ended; then it reads *)
(* the cart, and each guarded UPDATE takes and keeps the row lock of its   *)
(* product.  Each of these is a step.  What follows touches rows no other  *)
(* transaction can reach (the order, its seller orders, ledger entries and *)
(* outbox events) or becomes visible only at the commit, so the rest is    *)
(* one step.  SellerOrders continues from the committed order.             *)
(***************************************************************************)
EXTENDS Naturals, FiniteSetsExt

CONSTANTS
    Customers, Products, Keys,
    Requests,       \* POST /cart/checkout requests; an order has its request's id
    CustomerOf,     \* the customer who sends a request
    InitialCart,    \* the carts as filled before
    Shopping,       \* the customers who change their carts meanwhile (a bound)
    KeysOf,         \* the keys a request may carry (a bound)
    InitialStock,
    LockOrder,      \* the rank of a product's id
    MaxQuantity,    \* a bound on the units of a cart line
    Editable        \* the products whose seller edits them (a bound)

NoOrder == [customer |-> "none"]
Free == "Free"

ASSUME CheckoutShape ==
    /\ Requests \cap {Free, "none", "refused", "lost"} = {}
    /\ Keys # {}
    /\ IsFiniteSet(Products)
    /\ CustomerOf \in [Requests -> Customers]
    /\ KeysOf \in [Requests -> SUBSET Keys]
    /\ InitialStock \in [Products -> Nat]
    /\ LockOrder \in [Products -> 1..Cardinality(Products)]
    /\ \A p, q \in Products : LockOrder[p] = LockOrder[q] => p = q
    /\ MaxQuantity \in Nat
    /\ InitialCart \in [Customers -> [Products -> 0..MaxQuantity]]
    /\ Shopping \subseteq Customers
    /\ Editable \subseteq Products

NoLines == [p \in Products |-> 0]
Lines == [Products -> 0..MaxQuantity]

VARIABLES
    stock,      \* committed Product.stockQuantity
    published,  \* products that assertPurchasable accepts
    edit,       \* the stockQuantity an open edit of the product has read
    cart,       \* CartItem.quantity by customer and product, 0 for no row
    keyRow,     \* orderId of the COMPLETED CheckoutIdempotencyKey rows
    order,      \* the committed order of a request: its customer, key, lines
    request     \* the progress of a request and its answer

vars == <<stock, published, edit, cart, keyRow, order, request>>

Order == [customer : Customers, key : Keys, lines : Lines]

\* sent: waits for its key.  claimed: the key is inserted.  decrementing: the cart is
\* read and the products in `done` are locked.  committed: not answered yet.
Request == [phase : {"new", "sent", "claimed", "decrementing", "committed",
                      "answered"},
            key : Keys, lines : Lines, done : SUBSET Products,
            answer : Requests \cup {"none", "refused", "lost"}]

TypeOK ==
    /\ stock \in [Products -> Nat]
    /\ published \subseteq Products
    /\ edit \in [Products -> SUBSET Nat]
    /\ cart \in [Customers -> Lines]
    /\ keyRow \in [Customers -> [Keys -> Requests \cup {Free}]]
    /\ order \in [Requests -> Order \cup {NoOrder}]
    /\ request \in [Requests -> Request]

Init ==
    /\ stock = InitialStock
    /\ published = Products
    /\ edit = [p \in Products |-> {}]
    /\ cart = InitialCart
    /\ keyRow = [c \in Customers |-> [k \in Keys |-> Free]]
    /\ order = [r \in Requests |-> NoOrder]
    /\ request = [r \in Requests |->
          [phase |-> "new", key |-> CHOOSE k \in Keys : TRUE, lines |-> NoLines,
           done |-> {}, answer |-> "none"]]

-----------------------------------------------------------------------------
(* The cart.                                                               *)

\* The write that ends addItem, updateItemQuantity, removeItem (0).  The quantity
\* was computed and checked against the stock from unlocked reads that may be
\* old by now (and a save inserts a row again that was deleted in between), so
\* whatever the row and the stock are, it can be any.
WriteCartItem(c, p, quantity) ==
    /\ cart' = [cart EXCEPT ![c][p] = quantity]
    /\ UNCHANGED <<stock, published, edit, keyRow, order, request>>

ClearCart(c) ==
    /\ cart' = [cart EXCEPT ![c] = NoLines]
    /\ UNCHANGED <<stock, published, edit, keyRow, order, request>>

-----------------------------------------------------------------------------
(* A checkout request.                                                     *)

InTransaction(r) == request[r].phase \in {"claimed", "decrementing"}

\* A row lock is held from the guarded UPDATE to the end of the transaction.
Locks(r) == IF request[r].phase = "decrementing" THEN request[r].done ELSE {}

\* The key is inserted and neither committed nor rolled back.
Claims(r, c, k) == InTransaction(r) /\ CustomerOf[r] = c /\ request[r].key = k

Undecremented(r) == {p \in Products : request[r].lines[p] > 0} \ request[r].done

\* Mutant: the lines are decremented in the order they were added.
MayDecrementNext_AnyOrder(r, p) ==
    /\ request[r].phase = "decrementing"
    /\ p \in Undecremented(r)

\* The items are read ORDER BY productId and decremented in that order.
MayDecrementNext(r, p) ==
    /\ request[r].phase = "decrementing"
    /\ p \in Undecremented(r)
    /\ \A q \in Undecremented(r) : LockOrder[p] <= LockOrder[q]

\* A first attempt, or another with the key of an earlier one.
Send(r, k) ==
    /\ request[r].phase = "new"
    /\ request' = [request EXCEPT ![r].phase = "sent", ![r].key = k]
    /\ UNCHANGED <<stock, published, edit, cart, keyRow, order>>

\* Mutant: the key is looked up instead of inserted under a unique index.
ClaimKey_NoIndex(r) ==
    /\ request[r].phase = "sent"
    /\ keyRow[CustomerOf[r]][request[r].key] = Free
    /\ request' = [request EXCEPT ![r].phase = "claimed"]
    /\ UNCHANGED <<stock, published, edit, cart, keyRow, order>>

\* The insert waits while another transaction holds the key.
ClaimKey(r) ==
    LET c == CustomerOf[r]
        k == request[r].key
    IN  /\ request[r].phase = "sent"
        /\ ~ \E s \in Requests : Claims(s, c, k)
        /\ keyRow[c][k] = Free
        /\ request' = [request EXCEPT ![r].phase = "claimed"]
        /\ UNCHANGED <<stock, published, edit, cart, keyRow, order>>

Answered(r, answer) ==
    [request EXCEPT ![r].phase = "answered", ![r].answer = answer,
                    ![r].lines = NoLines, ![r].done = {}]

\* Mutant: the completed key is looked up without its customer.
Replay_AnyCustomer(r) ==
    /\ request[r].phase = "sent"
    /\ \E c \in Customers :
          /\ keyRow[c][request[r].key] # Free
          /\ request' = Answered(r, keyRow[c][request[r].key])
    /\ UNCHANGED <<stock, published, edit, cart, keyRow, order>>

\* The insert met a committed key: replayCompletedCheckout.
Replay(r) ==
    LET existing == keyRow[CustomerOf[r]][request[r].key]
    IN  /\ request[r].phase = "sent"
        /\ existing # Free
        /\ request' = Answered(r, existing)
        /\ UNCHANGED <<stock, published, edit, cart, keyRow, order>>

\* Mutant: an empty cart returns without ending the transaction.
ReadCart_LeaksTransaction(r) ==
    LET lines == cart[CustomerOf[r]]
    IN  /\ request[r].phase = "claimed"
        /\ lines # NoLines
        /\ request' = [request EXCEPT ![r].phase = "decrementing", ![r].lines = lines]
        /\ UNCHANGED <<stock, published, edit, cart, keyRow, order>>

\* Reads the cart's items with their products; an empty cart or a product that
\* is not for sale any more rolls the transaction back.
ReadCart(r) ==
    LET lines == cart[CustomerOf[r]]
        items == {p \in Products : lines[p] > 0}
    IN  /\ request[r].phase = "claimed"
        /\ request' = IF items # {} /\ items \subseteq published
                      THEN [request EXCEPT ![r].phase = "decrementing",
                                           ![r].lines = lines]
                      ELSE Answered(r, "refused")
        /\ UNCHANGED <<stock, published, edit, cart, keyRow, order>>

Available(r, p) == stock[p] >= request[r].lines[p]

\* The guarded UPDATE of one line waits for the row lock of its product.  It
\* counts on commit; until then nobody else can change the row.
Decrement(r, p) ==
    /\ MayDecrementNext(r, p)
    /\ \A s \in Requests \ {r} : p \notin Locks(s)
    /\ request' = IF Available(r, p)
                  THEN [request EXCEPT ![r].done = @ \cup {p}]
                  ELSE Answered(r, "refused")
    /\ UNCHANGED <<stock, published, edit, cart, keyRow, order>>

\* The order, the emptied cart (whatever is in it by now: DELETE by cartId) and
\* the completed key, with the decrements.
Commit(r) ==
    LET c == CustomerOf[r]
        lines == request[r].lines
    IN  /\ request[r].phase = "decrementing"
        /\ Undecremented(r) = {}
        /\ stock' = [p \in Products |-> stock[p] - lines[p]]
        /\ order' = [order EXCEPT ![r] =
              [customer |-> c, key |-> request[r].key, lines |-> lines]]
        /\ keyRow' = [keyRow EXCEPT ![c][request[r].key] = r]
        /\ cart' = [cart EXCEPT ![c] = NoLines]
        /\ request' = [request EXCEPT ![r].phase = "committed",
                                      ![r].lines = NoLines, ![r].done = {}]
        /\ UNCHANGED <<published, edit>>

Respond(r) ==
    /\ request[r].phase = "committed"
    /\ request' = Answered(r, r)
    /\ UNCHANGED <<stock, published, edit, cart, keyRow, order>>

\* The server or the connection is lost: what was not committed is rolled back
\* and the client does not learn the outcome.
Crash(r) ==
    /\ InTransaction(r) \/ request[r].phase = "committed"
    /\ request' = Answered(r, "lost")
    /\ UNCHANGED <<stock, published, edit, cart, keyRow, order>>

-----------------------------------------------------------------------------
(* ProductsService.updateOwned: the row is read without a lock and saved    *)
(* whole, every column that differs from the row by then included.         *)

ReadForEdit(p) ==
    /\ edit[p] = {}
    /\ edit' = [edit EXCEPT ![p] = {stock[p]}]
    /\ UNCHANGED <<stock, published, cart, keyRow, order, request>>

\* The seller changed isPublished (or something checkout does not look at).
SaveEdit(p, isPublished) ==
    /\ edit[p] # {}
    /\ \A r \in Requests : p \notin Locks(r)
    /\ \E read \in edit[p] : stock' = [stock EXCEPT ![p] = read]
    /\ published' = IF isPublished THEN published \cup {p} ELSE published \ {p}
    /\ edit' = [edit EXCEPT ![p] = {}]
    /\ UNCHANGED <<cart, keyRow, order, request>>

-----------------------------------------------------------------------------
RequestStep(r) ==
    \/ ClaimKey(r)
    \/ Replay(r)
    \/ ReadCart(r)
    \/ \E p \in Products : Decrement(r, p)
    \/ Commit(r)
    \/ Respond(r)

Next ==
    \/ \E r \in Requests :
          \/ \E k \in KeysOf[r] : Send(r, k)
          \/ RequestStep(r)
          \/ Crash(r)
    \/ \E c \in Shopping :
          \/ \E p \in Products, quantity \in 0..MaxQuantity : WriteCartItem(c, p, quantity)
          \/ ClearCart(c)
    \/ \E p \in Editable :
          ReadForEdit(p) \/ \E isPublished \in BOOLEAN : SaveEdit(p, isPublished)

Spec == Init /\ [][Next]_vars

\* A statement that can run is run: a request that waits for a lock needs no
\* more, since whoever holds it is served and releases it.  Nobody is obliged
\* to send a request, change a cart or edit a product.
FairSpec == Spec /\ \A r \in Requests : WF_vars(RequestStep(r))

-----------------------------------------------------------------------------
(* Properties.                                                             *)

OrdersFor(c, k) ==
    {r \in Requests : /\ order[r] # NoOrder
                      /\ order[r].customer = c
                      /\ order[r].key = k}

\* The rows a seller's stale save may overwrite are left out here;
\* SoldWithinStock is about them.
Purchase ==
    INSTANCE Purchases WITH
        Products <- Products \ Editable,
        OrderIds <- Requests,
        InitialStock <- [p \in Products \ Editable |-> InitialStock[p]],
        available <- [p \in Products \ Editable |-> stock[p]],
        receipts <- [c \in Customers |-> [k \in Keys |->
            {[id |-> r, lines |-> [p \in Products \ Editable |-> order[r].lines[p]]] :
                r \in OrdersFor(c, k)}]]

\* However its requests are duplicated, retried, blocked or lost, a key buys
\* at most once, and the stepwise decrements of a cart act as one purchase of
\* units that were there, or as none.
PurchasesOnce == Purchase!PSpec

\* Every request that is answered with an order is answered with the one
\* committed for its own customer and key, a replay as much as the original.
AnswersAgree ==
    \A r \in Requests :
        request[r].answer \in Requests =>
            request[r].answer \in OrdersFor(CustomerOf[r], request[r].key)

\* Whose end a request waits for: the holder of its key, or of the row lock
\* on the product it decrements next.
WaitsFor(r) ==
    {s \in Requests \ {r} :
        \/ request[r].phase = "sent" /\ Claims(s, CustomerOf[r], request[r].key)
        \/ \E p \in Locks(s) : MayDecrementNext(r, p)}

\* No set of checkouts waits for itself, whatever products their carts share:
\* the decrements run in the order of the product ids.
NoCyclicWait ==
    \A R \in SUBSET Requests :
        R # {} => \E r \in R : WaitsFor(r) \cap R = {}

\* A request that was sent is answered, also the duplicate that waits for the
\* key and the one that waits for the stock another customer is buying.
RequestsAnswered ==
    \A r \in Requests :
        request[r].phase = "sent" ~> request[r].phase = "answered"

\* README.md:907 "exactly N successes out of M concurrent buyers racing for N
\* units of stock": no more units are sold than there were.
SoldWithinStock ==
    \A p \in Products :
        MapThenSumSet(LAMBDA r : order[r].lines[p],
                      {r \in Requests : order[r] # NoOrder}) <= InitialStock[p]
=============================================================================
