--------------------------- MODULE CheckoutProofs ---------------------------
(***************************************************************************)
(* Theorems about Checkout, for any number of customers, products, keys    *)
(* and requests, whatever carts and stock they begin with.                 *)
(***************************************************************************)
EXTENDS Checkout, FiniteSetTheorems, WellFoundedInduction, TLAPS

-----------------------------------------------------------------------------
(* The invariant.                                                          *)

\* A key is free while it is claimed.
ClaimsFreeKey(r) ==
    InTransaction(r) => keyRow[CustomerOf[r]][request[r].key] = Free

\* A request has no order before its commit, and has its own after.
OrderMatchesPhase(r) ==
    /\ order[r] # NoOrder => request[r].phase \in {"committed", "answered"}
    /\ request[r].phase = "committed" => order[r] # NoOrder
    /\ order[r] # NoOrder => /\ order[r].customer = CustomerOf[r]
                             /\ order[r].key = request[r].key
                             /\ keyRow[CustomerOf[r]][request[r].key] = r

AnswerMatches(r) ==
    request[r].answer \in Requests =>
        /\ request[r].phase = "answered"
        /\ request[r].answer \in OrdersFor(CustomerOf[r], request[r].key)

DoneWhileDecrementing(r) ==
    request[r].done # {} => request[r].phase = "decrementing"

\* Nobody takes what a lock has set aside.
LockedInStock(r) == \A p \in Locks(r) : request[r].lines[p] <= stock[p]

\* The locks are taken in the order of the product ids.
LockedInOrder(r) ==
    \A p \in Locks(r) : \A q \in Undecremented(r) : LockOrder[p] < LockOrder[q]

RequestInv(r) ==
    /\ ClaimsFreeKey(r)
    /\ OrderMatchesPhase(r)
    /\ AnswerMatches(r)
    /\ DoneWhileDecrementing(r)
    /\ LockedInStock(r)
    /\ LockedInOrder(r)

\* A key and a row lock have one holder.
Exclusive(r, s) ==
    r # s =>
        /\ ~ /\ InTransaction(r)
             /\ Claims(s, CustomerOf[r], request[r].key)
        /\ Locks(r) \cap Locks(s) = {}

\* A completed key names the order that completed it.
KeyNamesOrder(c, k) == keyRow[c][k] # Free => keyRow[c][k] \in OrdersFor(c, k)

Inv ==
    /\ \A r \in Requests : RequestInv(r)
    /\ \A r, s \in Requests : Exclusive(r, s)
    /\ \A c \in Customers, k \in Keys : KeyNamesOrder(c, k)

LEMMA NoOrderIsNone == NoOrder \notin Order
<1>1. DOMAIN NoOrder = {"customer"}
  BY DEF NoOrder
<1>2. ASSUME NEW o \in Order PROVE "key" \in DOMAIN o
  BY DEF Order
<1>. QED
  BY <1>1, <1>2

LEMMA InitTypeOK == Init => TypeOK
<1>. SUFFICES ASSUME Init PROVE TypeOK
  OBVIOUS
<1>. USE CheckoutShape
<1>1. (CHOOSE k \in Keys : TRUE) \in Keys
  OBVIOUS
<1>2. NoLines \in Lines
  BY DEF NoLines, Lines
<1>3. request \in [Requests -> Request]
  BY <1>1, <1>2 DEF Init, Request
<1>4. cart \in [Customers -> Lines]
  BY DEF Init, Lines
<1>. QED
  BY <1>3, <1>4 DEF Init, TypeOK

LEMMA InitInv == Init => Inv
<1>. SUFFICES ASSUME Init PROVE Inv
  OBVIOUS
<1>1. \A r \in Requests : /\ request[r].phase = "new"
                          /\ request[r].answer = "none"
                          /\ request[r].done = {}
                          /\ order[r] = NoOrder
  BY DEF Init
<1>2. \A r \in Requests : RequestInv(r)
  BY <1>1, CheckoutShape
  DEF RequestInv, ClaimsFreeKey, OrderMatchesPhase, AnswerMatches,
      DoneWhileDecrementing, LockedInStock, LockedInOrder, InTransaction, Locks
<1>3. \A r, s \in Requests : Exclusive(r, s)
  BY <1>1 DEF Exclusive, InTransaction, Locks
<1>4. \A c \in Customers, k \in Keys : KeyNamesOrder(c, k)
  BY DEF Init, KeyNamesOrder
<1>. QED
  BY <1>2, <1>3, <1>4 DEF Inv

-----------------------------------------------------------------------------
(* One request moves.                                                      *)

\* What an answer changes.
LEMMA AnsweredIs ==
    ASSUME TypeOK, NEW r \in Requests,
           NEW answer \in Requests \cup {"none", "refused", "lost"},
           request' = Answered(r, answer)
    PROVE  /\ request' \in [Requests -> Request]
           /\ request'[r].phase = "answered" /\ request'[r].answer = answer
           /\ request'[r].key = request[r].key /\ request'[r].done = {}
           /\ \A s \in Requests \ {r} : request'[s] = request[s]
<1>. DEFINE next == [request[r] EXCEPT !.phase = "answered", !.answer = answer,
                                       !.lines = NoLines, !.done = {}]
<1>1. NoLines \in Lines
  BY CheckoutShape DEF NoLines, Lines
<1>2. request[r] \in Request
  BY DEF TypeOK
<1>3. next \in Request
  BY <1>1, <1>2 DEF Request
<1>4. request' = [request EXCEPT ![r] = next]
  BY DEF Answered
<1>5. /\ next.phase = "answered" /\ next.answer = answer
      /\ next.key = request[r].key /\ next.done = {}
  BY <1>2 DEF Request
<1>. HIDE DEF next
<1>. QED
  BY <1>3, <1>4, <1>5 DEF TypeOK

\* The requests an action leaves alone keep their invariant.
LEMMA OthersKeep ==
    ASSUME Inv, NEW r \in Requests,
           \A s \in Requests \ {r} : request'[s] = request[s],
           stock' = stock, keyRow' = keyRow, order' = order
    PROVE  /\ \A s \in Requests \ {r} : RequestInv(s)'
           /\ \A s, t \in Requests \ {r} : Exclusive(s, t)'
           /\ \A c \in Customers, k \in Keys : KeyNamesOrder(c, k)'
<1>1. \A c, k : OrdersFor(c, k)' = OrdersFor(c, k)
  BY DEF OrdersFor
<1>2. ASSUME NEW s \in Requests \ {r}
      PROVE  /\ InTransaction(s)' = InTransaction(s)
             /\ Locks(s)' = Locks(s)
             /\ Undecremented(s)' = Undecremented(s)
             /\ \A c, k : Claims(s, c, k)' = Claims(s, c, k)
             /\ request'[s] = request[s]
  BY DEF InTransaction, Locks, Undecremented, Claims
<1>3. ASSUME NEW s \in Requests \ {r} PROVE RequestInv(s)'
  <2>1. RequestInv(s)
    BY DEF Inv
  <2>2. ClaimsFreeKey(s)' /\ OrderMatchesPhase(s)'
    BY <1>2, <2>1 DEF RequestInv, ClaimsFreeKey, OrderMatchesPhase
  <2>3. AnswerMatches(s)'
    BY <1>1, <1>2, <2>1 DEF RequestInv, AnswerMatches
  <2>4. DoneWhileDecrementing(s)' /\ LockedInStock(s)' /\ LockedInOrder(s)'
    BY <1>2, <2>1
    DEF RequestInv, DoneWhileDecrementing, LockedInStock, LockedInOrder
  <2>. QED
    BY <2>2, <2>3, <2>4 DEF RequestInv
<1>4. ASSUME NEW s \in Requests \ {r}, NEW t \in Requests \ {r}
      PROVE  Exclusive(s, t)'
  BY <1>2 DEF Inv, Exclusive
<1>5. \A c \in Customers, k \in Keys : KeyNamesOrder(c, k)'
  BY <1>1 DEF Inv, KeyNamesOrder
<1>. QED
  BY <1>3, <1>4, <1>5

\* A request that ends, with an answer that is right or none, releases what it
\* held.
LEMMA AnsweredInv ==
    ASSUME TypeOK, Inv, NEW r \in Requests,
           NEW answer \in Requests \cup {"none", "refused", "lost"},
           answer \in Requests =>
              answer \in OrdersFor(CustomerOf[r], request[r].key),
           request[r].phase # "new",
           request' = Answered(r, answer),
           stock' = stock, keyRow' = keyRow, order' = order
    PROVE  Inv'
<1>1. /\ request'[r].phase = "answered" /\ request'[r].answer = answer
      /\ request'[r].key = request[r].key /\ request'[r].done = {}
      /\ \A s \in Requests \ {r} : request'[s] = request[s]
  BY AnsweredIs
<1>2. ~ InTransaction(r)' /\ Locks(r)' = {} /\ \A c, k : ~ Claims(r, c, k)'
  BY <1>1 DEF InTransaction, Locks, Claims
<1>3. RequestInv(r)'
  <2>1. RequestInv(r)
    BY DEF Inv
  <2>2. \A c, k : OrdersFor(c, k)' = OrdersFor(c, k)
    BY DEF OrdersFor
  <2>3. AnswerMatches(r)'
    BY <1>1, <2>2 DEF AnswerMatches
  <2>4. OrderMatchesPhase(r)'
    BY <1>1, <2>1 DEF RequestInv, OrderMatchesPhase
  <2>. QED
    BY <1>1, <1>2, <2>3, <2>4
    DEF RequestInv, ClaimsFreeKey, DoneWhileDecrementing, LockedInStock, LockedInOrder
<1>4. \A s \in Requests : Exclusive(r, s)' /\ Exclusive(s, r)'
  BY <1>2 DEF Exclusive
<1>5. /\ \A s \in Requests \ {r} : RequestInv(s)'
      /\ \A s, t \in Requests \ {r} : Exclusive(s, t)'
      /\ \A c \in Customers, k \in Keys : KeyNamesOrder(c, k)'
  BY <1>1, OthersKeep
<1>. QED
  BY <1>3, <1>4, <1>5 DEF Inv

\* What a request that gets a key, a cart or a lock changes.
LEMMA MovedIs ==
    ASSUME TypeOK, NEW r \in Requests, NEW next \in Request,
           request' = [request EXCEPT ![r] = next]
    PROVE  /\ request' \in [Requests -> Request]
           /\ request'[r] = next
           /\ \A s \in Requests \ {r} : request'[s] = request[s]
  BY DEF TypeOK

LEMMA SendInv ==
    ASSUME TypeOK, Inv, NEW r \in Requests, NEW k \in Keys, Send(r, k)
    PROVE  TypeOK' /\ Inv'
<1>. DEFINE next == [request[r] EXCEPT !.phase = "sent", !.key = k]
<1>1. request[r] \in Request /\ RequestInv(r)
  BY DEF TypeOK, Inv
<1>2. /\ next \in Request
      /\ next.phase = "sent" /\ next.key = k /\ next.answer = request[r].answer
      /\ next.done = request[r].done
  BY <1>1 DEF Request
<1>3. request' = [request EXCEPT ![r] = next]
  BY DEF Send
<1>. HIDE DEF next
<1>4. /\ request' \in [Requests -> Request]
      /\ request'[r] = next
      /\ \A s \in Requests \ {r} : request'[s] = request[s]
  BY <1>2, <1>3, MovedIs
<1>5. ~ InTransaction(r)' /\ Locks(r)' = {} /\ \A c, j : ~ Claims(r, c, j)'
  BY <1>2, <1>4 DEF InTransaction, Locks, Claims
<1>6. RequestInv(r)'
  <2>1. request[r].phase = "new" /\ order[r] = NoOrder /\ order' = order
    BY <1>1 DEF Send, RequestInv, OrderMatchesPhase
  <2>2. OrderMatchesPhase(r)' /\ AnswerMatches(r)'
    BY <1>1, <1>2, <1>4, <2>1 DEF RequestInv, OrderMatchesPhase, AnswerMatches
  <2>3. DoneWhileDecrementing(r)'
    BY <1>1, <1>2, <1>4, <2>1 DEF RequestInv, DoneWhileDecrementing
  <2>. QED
    BY <1>5, <2>2, <2>3 DEF RequestInv, ClaimsFreeKey, LockedInStock, LockedInOrder
<1>7. \A s \in Requests : Exclusive(r, s)' /\ Exclusive(s, r)'
  BY <1>5 DEF Exclusive
<1>8. /\ \A s \in Requests \ {r} : RequestInv(s)'
      /\ \A s, t \in Requests \ {r} : Exclusive(s, t)'
      /\ \A c \in Customers, j \in Keys : KeyNamesOrder(c, j)'
  BY <1>4, OthersKeep DEF Send
<1>. QED
  BY <1>4, <1>6, <1>7, <1>8 DEF Inv, TypeOK, Send

LEMMA ClaimKeyInv ==
    ASSUME TypeOK, Inv, NEW r \in Requests, ClaimKey(r)
    PROVE  TypeOK' /\ Inv'
<1>. DEFINE next == [request[r] EXCEPT !.phase = "claimed"]
<1>1. request[r] \in Request /\ RequestInv(r)
  BY DEF TypeOK, Inv
<1>2. /\ next \in Request
      /\ next.phase = "claimed" /\ next.key = request[r].key
      /\ next.answer = request[r].answer /\ next.done = request[r].done
  BY <1>1 DEF Request
<1>3. request' = [request EXCEPT ![r] = next]
  BY DEF ClaimKey
<1>. HIDE DEF next
<1>4. /\ request' \in [Requests -> Request]
      /\ request'[r] = next
      /\ \A s \in Requests \ {r} : request'[s] = request[s]
  BY <1>2, <1>3, MovedIs
<1>5. Locks(r)' = {}
  BY <1>2, <1>4 DEF Locks
<1>6. /\ keyRow'[CustomerOf[r]][request'[r].key] = Free
      /\ \A s \in Requests : ~ Claims(s, CustomerOf[r], request'[r].key)
      /\ request[r].phase = "sent"
  BY <1>2, <1>4 DEF ClaimKey
<1>7. RequestInv(r)'
  <2>1. order[r] = NoOrder /\ order' = order /\ request[r].answer \notin Requests
    BY <1>1, <1>6 DEF ClaimKey, RequestInv, OrderMatchesPhase, AnswerMatches
  <2>2. OrderMatchesPhase(r)' /\ AnswerMatches(r)'
    BY <1>2, <1>4, <2>1 DEF OrderMatchesPhase, AnswerMatches
  <2>3. DoneWhileDecrementing(r)'
    BY <1>1, <1>2, <1>4, <1>6 DEF RequestInv, DoneWhileDecrementing
  <2>. QED
    BY <1>5, <1>6, <2>2, <2>3
    DEF RequestInv, ClaimsFreeKey, LockedInStock, LockedInOrder
<1>8. ASSUME NEW s \in Requests \ {r} PROVE Exclusive(r, s)' /\ Exclusive(s, r)'
  <2>1. /\ request'[s] = request[s]
        /\ ~ Claims(s, CustomerOf[r], request'[r].key)
    BY <1>4, <1>6
  <2>2. ~ /\ InTransaction(s)'
          /\ CustomerOf[s] = CustomerOf[r]
          /\ request'[s].key = request'[r].key
    BY <2>1 DEF Claims, InTransaction
  <2>. QED
    BY <1>5, <2>2 DEF Exclusive, Claims
<1>9. /\ \A s \in Requests \ {r} : RequestInv(s)'
      /\ \A s, t \in Requests \ {r} : Exclusive(s, t)'
      /\ \A c \in Customers, k \in Keys : KeyNamesOrder(c, k)'
  BY <1>4, OthersKeep DEF ClaimKey
<1>10. Exclusive(r, r)'
  BY DEF Exclusive
<1>. QED
  BY <1>4, <1>7, <1>8, <1>9, <1>10 DEF Inv, TypeOK, ClaimKey

LEMMA ReplayInv ==
    ASSUME TypeOK, Inv, NEW r \in Requests, Replay(r)
    PROVE  TypeOK' /\ Inv'
<1>. DEFINE c == CustomerOf[r]
            k == request[r].key
            existing == keyRow[c][k]
<1>1. c \in Customers /\ k \in Keys
  BY CheckoutShape DEF TypeOK, Request
<1>2. existing # Free /\ request[r].phase = "sent"
  BY DEF Replay
<1>3. existing \in Requests /\ existing \in OrdersFor(c, k)
  BY <1>1, <1>2 DEF TypeOK, Inv, KeyNamesOrder
<1>4. request' = Answered(r, existing)
  BY DEF Replay
<1>. HIDE DEF existing, c, k
<1>5. Inv'
  BY <1>2, <1>3, <1>4, AnsweredInv DEF Replay, c, k
<1>6. request' \in [Requests -> Request]
  BY <1>3, <1>4, AnsweredIs
<1>. QED
  BY <1>5, <1>6 DEF Replay, TypeOK

\* The request gives up: its transaction is rolled back.
LEMMA GivesUpInv ==
    ASSUME TypeOK, Inv, NEW r \in Requests, NEW answer \in {"refused", "lost"},
           request[r].phase # "new", request' = Answered(r, answer),
           UNCHANGED <<stock, published, edit, cart, keyRow, order>>
    PROVE  TypeOK' /\ Inv'
<1>1. answer \notin Requests /\ answer \in Requests \cup {"none", "refused", "lost"}
  BY CheckoutShape
<1>2. Inv'
  BY <1>1, AnsweredInv
<1>3. request' \in [Requests -> Request]
  BY <1>1, AnsweredIs
<1>. QED
  BY <1>2, <1>3 DEF TypeOK

LEMMA CrashInv ==
    ASSUME TypeOK, Inv, NEW r \in Requests, Crash(r)
    PROVE  TypeOK' /\ Inv'
<1>1. request[r].phase # "new"
  BY DEF Crash, InTransaction
<1>. QED
  BY <1>1, GivesUpInv DEF Crash

LEMMA RespondInv ==
    ASSUME TypeOK, Inv, NEW r \in Requests, Respond(r)
    PROVE  TypeOK' /\ Inv'
<1>1. request[r].phase = "committed"
  BY DEF Respond
<1>2. r \in OrdersFor(CustomerOf[r], request[r].key)
  BY <1>1 DEF Inv, RequestInv, OrderMatchesPhase, OrdersFor
<1>3. Inv'
  BY <1>1, <1>2, AnsweredInv DEF Respond
<1>4. request' \in [Requests -> Request]
  BY AnsweredIs DEF Respond
<1>. QED
  BY <1>3, <1>4 DEF Respond, TypeOK

\* A request that has its key still has it, and no other request has.
LEMMA KeepsKey ==
    ASSUME TypeOK, Inv, NEW r \in Requests, InTransaction(r),
           request'[r].phase = "decrementing",
           request'[r].key = request[r].key,
           request'[r].answer = request[r].answer,
           \A s \in Requests \ {r} : request'[s] = request[s],
           keyRow' = keyRow, order' = order,
           \A s \in Requests \ {r} : Locks(r)' \cap Locks(s) = {}
    PROVE  /\ ClaimsFreeKey(r)' /\ OrderMatchesPhase(r)' /\ AnswerMatches(r)'
           /\ DoneWhileDecrementing(r)'
           /\ \A s \in Requests : Exclusive(r, s)' /\ Exclusive(s, r)'
<1>1. RequestInv(r) /\ InTransaction(r)'
  BY DEF Inv, InTransaction
<1>2. order[r] = NoOrder /\ request[r].answer \notin Requests
  BY <1>1 DEF InTransaction, RequestInv, OrderMatchesPhase, AnswerMatches
<1>3. ASSUME NEW s \in Requests \ {r} PROVE Exclusive(r, s)' /\ Exclusive(s, r)'
  <2>1. /\ InTransaction(s)' = InTransaction(s)
        /\ Locks(s)' = Locks(s)
        /\ request'[s] = request[s]
    BY DEF InTransaction, Locks
  <2>2. ~ Claims(s, CustomerOf[r], request[r].key)
    BY DEF Inv, Exclusive
  <2>3. ~ /\ InTransaction(s)'
          /\ CustomerOf[s] = CustomerOf[r]
          /\ request'[s].key = request'[r].key
    BY <2>1, <2>2 DEF Claims
  <2>. QED
    BY <2>1, <2>3 DEF Exclusive, Claims
<1>4. Exclusive(r, r)'
  BY DEF Exclusive
<1>. QED
  BY <1>1, <1>2, <1>3, <1>4
  DEF RequestInv, ClaimsFreeKey, OrderMatchesPhase, AnswerMatches,
      DoneWhileDecrementing

LEMMA ReadCartInv ==
    ASSUME TypeOK, Inv, NEW r \in Requests, ReadCart(r)
    PROVE  TypeOK' /\ Inv'
<1>. DEFINE lines == cart[CustomerOf[r]]
            next == [request[r] EXCEPT !.phase = "decrementing", !.lines = lines]
<1>0. request[r] \in Request /\ RequestInv(r) /\ request[r].phase = "claimed"
  BY DEF TypeOK, Inv, ReadCart
<1>1. CASE request' = Answered(r, "refused")
  BY <1>0, <1>1, GivesUpInv DEF ReadCart
<1>2. CASE request' = [request EXCEPT ![r].phase = "decrementing", ![r].lines = lines]
  <2>1. lines \in Lines
    BY CheckoutShape DEF TypeOK
  <2>2. /\ next \in Request
        /\ next.phase = "decrementing" /\ next.key = request[r].key
        /\ next.done = request[r].done /\ next.answer = request[r].answer
    BY <1>0, <2>1 DEF Request
  <2>3. request' = [request EXCEPT ![r] = next]
    BY <1>2
  <2>. HIDE DEF next
  <2>4. /\ request' \in [Requests -> Request]
        /\ request'[r] = next
        /\ \A s \in Requests \ {r} : request'[s] = request[s]
    BY <2>2, <2>3, MovedIs
  <2>5. Locks(r)' = {}
    BY <1>0, <2>2, <2>4 DEF Locks, RequestInv, DoneWhileDecrementing
  <2>6. /\ ClaimsFreeKey(r)' /\ OrderMatchesPhase(r)' /\ AnswerMatches(r)'
        /\ DoneWhileDecrementing(r)'
        /\ \A s \in Requests : Exclusive(r, s)' /\ Exclusive(s, r)'
    BY <1>0, <2>2, <2>4, <2>5, KeepsKey DEF ReadCart, InTransaction
  <2>7. LockedInStock(r)' /\ LockedInOrder(r)'
    BY <2>5 DEF LockedInStock, LockedInOrder
  <2>8. /\ \A s \in Requests \ {r} : RequestInv(s)'
        /\ \A s, t \in Requests \ {r} : Exclusive(s, t)'
        /\ \A c \in Customers, k \in Keys : KeyNamesOrder(c, k)'
    BY <2>4, OthersKeep DEF ReadCart
  <2>. QED
    BY <2>4, <2>6, <2>7, <2>8 DEF Inv, RequestInv, TypeOK, ReadCart
<1>. QED
  BY <1>1, <1>2 DEF ReadCart

\* The lock is free, its product is the next in order, and has the units.
LEMMA DecrementInv ==
    ASSUME TypeOK, Inv, NEW r \in Requests, NEW p \in Products, Decrement(r, p)
    PROVE  TypeOK' /\ Inv'
<1>. DEFINE next == [request[r] EXCEPT !.done = @ \cup {p}]
<1>0. /\ request[r] \in Request /\ RequestInv(r)
      /\ request[r].phase = "decrementing"
      /\ p \in Undecremented(r)
      /\ \A q \in Undecremented(r) : LockOrder[p] <= LockOrder[q]
      /\ \A s \in Requests \ {r} : p \notin Locks(s)
  BY DEF TypeOK, Inv, Decrement, MayDecrementNext
<1>1. CASE request' = Answered(r, "refused")
  BY <1>0, <1>1, GivesUpInv DEF Decrement
<1>2. CASE /\ request' = [request EXCEPT ![r].done = @ \cup {p}]
           /\ Available(r, p)
  <2>2. /\ next \in Request
        /\ next.phase = "decrementing" /\ next.key = request[r].key
        /\ next.done = request[r].done \cup {p}
        /\ next.answer = request[r].answer
        /\ next.lines = request[r].lines
    BY <1>0 DEF Request
  <2>3. request' = [request EXCEPT ![r] = next]
    BY <1>2
  <2>. HIDE DEF next
  <2>4. /\ request' \in [Requests -> Request]
        /\ request'[r] = next
        /\ \A s \in Requests \ {r} : request'[s] = request[s]
    BY <2>2, <2>3, MovedIs
  <2>5. /\ Locks(r)' = Locks(r) \cup {p}
        /\ Undecremented(r)' = Undecremented(r) \ {p}
    BY <1>0, <2>2, <2>4 DEF Locks, Undecremented
  <2>6. /\ ClaimsFreeKey(r)' /\ OrderMatchesPhase(r)' /\ AnswerMatches(r)'
        /\ DoneWhileDecrementing(r)'
        /\ \A s \in Requests : Exclusive(r, s)' /\ Exclusive(s, r)'
    <3>1. \A s \in Requests \ {r} : Locks(r)' \cap Locks(s) = {}
      BY <1>0, <2>5 DEF Inv, Exclusive
    <3>. QED
      BY <1>0, <2>2, <2>4, <3>1, KeepsKey DEF Decrement, InTransaction
  <2>7. LockedInStock(r)'
    BY <1>0, <1>2, <2>2, <2>4, <2>5
    DEF LockedInStock, RequestInv, Available, Decrement
  <2>8. LockedInOrder(r)'
    <3>. SUFFICES ASSUME NEW d \in Locks(r)', NEW q \in Undecremented(r)'
                  PROVE  LockOrder[d] < LockOrder[q]
      BY DEF LockedInOrder
    <3>1. q \in Undecremented(r) /\ q # p /\ q \in Products
      BY <2>5 DEF Undecremented
    <3>2. CASE d \in Locks(r)
      BY <1>0, <3>1, <3>2 DEF RequestInv, LockedInOrder
    <3>3. CASE d = p
      <4>1. LockOrder[p] <= LockOrder[q] /\ LockOrder[p] # LockOrder[q]
        BY <1>0, <3>1, CheckoutShape
      <4>2. LockOrder[p] \in Int /\ LockOrder[q] \in Int
        BY <3>1, CheckoutShape
      <4>. QED
        BY <3>3, <4>1, <4>2
    <3>. QED
      BY <2>5, <3>2, <3>3
  <2>9. /\ \A s \in Requests \ {r} : RequestInv(s)'
        /\ \A s, t \in Requests \ {r} : Exclusive(s, t)'
        /\ \A c \in Customers, k \in Keys : KeyNamesOrder(c, k)'
    BY <2>4, OthersKeep DEF Decrement
  <2>. QED
    BY <2>4, <2>6, <2>7, <2>8, <2>9 DEF Inv, RequestInv, TypeOK, Decrement
<1>. QED
  BY <1>1, <1>2 DEF Decrement

-----------------------------------------------------------------------------
(* The commit.                                                             *)

\* The units of a cart whose lines are all locked are in stock.
LEMMA TakenInStock ==
    ASSUME TypeOK, Inv, NEW r \in Requests,
           request[r].phase = "decrementing", Undecremented(r) = {},
           NEW p \in Products
    PROVE  /\ request[r].lines[p] \in Nat
           /\ request[r].lines[p] <= stock[p]
           /\ p \notin Locks(r) => request[r].lines[p] = 0
<1>1. request[r].lines \in [Products -> 0..MaxQuantity] /\ stock[p] \in Nat
  BY DEF TypeOK, Request, Lines
<1>2. request[r].lines[p] > 0 => p \in Locks(r)
  BY DEF Undecremented, Locks
<1>3. p \in Locks(r) => request[r].lines[p] <= stock[p]
  BY DEF Inv, RequestInv, LockedInStock
<1>. QED
  BY <1>1, <1>2, <1>3, CheckoutShape

\* Until its commit the key of a request has no order.
LEMMA KeyNotUsed ==
    ASSUME Inv, NEW r \in Requests, InTransaction(r)
    PROVE  OrdersFor(CustomerOf[r], request[r].key) = {}
<1>1. keyRow[CustomerOf[r]][request[r].key] = Free
  BY DEF Inv, RequestInv, ClaimsFreeKey
<1>. SUFFICES ASSUME NEW s \in OrdersFor(CustomerOf[r], request[r].key)
              PROVE  FALSE
  OBVIOUS
<1>2. s \in Requests /\ keyRow[CustomerOf[r]][request[r].key] = s
  BY DEF OrdersFor, Inv, RequestInv, OrderMatchesPhase
<1>. QED
  BY <1>1, <1>2, CheckoutShape

\* The commit adds its order to the orders of its customer and key.
LEMMA CommitOrders ==
    ASSUME TypeOK, Inv, NEW r \in Requests, Commit(r)
    PROVE  /\ order' \in [Requests -> Order \cup {NoOrder}]
           /\ order'[r] = [customer |-> CustomerOf[r], key |-> request[r].key,
                           lines |-> request[r].lines]
           /\ order'[r] # NoOrder
           /\ \A s \in Requests \ {r} : order'[s] = order[s]
           /\ \A c, k :
                \/ /\ c = CustomerOf[r] /\ k = request[r].key
                   /\ OrdersFor(c, k) = {} /\ OrdersFor(c, k)' = {r}
                \/ /\ ~ (c = CustomerOf[r] /\ k = request[r].key)
                   /\ OrdersFor(c, k)' = OrdersFor(c, k)
<1>. DEFINE new == [customer |-> CustomerOf[r], key |-> request[r].key,
                    lines |-> request[r].lines]
<1>1. new \in Order
  BY CheckoutShape DEF TypeOK, Request, Order
<1>2. order' = [order EXCEPT ![r] = new]
  BY DEF Commit
<1>3. new.customer = CustomerOf[r] /\ new.key = request[r].key
  OBVIOUS
<1>4. new # NoOrder
  BY <1>1, NoOrderIsNone
<1>. HIDE DEF new
<1>5. /\ order' \in [Requests -> Order \cup {NoOrder}]
      /\ order'[r] = new
      /\ \A s \in Requests \ {r} : order'[s] = order[s]
  BY <1>1, <1>2 DEF TypeOK
<1>6. InTransaction(r) /\ order[r] = NoOrder
  BY DEF Commit, InTransaction, Inv, RequestInv, OrderMatchesPhase
<1>7. OrdersFor(CustomerOf[r], request[r].key) = {}
  BY <1>6, KeyNotUsed
<1>8. ASSUME NEW c, NEW k
      PROVE  \/ /\ c = CustomerOf[r] /\ k = request[r].key
                /\ OrdersFor(c, k) = {} /\ OrdersFor(c, k)' = {r}
             \/ /\ ~ (c = CustomerOf[r] /\ k = request[r].key)
                /\ OrdersFor(c, k)' = OrdersFor(c, k)
  BY <1>3, <1>4, <1>5, <1>6, <1>7 DEF OrdersFor
<1>. QED
  BY <1>4, <1>5, <1>8 DEF new

LEMMA CommitInv ==
    ASSUME TypeOK, Inv, NEW r \in Requests, Commit(r)
    PROVE  TypeOK' /\ Inv'
<1>. DEFINE c == CustomerOf[r]
            k == request[r].key
            next == [request[r] EXCEPT !.phase = "committed", !.lines = NoLines,
                                       !.done = {}]
<1>0. /\ order' \in [Requests -> Order \cup {NoOrder}]
      /\ order'[r] = [customer |-> c, key |-> k, lines |-> request[r].lines]
      /\ order'[r] # NoOrder
      /\ \A s \in Requests \ {r} : order'[s] = order[s]
      /\ \A d, j :
            \/ d = c /\ j = k /\ OrdersFor(d, j) = {} /\ OrdersFor(d, j)' = {r}
            \/ ~ (d = c /\ j = k) /\ OrdersFor(d, j)' = OrdersFor(d, j)
  BY CommitOrders
<1>1. /\ request[r] \in Request /\ RequestInv(r) /\ InTransaction(r)
      /\ request[r].phase = "decrementing" /\ Undecremented(r) = {}
      /\ c \in Customers /\ k \in Keys
  BY CheckoutShape DEF TypeOK, Inv, Commit, InTransaction, Request
<1>2. NoLines \in Lines
  BY CheckoutShape DEF NoLines, Lines
<1>3. /\ next \in Request
      /\ next.phase = "committed" /\ next.key = k
      /\ next.done = {} /\ next.answer = request[r].answer
  BY <1>1, <1>2 DEF Request
<1>4. request' = [request EXCEPT ![r] = next]
  BY DEF Commit
<1>. HIDE DEF next
<1>5. /\ request' \in [Requests -> Request]
      /\ request'[r] = next
      /\ \A s \in Requests \ {r} : request'[s] = request[s]
  BY <1>3, <1>4, MovedIs
<1>6. \A p \in Products : stock'[p] = stock[p] - request[r].lines[p]
  BY DEF Commit
<1>7. TypeOK'
  <2>1. stock' \in [Products -> Nat]
    <3>1. \A p \in Products : stock[p] - request[r].lines[p] \in Nat
      <4>. TAKE p \in Products
      <4>1. /\ request[r].lines[p] \in Nat
            /\ request[r].lines[p] <= stock[p] /\ stock[p] \in Nat
        BY <1>1, TakenInStock DEF TypeOK
      <4>. QED
        BY <4>1
    <3>. QED
      BY <3>1 DEF Commit
  <2>2. keyRow' \in [Customers -> [Keys -> Requests \cup {Free}]]
    BY <1>1 DEF Commit, TypeOK
  <2>3. cart' \in [Customers -> Lines]
    BY <1>2 DEF Commit, TypeOK
  <2>4. order' \in [Requests -> Order \cup {NoOrder}]
    BY <1>0
  <2>5. published' \subseteq Products /\ edit' \in [Products -> SUBSET Nat]
    BY DEF Commit, TypeOK
  <2>. QED
    BY <1>5, <2>1, <2>2, <2>3, <2>4, <2>5 DEF TypeOK
<1>8. /\ keyRow'[c][k] = r
      /\ \A d \in Customers, j \in Keys :
            ~ (d = c /\ j = k) => keyRow'[d][j] = keyRow[d][j]
  BY <1>1 DEF Commit, TypeOK
<1>9. keyRow[c][k] = Free /\ r # Free
  BY <1>1, CheckoutShape DEF RequestInv, ClaimsFreeKey
<1>10. \A d \in Customers, j \in Keys : KeyNamesOrder(d, j)'
  <2>. TAKE d \in Customers, j \in Keys
  <2>0. \/ d = c /\ j = k /\ OrdersFor(d, j)' = {r}
        \/ ~ (d = c /\ j = k) /\ OrdersFor(d, j)' = OrdersFor(d, j)
    BY <1>0, Zenon
  <2>1. CASE d = c /\ j = k
    <3>1. OrdersFor(d, j)' = {r}
      BY <2>0, <2>1
    <3>. QED
      BY <1>8, <2>1, <3>1 DEF KeyNamesOrder
  <2>2. CASE ~ (d = c /\ j = k)
    <3>1. OrdersFor(d, j)' = OrdersFor(d, j)
      BY <2>0, <2>2
    <3>. QED
      BY <1>8, <2>2, <3>1 DEF Inv, KeyNamesOrder
  <2>. QED
    BY <2>1, <2>2
<1>11. ~ InTransaction(r)' /\ Locks(r)' = {} /\ \A d, j : ~ Claims(r, d, j)'
  BY <1>3, <1>5 DEF InTransaction, Locks, Claims
<1>12. RequestInv(r)'
  <2>1. order'[r] # NoOrder /\ order'[r].customer = c /\ order'[r].key = k
    BY <1>0
  <2>2. request[r].answer \notin Requests
    BY <1>1 DEF RequestInv, AnswerMatches
  <2>3. OrderMatchesPhase(r)' /\ AnswerMatches(r)' /\ DoneWhileDecrementing(r)'
    BY <1>3, <1>5, <1>8, <2>1, <2>2
    DEF OrderMatchesPhase, AnswerMatches, DoneWhileDecrementing
  <2>. QED
    BY <1>11, <2>3 DEF RequestInv, ClaimsFreeKey, LockedInStock, LockedInOrder
<1>13. ASSUME NEW s \in Requests \ {r}
       PROVE  RequestInv(s)' /\ Exclusive(r, s)' /\ Exclusive(s, r)'
  <2>1. /\ RequestInv(s)
        /\ request'[s] = request[s] /\ order'[s] = order[s]
        /\ CustomerOf[s] \in Customers /\ request[s].key \in Keys
    BY <1>0, <1>5, CheckoutShape DEF Inv, TypeOK, Request
  <2>2. /\ InTransaction(s)' = InTransaction(s)
        /\ Locks(s)' = Locks(s)
        /\ Undecremented(s)' = Undecremented(s)
    BY <2>1 DEF InTransaction, Locks, Undecremented
  <2>3. ClaimsFreeKey(s)'
    <3>. SUFFICES ASSUME InTransaction(s)
                  PROVE  keyRow'[CustomerOf[s]][request[s].key] = Free
      BY <2>1, <2>2 DEF ClaimsFreeKey
    <3>1. ~ (CustomerOf[s] = c /\ request[s].key = k)
      BY <1>1 DEF Inv, Exclusive, Claims
    <3>2. keyRow[CustomerOf[s]][request[s].key] = Free
      BY <2>1 DEF RequestInv, ClaimsFreeKey
    <3>. QED
      BY <1>8, <2>1, <3>1, <3>2
  <2>4. OrderMatchesPhase(s)'
    <3>1. order[s] # NoOrder => keyRow[CustomerOf[s]][request[s].key] = s
      BY <2>1 DEF RequestInv, OrderMatchesPhase
    <3>2. order[s] # NoOrder => ~ (CustomerOf[s] = c /\ request[s].key = k)
      BY <1>9, <3>1, CheckoutShape
    <3>3. order[s] # NoOrder => keyRow'[CustomerOf[s]][request[s].key] = s
      BY <1>8, <2>1, <3>1, <3>2
    <3>. QED
      BY <2>1, <3>3 DEF RequestInv, OrderMatchesPhase
  <2>5. AnswerMatches(s)'
    <3>1. \A d, j : OrdersFor(d, j) \subseteq OrdersFor(d, j)'
      <4>. TAKE d, j
      <4>1. \/ OrdersFor(d, j) = {}
            \/ OrdersFor(d, j)' = OrdersFor(d, j)
        BY <1>0, Zenon
      <4>. QED
        BY <4>1
    <3>. QED
      BY <2>1, <3>1 DEF RequestInv, AnswerMatches
  <2>6. LockedInStock(s)'
    <3>. SUFFICES ASSUME NEW p \in Locks(s)
                  PROVE  request[s].lines[p] <= stock'[p]
      BY <2>1, <2>2 DEF LockedInStock
    <3>1. p \in Products
      BY DEF Locks, TypeOK, Request
    <3>2. p \notin Locks(r)
      BY DEF Inv, Exclusive
    <3>3. request[r].lines[p] = 0 /\ stock[p] \in Nat
      BY <1>1, <3>1, <3>2, TakenInStock DEF TypeOK
    <3>4. stock'[p] = stock[p]
      BY <1>6, <3>1, <3>3
    <3>. QED
      BY <2>1, <3>4 DEF RequestInv, LockedInStock
  <2>7. DoneWhileDecrementing(s)' /\ LockedInOrder(s)'
    BY <2>1, <2>2 DEF RequestInv, DoneWhileDecrementing, LockedInOrder
  <2>8. Exclusive(r, s)' /\ Exclusive(s, r)'
    BY <1>11 DEF Exclusive
  <2>. QED
    BY <2>3, <2>4, <2>5, <2>6, <2>7, <2>8 DEF RequestInv
<1>14. ASSUME NEW s \in Requests \ {r}, NEW t \in Requests \ {r}
       PROVE  Exclusive(s, t)'
  BY <1>5 DEF Inv, Exclusive, InTransaction, Locks, Claims
<1>15. Exclusive(r, r)'
  BY DEF Exclusive
<1>. QED
  BY <1>7, <1>10, <1>12, <1>13, <1>14, <1>15 DEF Inv

-----------------------------------------------------------------------------
(* The carts and the sellers.                                              *)

\* The invariant is about the stock, the keys, the orders and the requests.
\* Of the stock it is enough that no locked product changes.
LEMMA InvKept ==
    ASSUME TypeOK, Inv,
           \A r \in Requests : \A p \in Locks(r) : stock'[p] = stock[p],
           keyRow' = keyRow, order' = order, request' = request
    PROVE  Inv'
<1>1. \A r : /\ InTransaction(r)' = InTransaction(r)
             /\ Locks(r)' = Locks(r)
             /\ Undecremented(r)' = Undecremented(r)
             /\ \A c, k : Claims(r, c, k)' = Claims(r, c, k)
  BY DEF InTransaction, Locks, Undecremented, Claims
<1>2. \A c, k : OrdersFor(c, k)' = OrdersFor(c, k)
  BY DEF OrdersFor
<1>3. ASSUME NEW r \in Requests PROVE RequestInv(r)'
  <2>1. RequestInv(r)
    BY DEF Inv
  <2>2. ClaimsFreeKey(r)' /\ OrderMatchesPhase(r)' /\ DoneWhileDecrementing(r)'
    BY <1>1, <2>1
    DEF RequestInv, ClaimsFreeKey, OrderMatchesPhase, DoneWhileDecrementing
  <2>3. AnswerMatches(r)'
    BY <1>2, <2>1 DEF RequestInv, AnswerMatches
  <2>4. LockedInStock(r)' /\ LockedInOrder(r)'
    BY <1>1, <2>1 DEF RequestInv, LockedInStock, LockedInOrder
  <2>. QED
    BY <2>2, <2>3, <2>4 DEF RequestInv
<1>4. ASSUME NEW r \in Requests, NEW s \in Requests PROVE Exclusive(r, s)'
  BY <1>1 DEF Inv, Exclusive
<1>5. \A c \in Customers, k \in Keys : KeyNamesOrder(c, k)'
  BY <1>2 DEF Inv, KeyNamesOrder
<1>. QED
  BY <1>3, <1>4, <1>5 DEF Inv

LEMMA WriteCartItemInv ==
    ASSUME TypeOK, Inv, NEW c \in Customers, NEW p \in Products,
           NEW quantity \in 0..MaxQuantity, WriteCartItem(c, p, quantity)
    PROVE  TypeOK' /\ Inv'
<1>1. cart' \in [Customers -> Lines]
  BY DEF WriteCartItem, TypeOK, Lines
<1>. QED
  BY <1>1, InvKept DEF WriteCartItem, TypeOK

LEMMA ClearCartInv ==
    ASSUME TypeOK, Inv, NEW c \in Customers, ClearCart(c)
    PROVE  TypeOK' /\ Inv'
<1>1. NoLines \in Lines
  BY CheckoutShape DEF NoLines, Lines
<1>. QED
  BY <1>1, InvKept DEF ClearCart, TypeOK

LEMMA ReadForEditInv ==
    ASSUME TypeOK, Inv, NEW p \in Products, ReadForEdit(p)
    PROVE  TypeOK' /\ Inv'
  BY InvKept DEF ReadForEdit, TypeOK

LEMMA SaveEditInv ==
    ASSUME TypeOK, Inv, NEW p \in Products, NEW isPublished \in BOOLEAN,
           SaveEdit(p, isPublished)
    PROVE  TypeOK' /\ Inv'
<1>1. PICK read \in edit[p] : stock' = [stock EXCEPT ![p] = read]
  BY DEF SaveEdit
<1>2. stock' \in [Products -> Nat]
  BY <1>1 DEF TypeOK
<1>3. published' \subseteq Products /\ edit' \in [Products -> SUBSET Nat]
  BY DEF SaveEdit, TypeOK
<1>4. ASSUME NEW r \in Requests, NEW q \in Locks(r) PROVE stock'[q] = stock[q]
  <2>1. q \in Products /\ q # p
    BY <1>4 DEF SaveEdit, Locks, TypeOK, Request
  <2>. QED
    BY <1>1, <2>1 DEF TypeOK
<1>. QED
  BY <1>2, <1>3, <1>4, InvKept DEF SaveEdit, TypeOK

LEMMA NextInv == TypeOK /\ Inv /\ [Next]_vars => TypeOK' /\ Inv'
<1>. SUFFICES ASSUME TypeOK, Inv, [Next]_vars PROVE TypeOK' /\ Inv'
  OBVIOUS
<1>1. ASSUME NEW r \in Requests, NEW k \in KeysOf[r], Send(r, k)
      PROVE  TypeOK' /\ Inv'
  <2>1. k \in Keys
    BY <1>1, CheckoutShape
  <2>. QED
    BY <1>1, <2>1, SendInv
<1>2. ASSUME NEW r \in Requests, RequestStep(r) PROVE TypeOK' /\ Inv'
  BY <1>2, ClaimKeyInv, ReplayInv, ReadCartInv, DecrementInv, CommitInv, RespondInv
  DEF RequestStep
<1>3. ASSUME NEW r \in Requests, Crash(r) PROVE TypeOK' /\ Inv'
  BY <1>3, CrashInv
<1>4. ASSUME NEW c \in Shopping, NEW p \in Products, NEW quantity \in 0..MaxQuantity,
             WriteCartItem(c, p, quantity)
      PROVE  TypeOK' /\ Inv'
  BY <1>4, WriteCartItemInv, CheckoutShape
<1>5. ASSUME NEW c \in Shopping, ClearCart(c) PROVE TypeOK' /\ Inv'
  BY <1>5, ClearCartInv, CheckoutShape
<1>6. ASSUME NEW p \in Editable, ReadForEdit(p) PROVE TypeOK' /\ Inv'
  BY <1>6, ReadForEditInv, CheckoutShape
<1>7. ASSUME NEW p \in Editable, NEW isPublished \in BOOLEAN, SaveEdit(p, isPublished)
      PROVE  TypeOK' /\ Inv'
  BY <1>7, SaveEditInv, CheckoutShape
<1>8. CASE UNCHANGED vars
  BY <1>8, InvKept DEF vars, TypeOK
<1>. QED
  BY <1>1, <1>2, <1>3, <1>4, <1>5, <1>6, <1>7, <1>8 DEF Next

LEMMA CheckoutInvariant == Spec => [](TypeOK /\ Inv)
  BY InitTypeOK, InitInv, NextInv, PTL DEF Spec

-----------------------------------------------------------------------------
(* The theorems.                                                           *)

\* No decrement takes the stock below zero, and the carts, keys, orders and
\* requests keep their shape.
THEOREM CheckoutTypeCorrect == Spec => []TypeOK
  BY CheckoutInvariant, PTL

\* An answer names the order of its own customer and key, a replay as much as
\* the original.
THEOREM AnswersCorrect == Spec => []AnswersAgree
<1>1. Inv => AnswersAgree
  BY DEF Inv, RequestInv, AnswerMatches, AnswersAgree
<1>. QED
  BY <1>1, CheckoutInvariant, PTL

\* A nonempty set of bounded numbers has a greatest element.
LEMMA GreatestExists ==
    ASSUME NEW n \in Nat, NEW S \in SUBSET (0..n), S # {}
    PROVE  \E m \in S : \A x \in S : x <= m
<1>. DEFINE R == {ss \in Nat \X Nat : ss[1] < ss[2]}
            T == {n - x : x \in S}
<1>1. IsWellFoundedOn(R, Nat)
  BY NatLessThanWellFounded DEF OpToRel
<1>2. ASSUME NEW x \in S PROVE n - x \in Nat /\ x \in Nat /\ n - x \in T
  <2>1. x \in 0..n
    OBVIOUS
  <2>. QED
    BY <2>1
<1>3. T \subseteq Nat /\ T # {}
  BY <1>2
<1>4. PICK t \in T : \A y \in T : <<y, t>> \notin R
  <2>. HIDE DEF R, T
  <2>. QED
    BY <1>1, <1>3, WFMin
<1>5. PICK m \in S : t = n - m
  OBVIOUS
<1>6. ASSUME NEW x \in S PROVE x <= m
  <2>1. <<n - x, n - m>> \notin R
    BY <1>2, <1>4, <1>5
  <2>2. ~ (n - x < n - m)
    BY <1>2, <2>1
  <2>3. x \in Int /\ m \in Int
    BY <1>2
  <2>. QED
    BY <2>2, <2>3
<1>. QED
  BY <1>6

\* Of checkouts that wait for row locks, the one that waits for the greatest
\* product waits for none of the others: whoever holds that lock waits, if at
\* all, for a greater one.
LEMMA InvNoCyclicWait == TypeOK /\ Inv => NoCyclicWait
<1>. SUFFICES ASSUME TypeOK, Inv, NEW R \in SUBSET Requests, R # {},
                     \A r \in R : WaitsFor(r) \cap R # {}
              PROVE  FALSE
  BY DEF NoCyclicWait
<1>. DEFINE D == {r \in R : request[r].phase = "decrementing"}
            Wanted == {p \in Products : \E r \in D : MayDecrementNext(r, p)}
            Ranks == {LockOrder[p] : p \in Wanted}
<1>1. ASSUME NEW r \in R, request[r].phase # "sent"
      PROVE  r \in D /\ \E s \in R \ {r} : \E p \in Locks(s) : MayDecrementNext(r, p)
  BY <1>1 DEF WaitsFor, MayDecrementNext
<1>2. ASSUME NEW r \in R, request[r].phase = "sent" PROVE D # {}
  <2>1. PICK s \in R : Claims(s, CustomerOf[r], request[r].key)
    BY <1>2 DEF WaitsFor, MayDecrementNext
  <2>2. request[s].phase # "sent"
    BY <2>1 DEF Claims, InTransaction
  <2>. QED
    BY <1>1, <2>2
<1>3. \A s \in R : \A p \in Locks(s) : s \in D
  BY DEF Locks
<1>4. ASSUME NEW r \in D
      PROVE  \E s \in D : \E p \in Wanted : p \in Locks(s) /\ MayDecrementNext(r, p)
  <2>1. PICK s \in R : \E p \in Locks(s) : MayDecrementNext(r, p)
    BY <1>1
  <2>2. PICK p \in Locks(s) : MayDecrementNext(r, p)
    BY <2>1
  <2>3. p \in Products
    BY <2>2 DEF MayDecrementNext, Undecremented
  <2>. QED
    BY <1>3, <2>2, <2>3
<1>5. D # {}
  BY <1>1, <1>2
<1>6. Cardinality(Products) \in Nat
  BY FS_CardinalityType, CheckoutShape
<1>7. Ranks \in SUBSET (0..Cardinality(Products)) /\ Ranks # {}
  <2>1. \A p \in Products : LockOrder[p] \in 0..Cardinality(Products)
    BY <1>6, CheckoutShape
  <2>2. Wanted # {}
    BY <1>4, <1>5
  <2>. QED
    BY <2>1, <2>2
<1>8. PICK m \in Ranks : \A x \in Ranks : x <= m
  <2>. HIDE DEF Ranks
  <2>. QED
    BY <1>6, <1>7, GreatestExists
<1>9. PICK p \in Wanted : m = LockOrder[p]
  OBVIOUS
<1>10. PICK r \in D : MayDecrementNext(r, p)
  OBVIOUS
<1>11. PICK s \in D : p \in Locks(s)
  <2>1. PICK s \in D, q \in Wanted : q \in Locks(s) /\ MayDecrementNext(r, q)
    BY <1>4
  <2>2. LockOrder[p] <= LockOrder[q] /\ LockOrder[q] <= LockOrder[p]
    BY <1>10, <2>1 DEF MayDecrementNext
  <2>3. LockOrder[p] \in Int /\ LockOrder[q] \in Int
    BY CheckoutShape
  <2>4. LockOrder[p] = LockOrder[q]
    BY <2>2, <2>3
  <2>5. p = q
    BY <2>4, CheckoutShape
  <2>. QED
    BY <2>1, <2>5
<1>12. PICK q \in Wanted : MayDecrementNext(s, q)
  BY <1>4
<1>13. LockOrder[p] < LockOrder[q]
  BY <1>11, <1>12 DEF MayDecrementNext, Inv, RequestInv, LockedInOrder
<1>14. LockOrder[q] <= LockOrder[p]
  BY <1>8, <1>9
<1>15. LockOrder[p] \in Int /\ LockOrder[q] \in Int
  BY CheckoutShape
<1>. QED
  BY <1>13, <1>14, <1>15

\* Whatever products their carts share, checkouts do not deadlock.
THEOREM NoDeadlock == Spec => []NoCyclicWait
  BY InvNoCyclicWait, CheckoutInvariant, PTL

-----------------------------------------------------------------------------
(* The refinement.                                                         *)

\* What the mapping shows of a customer's key and of the stock.
Receipts(c, k) ==
    {[id |-> r, lines |-> [p \in Products \ Editable |-> order[r].lines[p]]] :
        r \in OrdersFor(c, k)}

LEMMA CommitBuys ==
    ASSUME TypeOK, Inv, NEW r \in Requests, Commit(r)
    PROVE  Purchase!PNext
<1>. DEFINE P == Products \ Editable
            c == CustomerOf[r]
            k == request[r].key
            lines == [p \in P |-> request[r].lines[p]]
            receipts == [d \in Customers |-> [j \in Keys |-> Receipts(d, j)]]
            available == [p \in P |-> stock[p]]
<1>1. /\ c \in Customers /\ k \in Keys
      /\ request[r].lines \in [Products -> 0..MaxQuantity]
      /\ request[r].phase = "decrementing" /\ Undecremented(r) = {}
  BY CheckoutShape DEF TypeOK, Request, Lines, Commit
<1>2. lines \in [P -> 0..MaxQuantity]
  BY <1>1
<1>3. /\ order'[r] = [customer |-> c, key |-> k, lines |-> request[r].lines]
      /\ \A s \in Requests \ {r} : order'[s] = order[s]
      /\ \A d, j :
            \/ d = c /\ j = k /\ OrdersFor(d, j) = {} /\ OrdersFor(d, j)' = {r}
            \/ ~ (d = c /\ j = k) /\ OrdersFor(d, j)' = OrdersFor(d, j)
  BY CommitOrders
<1>4. receipts[c][k] = {}
  <2>1. OrdersFor(c, k) = {}
    BY <1>3, Zenon
  <2>. QED
    BY <1>1, <2>1 DEF Receipts
<1>5. \A p \in P : lines[p] <= available[p]
  BY <1>1, TakenInStock
<1>6. available' = [p \in P |-> available[p] - lines[p]]
  BY DEF Commit
<1>7. receipts' = [receipts EXCEPT ![c][k] = {[id |-> r, lines |-> lines]}]
  <2>1. ASSUME NEW d \in Customers, NEW j \in Keys, ~ (d = c /\ j = k)
        PROVE  Receipts(d, j)' = Receipts(d, j)
    <3>1. OrdersFor(d, j)' = OrdersFor(d, j)
      BY <1>3, <2>1, Zenon
    <3>2. r \notin OrdersFor(d, j)
      BY <2>1, <3>1, <1>3 DEF OrdersFor
    <3>3. \A s \in OrdersFor(d, j) : order'[s] = order[s]
      BY <1>3, <3>2 DEF OrdersFor
    <3>. QED
      BY <3>1, <3>3 DEF Receipts
  <2>2. ASSUME NEW d \in Customers, NEW j \in Keys, d = c, j = k
        PROVE  Receipts(d, j)' = {[id |-> r, lines |-> lines]}
    <3>1. OrdersFor(d, j)' = {r}
      BY <1>3, <2>2, Zenon
    <3>2. order'[r].lines = request[r].lines
      BY <1>3
    <3>. QED
      BY <3>1, <3>2 DEF Receipts
  <2>. QED
    BY <1>1, <2>1, <2>2
<1>8. PICK key \in Keys : key = k
  BY <1>1
<1>9. PICK bought \in Purchase!Lines : bought = lines
  BY <1>2 DEF Purchase!Lines
<1>10. Purchase!Buy(c, key, r, bought)
  BY <1>4, <1>5, <1>6, <1>7, <1>8, <1>9 DEF Purchase!Buy, Receipts
<1>. QED
  BY <1>1, <1>10 DEF Purchase!PNext

\* Any other step buys nothing.
LEMMA OthersBuyNothing ==
    ASSUME \A p \in Products \ Editable : stock'[p] = stock[p], order' = order
    PROVE  UNCHANGED Purchase!pvars
<1>1. \A c, k : OrdersFor(c, k)' = OrdersFor(c, k)
  BY DEF OrdersFor
<1>. QED
  BY <1>1 DEF Purchase!pvars

LEMMA StepBuys == TypeOK /\ Inv /\ [Next]_vars => [Purchase!PNext]_(Purchase!pvars)
<1>. SUFFICES ASSUME TypeOK, Inv, [Next]_vars
              PROVE  Purchase!PNext \/ UNCHANGED Purchase!pvars
  OBVIOUS
<1>1. ASSUME NEW r \in Requests, Commit(r) PROVE Purchase!PNext
  BY <1>1, CommitBuys
<1>2. CASE stock' = stock /\ order' = order
  BY <1>2, OthersBuyNothing
<1>3. ASSUME NEW p \in Editable, NEW isPublished \in BOOLEAN, SaveEdit(p, isPublished)
      PROVE  UNCHANGED Purchase!pvars
  <2>1. order' = order /\ \A q \in Products \ Editable : stock'[q] = stock[q]
    BY <1>3 DEF SaveEdit, TypeOK
  <2>. QED
    BY <2>1, OthersBuyNothing
<1>4. \/ stock' = stock /\ order' = order
      \/ \E r \in Requests : Commit(r)
      \/ \E p \in Editable : \E isPublished \in BOOLEAN : SaveEdit(p, isPublished)
  BY DEF Next, vars, RequestStep, Send, Crash, ClaimKey, Replay, ReadCart,
         Decrement, Respond, WriteCartItem, ClearCart, ReadForEdit
<1>. QED
  BY <1>1, <1>2, <1>3, <1>4

LEMMA InitBuys == Init => Purchase!PInit
<1>. SUFFICES ASSUME Init PROVE Purchase!PInit
  OBVIOUS
<1>1. \A c \in Customers, k \in Keys : OrdersFor(c, k) = {}
  BY DEF Init, OrdersFor
<1>2. \A p \in Products : stock[p] = InitialStock[p]
  BY DEF Init
<1>. QED
  BY <1>1, <1>2 DEF Purchase!PInit

\* However its requests are duplicated, retried, blocked or lost, checkout
\* implements purchases that are indivisible, one for a key, of units that
\* were there.
THEOREM ImplementsPurchases == Spec => PurchasesOnce
<1>. QED
  BY InitBuys, StepBuys, CheckoutInvariant, PTL
  DEF Spec, PurchasesOnce, Purchase!PSpec
=============================================================================
