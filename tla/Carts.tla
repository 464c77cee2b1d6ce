-------------------------------- MODULE Carts --------------------------------
(***************************************************************************)
(* Carts: the cart of one customer as CartService changes it, and as the   *)
(* customer's tabs show it (features/cart/hooks, CartPage, CheckoutPage).  *)
(*                                                                         *)
(* The service takes no lock: it reads a line and saves it in a later      *)
(* step, and a checkout reads the lines and deletes those of the cart when *)
(* it commits. What a checkout does in between is in Checkout; here every  *)
(* product has stock for MaxQuantity units.                                *)
(*                                                                         *)
(* A tab keeps one copy of the cart. What matters of a copy is which       *)
(* version of the cart it is, or that it is a guess: the tab patches its   *)
(* copy when a change is sent, puts the former copy back when it fails,    *)
(* and fetches the cart again after either.                                *)
(***************************************************************************)
EXTENDS Naturals, FiniteSets

CONSTANTS
    Wares,          \* products for sale at a fixed price
    Tabs,           \* pages that the customer has open
    Clicks,         \* changes that the customer makes (a bound)
    TabOf,          \* where a change is made: in one of the tabs, or elsewhere
    MaxQuantity,    \* units in stock of each product
    Hideable,       \* products that their seller may hide (a bound)
    Elsewhere,      \* a device of the customer whose page is not followed
    Asked,          \* a fetch that is not answered yet
    Guess,          \* a copy that is not a version of the cart
    Unknown         \* no copy, no fetch, not explained

ASSUME CartsShape ==
    /\ TabOf \in [Clicks -> Tabs \cup {Elsewhere}] /\ Elsewhere \notin Tabs
    /\ MaxQuantity \in Nat \ {0}
    /\ Hideable \subseteq Wares
    /\ Asked # Guess /\ Asked # Unknown /\ Guess # Unknown
    /\ {Asked, Guess, Unknown} \cap Nat = {}

VARIABLES
    line,           \* the CartItem rows: the quantity, 0 for no row
    hidden,         \* products that are not published
    version,        \* counts the changes of the rows
    click,          \* what became of a change
    shown,          \* the copy that a tab has
    fetch,          \* the fetch of the cart that a tab waits for
    owed,           \* the quantity that the changes ask for, if they were one at a time
    heardOf,        \* the version after the last change that a tab was told of
    overtaken       \* tabs whose copy was set by an answer that others may have passed

cartsVars == <<line, hidden, version, click, shown, fetch, owed, heardOf, overtaken>>
pages == <<shown, fetch, heardOf, overtaken>>

Kinds == {"add", "set", "remove", "clear", "checkout"}
NewClick == [stage |-> "new"]
Over == [stage |-> "over"]   \* served, and the tab has been told or never will
NoLines == [w \in Wares |-> 0]

CartsTypeOK ==
    /\ line \in [Wares -> 0..MaxQuantity]
    /\ hidden \subseteq Hideable
    /\ version \in 0..Cardinality(Clicks)
    /\ \A c \in Clicks : click[c].stage \in {"new", "sent", "read", "saved", "served", "over"}
    /\ \A t \in Tabs : /\ shown[t] \in 0..version \cup {Guess, Unknown}
                       /\ fetch[t] \in 0..version \cup {Asked, Unknown}
                       /\ heardOf[t] \in 0..version
    /\ \A w \in Wares : owed[w] \in Nat \cup {Unknown}
    /\ overtaken \subseteq Tabs

CartsInit ==
    /\ line = NoLines
    /\ hidden = {}
    /\ version = 0
    /\ click = [c \in Clicks |-> NewClick]
    /\ shown = [t \in Tabs |-> Unknown]
    /\ fetch = [t \in Tabs |-> Asked]
    /\ owed = NoLines
    /\ heardOf = [t \in Tabs |-> 0]
    /\ overtaken = {}

---------------------------------------------------------------------------
(* A tab sends a change.                                                   *)

Started(c) == click[c] \notin {NewClick, Over}

\* The tab has not been told how the change ended.
Awaits(t, c) == TabOf[c] = t /\ Started(c) /\ click[c].awaited

AwaitsKind(t, kinds) == \E c \in Clicks : Awaits(t, c) /\ click[c].kind \in kinds

\* The hooks that set the copy from the answer and fetch nothing.
SetByAnswer == {"add", "checkout"}

\* onMutate: the fetch is cancelled, the copy is kept and patched. Adding a
\* product and checking out patch nothing.
Patch(t, kind) ==
    IF kind \in SetByAnswer THEN UNCHANGED <<shown, fetch>>
    ELSE /\ fetch' = [fetch EXCEPT ![t] = Unknown]
         /\ shown' = [shown EXCEPT ![t] = IF @ = Unknown THEN Unknown ELSE Guess]

\* An answer that will set the copy is on its way together with another, or with
\* a fetch.
Crosses(t, kind) ==
    \/ AwaitsKind(t, SetByAnswer)
    \/ kind \in SetByAnswer /\ (fetch[t] # Unknown \/ AwaitsKind(t, Kinds))

Sent(c, kind, w, quantity, awaited, previous) ==
    /\ click[c] = NewClick
    /\ click' = [click EXCEPT ![c] =
            [stage |-> "sent", awaited |-> awaited, kind |-> kind, ware |-> w,
             quantity |-> quantity, previous |-> previous, read |-> NoLines, version |-> 0]]
    /\ UNCHANGED <<line, hidden, version, owed, heardOf>>

\* The buttons of a line are disabled while it is changed, and those that clear
\* the cart and check out while they are at it. All but the button that adds
\* stand on pages that show a copy; the one that clears stays when a copy could
\* not be fetched again.
Enabled(t, kind, w) ==
    /\ shown[t] # Unknown \/ kind = "add" \/ (kind = "clear" /\ fetch[t] = Unknown)
    /\ kind \in {"set", "remove"} =>
        ~\E d \in Clicks : Awaits(t, d) /\ click[d].kind \in {"set", "remove"} /\ click[d].ware = w
    /\ ~AwaitsKind(t, {kind} \cap {"clear", "checkout"})

SendChange(c, t, kind, w, quantity) ==
    /\ TabOf[c] = t
    /\ Enabled(t, kind, w)
    /\ Sent(c, kind, w, quantity, TRUE, IF kind \in SetByAnswer THEN Unknown ELSE shown[t])
    /\ Patch(t, kind)
    /\ overtaken' = IF Crosses(t, kind) THEN overtaken \cup {t} ELSE overtaken

SendElsewhere(c, kind, w, quantity) ==
    /\ TabOf[c] = Elsewhere
    /\ Sent(c, kind, w, quantity, FALSE, Unknown)
    /\ UNCHANGED <<shown, fetch, overtaken>>

---------------------------------------------------------------------------
(* CartService, and the rows of a checkout.                                *)

At(c, stage, kinds) == click[c].stage = stage /\ click[c].kind \in kinds

\* getPurchasableProduct and assertWithinStock
Purchasable(w, quantity) == w \notin hidden /\ quantity <= MaxQuantity

NextQuantity(c, read) ==
    IF click[c].kind = "add" THEN read + click[c].quantity ELSE click[c].quantity

MayWrite(c) ==
    LET w == click[c].ware
    IN  /\ click[c].kind = "set" => line[w] > 0
        /\ Purchasable(w, NextQuantity(c, line[w]))

\* addItem, updateItemQuantity: the line and the product are read.
ReadLine(c) ==
    /\ At(c, "sent", {"add", "set"})
    /\ MayWrite(c)
    /\ click' = [click EXCEPT ![c].stage = "read", ![c].read = line]
    /\ UNCHANGED <<line, hidden, version, owed, pages>>

\* What is still to be known of a change that the tab waits for.
Served(c, stage, at) ==
    [click EXCEPT ![c] = IF click[c].awaited
                         THEN [@ EXCEPT !.stage = stage, !.version = at, !.read = NoLines]
                         ELSE Over]

\* The rows change; the changes ask for the quantities asked. Only after an
\* addition does the tab use the view that the answer brings.
ChangeRows(c, rows, asked) ==
    /\ line' = rows
    /\ owed' = asked
    /\ version' = version + 1
    /\ click' = Served(c, IF click[c].kind = "add" THEN "saved" ELSE "served", version + 1)

\* What the line should be after this write, if no other came since the read.
Explained(c, w, quantity, unchanged) ==
    [owed EXCEPT ![w] = IF unchanged /\ (@ # Unknown \/ click[c].kind = "set") THEN quantity
                        ELSE Unknown]

\* Mutant: an insert that meets a row writes over it.
InsertLine_Upsert(c) ==
    LET w == click[c].ware
    IN  /\ At(c, "read", {"add"})
        /\ click[c].read[w] = 0
        /\ ChangeRows(c, [line EXCEPT ![w] = click[c].quantity],
                      [owed EXCEPT ![w] = IF @ = Unknown THEN @ ELSE @ + click[c].quantity])
        /\ UNCHANGED <<hidden, pages>>

\* There was no row: the unique index of cart and product decides, and addItem
\* starts again when another request has inserted the row.
InsertLine(c) ==
    LET w == click[c].ware
    IN  /\ At(c, "read", {"add"})
        /\ click[c].read[w] = 0
        /\ IF line[w] > 0
           THEN /\ click' = [click EXCEPT ![c].stage = "sent", ![c].read = NoLines]
                /\ UNCHANGED <<line, version, owed>>
           ELSE ChangeRows(c, [line EXCEPT ![w] = click[c].quantity],
                           [owed EXCEPT ![w] = IF @ = Unknown THEN @ ELSE @ + click[c].quantity])
        /\ UNCHANGED <<hidden, pages>>

\* The row that was read is saved, whatever it is by now; one that was deleted
\* is inserted again.
SaveLine(c) ==
    LET w == click[c].ware
        next == NextQuantity(c, click[c].read[w])
    IN  /\ At(c, "read", {"add", "set"})
        /\ click[c].read[w] > 0
        /\ ChangeRows(c, [line EXCEPT ![w] = next],
                      Explained(c, w, next, line[w] = click[c].read[w]))
        /\ UNCHANGED <<hidden, pages>>

\* removeItem, clearCart
DeleteLines(c) ==
    LET gone == IF click[c].kind = "clear" THEN Wares ELSE {click[c].ware}
        without(rows) == [w \in Wares |-> IF w \in gone THEN 0 ELSE rows[w]]
    IN  /\ At(c, "sent", {"remove", "clear"})
        /\ ChangeRows(c, without(line), without(owed))
        /\ UNCHANGED <<hidden, pages>>

\* A checkout reads every line of the cart; it is refused when there is none,
\* or when one is of a product that is not for sale any more.
Orderable == line # NoLines /\ \A w \in Wares : line[w] > 0 => w \notin hidden

ReadForCheckout(c) ==
    /\ At(c, "sent", {"checkout"})
    /\ Orderable
    /\ click' = [click EXCEPT ![c].stage = "read", ![c].read = line]
    /\ UNCHANGED <<line, hidden, version, owed, pages>>

OrderedLines(c) == click[c].read

\* The order is written and the items of the cart are deleted, whichever they
\* are by now.
CommitCheckout(c) ==
    /\ At(c, "read", {"checkout"})
    /\ ChangeRows(c, NoLines, [w \in Wares |->
            IF line[w] # click[c].read[w] THEN Unknown
            ELSE IF owed[w] = Unknown THEN 0 ELSE owed[w] - OrderedLines(c)[w]])
    /\ UNCHANGED <<hidden, pages>>

\* buildView: the answer is the cart as it is now, without the lines of hidden
\* products.
BuildView(c) ==
    /\ Started(c) /\ click[c].stage = "saved"
    /\ click' = Served(c, "served", version)
    /\ UNCHANGED <<line, hidden, version, owed, pages>>

\* The seller hides the product, or publishes it again.
Publish(w) ==
    /\ hidden' = IF w \in hidden THEN hidden \ {w} ELSE hidden \cup {w}
    /\ UNCHANGED <<line, version, click, owed, pages>>

---------------------------------------------------------------------------
(* The tab is told.                                                        *)

\* Mutant: only a change that failed is followed by a fetch.
OnSettled_OfErrors(t, c, failed) ==
    IF click[c].kind \in SetByAnswer \/ ~failed THEN UNCHANGED <<fetch, overtaken>>
    ELSE /\ fetch' = [fetch EXCEPT ![t] = Asked]
         /\ overtaken' = IF AwaitsKind(t, SetByAnswer) THEN overtaken \cup {t}
                         ELSE overtaken \ {t}

\* onSettled: invalidateQueries abandons the fetch that is under way and starts
\* another. There was a copy when the change was sent: no first fetch is joined.
OnSettled(t, c, failed) ==
    IF click[c].kind \in SetByAnswer THEN UNCHANGED <<fetch, overtaken>>
    ELSE /\ fetch' = [fetch EXCEPT ![t] = Asked]
         /\ overtaken' = IF AwaitsKind(t, SetByAnswer) THEN overtaken \cup {t}
                         ELSE overtaken \ {t}

Settled(c) ==
    [click EXCEPT ![c] = IF @.stage \in {"saved", "served"} THEN Over
                         ELSE [@ EXCEPT !.awaited = FALSE, !.previous = Unknown]]

\* onSuccess
ReceiveChange(t, c) ==
    /\ Awaits(t, c)
    /\ click[c].stage = "served"
    /\ click' = Settled(c)
    /\ shown' = IF click[c].kind \in SetByAnswer
                THEN [shown EXCEPT ![t] = click[c].version] ELSE shown
    /\ heardOf' = [heardOf EXCEPT ![t] =
            IF click[c].version > @ THEN click[c].version ELSE @]
    /\ OnSettled(t, c, FALSE)
    /\ UNCHANGED <<line, hidden, version, owed>>

\* onError: the copy is the one that there was when the change was sent.
RollBack(t, c) ==
    shown' = IF click[c].previous = Unknown THEN shown
             ELSE [shown EXCEPT ![t] = click[c].previous]

Refused(c) ==
    \/ At(c, "sent", {"add", "set"}) /\ ~MayWrite(c)
    \/ At(c, "sent", {"checkout"}) /\ ~Orderable

FailChange(t, c) ==
    /\ Awaits(t, c)
    /\ RollBack(t, c)
    /\ OnSettled(t, c, TRUE)
    /\ UNCHANGED <<line, hidden, version, owed, heardOf>>

\* Nobody waits for it any more.
ServiceRefuses(c) ==
    /\ Started(c) /\ ~click[c].awaited
    /\ Refused(c)
    /\ click' = [click EXCEPT ![c] = Over]
    /\ UNCHANGED <<line, hidden, version, owed, pages>>

\* The service refuses: there is no such line, or not enough units, or the
\* product is not for sale.
RefuseChange(t, c) ==
    /\ FailChange(t, c)
    /\ Refused(c)
    /\ click' = [click EXCEPT ![c] = Over]

\* The answer is lost. What the service does with the request goes on.
LoseChange(t, c) ==
    /\ FailChange(t, c)
    /\ click' = Settled(c)

\* A page is mounted again and its copy is old, whatever is on its way to it.
Refetch(t) ==
    /\ fetch[t] = Unknown
    /\ heardOf[t] < version     \* a fetch of what there is already shows nothing new
    /\ fetch' = [fetch EXCEPT ![t] = Asked]
    /\ overtaken' = IF AwaitsKind(t, SetByAnswer) THEN overtaken \cup {t} ELSE overtaken
    /\ UNCHANGED <<line, hidden, version, click, owed, shown, heardOf>>

\* getCartView
GetCartView(t) ==
    /\ fetch[t] = Asked
    /\ fetch' = [fetch EXCEPT ![t] = version]
    /\ UNCHANGED <<line, hidden, version, click, owed, shown, heardOf, overtaken>>

\* It fails: the pages say so, and the copy is fetched when they are visited again.
FailFetch(t) ==
    /\ fetch[t] # Unknown
    /\ fetch' = [fetch EXCEPT ![t] = Unknown]
    /\ shown' = [shown EXCEPT ![t] = Unknown]
    /\ UNCHANGED <<line, hidden, version, click, owed, heardOf, overtaken>>

ReceiveCart(t) ==
    /\ fetch[t] \in Nat
    /\ shown' = [shown EXCEPT ![t] = fetch[t]]
    /\ fetch' = [fetch EXCEPT ![t] = Unknown]
    /\ UNCHANGED <<line, hidden, version, click, owed, heardOf, overtaken>>

Serve(c) ==
    /\ Started(c)
    /\ \/ ReadLine(c) \/ InsertLine(c) \/ SaveLine(c) \/ DeleteLines(c)
       \/ ReadForCheckout(c) \/ CommitCheckout(c) \/ BuildView(c) \/ ServiceRefuses(c)

\* CartController, CartPage and CheckoutPage: what a tab may ask for.
MayAsk(kind, w, quantity) ==
    /\ kind \in {"remove", "clear", "checkout"} => quantity = 1
    /\ kind \in {"clear", "checkout"} => w = CHOOSE v \in Wares : TRUE

CartsNext ==
    \/ \E c \in Clicks :
        \/ Serve(c)
        \/ \E t \in Tabs : ReceiveChange(t, c) \/ RefuseChange(t, c) \/ LoseChange(t, c)
        \/ \E kind \in Kinds, w \in Wares, quantity \in 1..MaxQuantity :
            /\ MayAsk(kind, w, quantity)
            /\ \/ SendElsewhere(c, kind, w, quantity)
               \/ \E t \in Tabs : SendChange(c, t, kind, w, quantity)
    \/ \E w \in Hideable : Publish(w)
    \/ \E t \in Tabs : Refetch(t) \/ GetCartView(t) \/ FailFetch(t) \/ ReceiveCart(t)

CartsSpec == CartsInit /\ [][CartsNext]_cartsVars

---------------------------------------------------------------------------
(* Properties.                                                             *)

\* Each line has the quantity that the changes made of it ask for, one after
\* the other, and a checkout takes from the cart exactly what it orders, also
\* of two tabs that add the same product first. What is left out is a line
\* that was saved or deleted after another change than the one that was read.
LinesExplained == \A w \in Wares : owed[w] # Unknown => line[w] = owed[w]

Quiet(t) == fetch[t] = Unknown /\ ~AwaitsKind(t, Kinds)

\* A tab that waits for nothing, and has a copy of the cart, shows every change
\* that it was told of, and no guess: whatever order its changes are answered
\* in, whichever fail, and whatever becomes of those whose answer was lost. The
\* exception is a copy that was set from the answer of an added product or a
\* checkout while other answers were on their way: nothing is fetched after it.
QuietTabIsCurrent ==
    \A t \in Tabs \ overtaken :
        Quiet(t) /\ shown[t] # Unknown => shown[t] # Guess /\ shown[t] >= heardOf[t]
=============================================================================
