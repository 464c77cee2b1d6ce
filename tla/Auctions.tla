------------------------------ MODULE Auctions ------------------------------
(***************************************************************************)
(* Auctions from creation to sale: SellerAuctionsService, the bids of      *)
(* BidPlacementService, the activation, finalization, expiry and           *)
(* cancellation of AuctionLifecycleService, and the winner's purchase in   *)
(* AuctionCheckoutService.                                                 *)
(*                                                                         *)
(* Every operation but one is a transaction that holds the Auction's row   *)
(* lock from its first look at the auction to its commit, so it is one     *)
(* step, and whatever triggered it (a request, a delayed job delivered     *)
(* early, late or twice, the reconciliation sweep) it happens only if its  *)
(* checks on the locked row pass.  The exception is the seller's edit: it  *)
(* reads the auction and the number of bids without a lock; TypeORM's save *)
(* reads the row again, to find the columns that differ from the entity;   *)
(* the UPDATE of these columns then waits for the lock.                    *)
(***************************************************************************)
EXTENDS Integers, FiniteSets

CONSTANTS
    Auctions,
    Bidders,            \* the seller is none of them: no bid on one's own auction
    Keys,               \* idempotency keys, of bids and of purchases
    Amounts,            \* prices that can be asked or bid
    MinBidIncrement,
    PurchaseWindow,     \* AUCTION_PURCHASE_WINDOW_MINUTES
    Stocks,             \* how many units of a product there can be
    Times, MaxTime,     \* what startsAt and endsAt can be; the clock's end (bounds)
    MaxEdits            \* edits of an auction (a bound)

Nobody == "Nobody"
Never == -1

ASSUME AuctionShape ==
    /\ Nobody \notin Bidders \cup Auctions
    /\ Amounts \subseteq Nat \ {0}
    /\ MinBidIncrement \in Nat \ {0}
    /\ PurchaseWindow \in Nat
    /\ Stocks \subseteq Nat
    /\ Times \subseteq Nat
    /\ MaxTime \in Nat
    /\ MaxEdits \in Nat

AuctionStatus == {"SCHEDULED", "ACTIVE", "AWAITING_PAYMENT", "ENDED",
                  "UNSOLD", "EXPIRED", "COMPLETED", "CANCELLED"}
Open == {"SCHEDULED", "ACTIVE"}

VARIABLES
    now,        \* the application server's clock
    auction,    \* the committed Auction rows
    bids,       \* the Bid rows of an auction, append-only
    stock,      \* Product.stockQuantity of the auctioned product
    orders,     \* the orders that purchases of the auction created
    purchased,  \* the auction a COMPLETED checkout key of a bidder bought
    edit,       \* the seller's edit in progress
    edits       \* how many edits were begun

vars == <<now, auction, bids, stock, orders, purchased, edit, edits>>

Row == [status : AuctionStatus \cup {"Absent"}, startPrice : Amounts \cup {0},
        currentPrice : Amounts \cup {0}, winner : Bidders \cup {Nobody},
        startsAt : Times \cup {Never}, endsAt : Times \cup {Never},
        purchaseWindowEndsAt : Nat \cup {Never}]

NoAuction == [status |-> "Absent", startPrice |-> 0, currentPrice |-> 0,
              winner |-> Nobody, startsAt |-> Never, endsAt |-> Never,
              purchaseWindowEndsAt |-> Never]

Columns == DOMAIN NoAuction

\* none; read: `entity` is the row found; saving: `entity` is edited, and its
\* `columns` are those the UPDATE will write.
Edit == [phase : {"none", "read", "saving"}, entity : Row,
         columns : SUBSET Columns]
NoEdit == [phase |-> "none", entity |-> NoAuction, columns |-> {}]

Bid == [bidder : Bidders, key : Keys, amount : Amounts]

TypeOK ==
    /\ now \in 0..MaxTime
    /\ auction \in [Auctions -> Row]
    /\ bids \in [Auctions -> SUBSET Bid]
    /\ stock \in [Auctions -> Nat]
    /\ orders \in [Auctions -> SUBSET [buyer : Bidders, key : Keys,
                                       amount : Amounts \cup {0}]]
    /\ purchased \in [Bidders -> [Keys -> Auctions \cup {Nobody}]]
    /\ edit \in [Auctions -> Edit]
    /\ edits \in [Auctions -> 0..MaxEdits]

\* The form of a product takes any stock, for an auction as for a fixed price.
Init ==
    /\ now = 0
    /\ auction = [a \in Auctions |-> NoAuction]
    /\ bids = [a \in Auctions |-> {}]
    /\ stock \in [Auctions -> Stocks]
    /\ orders = [a \in Auctions |-> {}]
    /\ purchased = [b \in Bidders |-> [k \in Keys |-> Nobody]]
    /\ edit = [a \in Auctions |-> NoEdit]
    /\ edits = [a \in Auctions |-> 0]

ForwardTransitions ==
    [s \in AuctionStatus |->
        CASE s = "SCHEDULED"        -> {"ACTIVE", "CANCELLED"}
          [] s = "ACTIVE"           -> {"UNSOLD", "AWAITING_PAYMENT", "CANCELLED"}
          [] s = "AWAITING_PAYMENT" -> {"COMPLETED", "EXPIRED"}
          [] OTHER                  -> {}]

CancellableFrom == {"SCHEDULED", "ACTIVE"}

Tick ==
    /\ now < MaxTime
    /\ now' = now + 1
    /\ UNCHANGED <<auction, bids, stock, orders, purchased, edit, edits>>

-----------------------------------------------------------------------------
(* The seller.                                                             *)

StatusAt(startsAt) == IF startsAt <= now THEN "ACTIVE" ELSE "SCHEDULED"

\* A product has one auction (unique index on productId).
Create(a, price, startsAt, endsAt) ==
    /\ auction[a] = NoAuction
    /\ startsAt < endsAt
    /\ now < endsAt
    /\ auction' = [auction EXCEPT ![a] =
          [status |-> StatusAt(startsAt), startPrice |-> price,
           currentPrice |-> price, winner |-> Nobody, startsAt |-> startsAt,
           endsAt |-> endsAt, purchaseWindowEndsAt |-> Never]]
    /\ UNCHANGED <<now, bids, stock, orders, purchased, edit, edits>>

\* update, before its transaction: findOwned, the count of the bids and
\* isEditable.
StartEdit(a) ==
    /\ edit[a] = NoEdit
    /\ edits[a] < MaxEdits
    /\ auction[a].status \in Open
    /\ bids[a] = {}
    /\ edit' = [edit EXCEPT ![a] = [phase |-> "read", entity |-> auction[a],
                                    columns |-> {}]]
    /\ edits' = [edits EXCEPT ![a] = @ + 1]
    /\ UNCHANGED <<now, auction, bids, stock, orders, purchased>>

\* In the transaction: the request's values and the status that follows from
\* startsAt are put into the entity, and save compares it with the row.
SaveEdit(a, price, startsAt, endsAt) ==
    LET read == edit[a].entity
        entity == [read EXCEPT !.startPrice = price, !.currentPrice = price,
                               !.startsAt = startsAt, !.endsAt = endsAt,
                               !.status = StatusAt(startsAt)]
    IN  /\ edit[a].phase = "read"
        /\ startsAt < endsAt
        /\ edit' = [edit EXCEPT ![a] =
              [phase |-> "saving", entity |-> entity,
               columns |-> {f \in Columns : entity[f] # auction[a][f]}]]
        /\ UNCHANGED <<now, auction, bids, stock, orders, purchased, edits>>

UpdateEdited(a) ==
    /\ edit[a].phase = "saving"
    /\ auction' = [auction EXCEPT ![a] =
          [f \in Columns |-> IF f \in edit[a].columns THEN edit[a].entity[f]
                                                       ELSE auction[a][f]]]
    /\ edit' = [edit EXCEPT ![a] = NoEdit]
    /\ UNCHANGED <<now, bids, stock, orders, purchased, edits>>

\* The edit is refused (another value is not valid) or its request fails.
AbandonEdit(a) ==
    /\ edit[a] # NoEdit
    /\ edit' = [edit EXCEPT ![a] = NoEdit]
    /\ UNCHANGED <<now, auction, bids, stock, orders, purchased, edits>>

\* By the seller or an admin.  Cancelling again changes nothing.
Cancel(a) ==
    /\ auction[a].status \in CancellableFrom
    /\ auction' = [auction EXCEPT ![a].status = "CANCELLED"]
    /\ UNCHANGED <<now, bids, stock, orders, purchased, edit, edits>>

\* The seller edits the product, whose form has the stock, or a refund or a
\* cancellation of one of its orders gives units back.
SetStock(a) ==
    /\ \E units \in Stocks : stock' = [stock EXCEPT ![a] = units]
    /\ UNCHANGED <<now, auction, bids, orders, purchased, edit, edits>>

-----------------------------------------------------------------------------
(* Bidding.                                                                *)

WithinBiddingWindow(a) == auction[a].startsAt <= now /\ now < auction[a].endsAt

\* Mutant: an equal bid is enough.
MinNextBid_NoIncrement(a) ==
    IF auction[a].winner # Nobody THEN auction[a].currentPrice
    ELSE auction[a].startPrice

\* The first bid may equal the start price.
MinNextBid(a) ==
    IF auction[a].winner # Nobody THEN auction[a].currentPrice + MinBidIncrement
    ELSE auction[a].startPrice

\* A key that has bid is answered with its bid (replayBid), or refused if the
\* amount is another; neither changes anything.
HasBid(a, b, k) == \E bid \in bids[a] : bid.bidder = b /\ bid.key = k

PlaceBid(a, b, k, amount) ==
    /\ ~HasBid(a, b, k)
    /\ auction[a].status \in Open
    /\ WithinBiddingWindow(a)
    /\ amount >= MinNextBid(a)
    /\ bids' = [bids EXCEPT ![a] = @ \cup {[bidder |-> b, key |-> k, amount |-> amount]}]
    /\ auction' = [auction EXCEPT ![a].status = "ACTIVE",
                                  ![a].currentPrice = amount, ![a].winner = b]
    /\ UNCHANGED <<now, stock, orders, purchased, edit, edits>>

-----------------------------------------------------------------------------
(* The deadlines.                                                          *)

Activate(a) ==
    /\ auction[a].status = "SCHEDULED"
    /\ WithinBiddingWindow(a)
    /\ auction' = [auction EXCEPT ![a].status = "ACTIVE"]
    /\ UNCHANGED <<now, bids, stock, orders, purchased, edit, edits>>

\* Mutant: only an auction that somebody activated is finalized.
Finalizable_ActiveOnly == {"ACTIVE"}

\* Mutant: a redelivered job finalizes what is over already.
Finalizable_NotCancelled == AuctionStatus \ {"CANCELLED"}

Finalizable == {"ACTIVE", "SCHEDULED"}

HighestBids(a) ==
    {bid \in bids[a] : \A other \in bids[a] : other.amount <= bid.amount}

\* Of equal bids, which only an edit between them makes possible, the one of
\* the transaction that began first wins, whichever that was.
Finalize(a) ==
    /\ auction[a].status \in Finalizable
    /\ auction[a].endsAt <= now
    /\ \/ /\ bids[a] = {}
          /\ auction' = [auction EXCEPT ![a].status = "UNSOLD"]
       \/ \E bid \in HighestBids(a) :
             auction' = [auction EXCEPT
                ![a].status = "AWAITING_PAYMENT", ![a].winner = bid.bidder,
                ![a].currentPrice = bid.amount,
                ![a].purchaseWindowEndsAt = now + PurchaseWindow]
    /\ UNCHANGED <<now, bids, stock, orders, purchased, edit, edits>>

WindowOver(a) ==
    /\ auction[a].purchaseWindowEndsAt # Never
    /\ auction[a].purchaseWindowEndsAt <= now

ExpirePurchaseWindow(a) ==
    /\ auction[a].status = "AWAITING_PAYMENT"
    /\ WindowOver(a)
    /\ auction' = [auction EXCEPT ![a].status = "EXPIRED"]
    /\ UNCHANGED <<now, bids, stock, orders, purchased, edit, edits>>

-----------------------------------------------------------------------------
(* The winner's purchase.                                                  *)

\* Mutant: whoever bid may buy.
MayPurchase_AnyBidder(a, b) ==
    /\ auction[a].status = "AWAITING_PAYMENT"
    /\ auction[a].purchaseWindowEndsAt # Never
    /\ now <= auction[a].purchaseWindowEndsAt

MayPurchase(a, b) ==
    /\ auction[a].winner = b
    /\ auction[a].status = "AWAITING_PAYMENT"
    /\ auction[a].purchaseWindowEndsAt # Never
    /\ now <= auction[a].purchaseWindowEndsAt

InStock(a) == stock[a] >= 1

\* A key that has bought before, whatever it was, is answered with that order
\* (replayCompletedCheckout).
HasBought(b, k) == purchased[b][k] # Nobody

Purchase(a, b, k) ==
    /\ ~HasBought(b, k)
    /\ MayPurchase(a, b)
    /\ InStock(a)
    /\ stock' = [stock EXCEPT ![a] = @ - 1]
    /\ orders' = [orders EXCEPT ![a] = @ \cup
          {[buyer |-> b, key |-> k, amount |-> auction[a].currentPrice]}]
    /\ auction' = [auction EXCEPT ![a].status = "COMPLETED"]
    /\ purchased' = [purchased EXCEPT ![b][k] = a]
    /\ UNCHANGED <<now, bids, edit, edits>>

-----------------------------------------------------------------------------
Next ==
    \/ Tick
    \/ \E a \in Auctions :
          \/ \E price \in Amounts, startsAt, endsAt \in Times :
                Create(a, price, startsAt, endsAt) \/ SaveEdit(a, price, startsAt, endsAt)
          \/ StartEdit(a)
          \/ UpdateEdited(a)
          \/ AbandonEdit(a)
          \/ Cancel(a)
          \/ SetStock(a)
          \/ \E b \in Bidders, k \in Keys :
                \/ \E amount \in Amounts : PlaceBid(a, b, k, amount)
                \/ Purchase(a, b, k)
          \/ Activate(a)
          \/ Finalize(a)
          \/ ExpirePurchaseWindow(a)

Spec == Init /\ [][Next]_vars

\* A delayed job may be lost (a failed add is swallowed), so it promises
\* nothing; the reconciliation sweep calls finalizeAuction and
\* expirePurchaseWindow for what it finds overdue every ten seconds.
FairSpec ==
    /\ Spec
    /\ \A a \in Auctions : WF_vars(Finalize(a)) /\ WF_vars(ExpirePurchaseWindow(a))

-----------------------------------------------------------------------------
(* Properties.  A seller's edit that races a bid may overwrite what the bid *)
(* and all that followed it wrote; what holds in spite of that is stated    *)
(* for every auction, the rest for those that were not edited.              *)

Unedited(a) == edits[a] = 0

\* The leader and the price on the auction's row are those of the one highest
\* bid, each bid having beaten every earlier one by the increment; the
\* finalization, which looks for the highest bid again, agrees.
LeaderIsHighest ==
    \A a \in Auctions :
        Unedited(a) /\ bids[a] # {} =>
            \E best \in bids[a] :
                /\ auction[a].winner = best.bidder
                /\ auction[a].currentPrice = best.amount
                /\ \A other \in bids[a] \ {best} :
                      other.amount + MinBidIncrement <= best.amount

\* Each sale of an auction but the first takes an edit of its seller's that
\* reopened it, however many units its product has and however requests,
\* retries and deadlines race.  Without an edit there is one sale at most, it
\* completed the auction, and the buyer is the highest bidder, at that bid.
SaleSound ==
    \A a \in Auctions :
        /\ Cardinality(orders[a]) <= 1 + edits[a]
        /\ Unedited(a) =>
              \A o \in orders[a] :
                  /\ auction[a].status = "COMPLETED"
                  /\ \E bid \in HighestBids(a) :
                        o.buyer = bid.bidder /\ o.amount = bid.amount

\* Late, early and repeated triggers move an auction only as the policy says;
\* what was sold, cancelled, expired or ended unsold stays so.
UneditedFollowsPolicy ==
    [][\A a \in Auctions :
          LET from == auction[a].status
              to == auction'[a].status
          IN  /\ edits'[a] = 0
              /\ from # "Absent"
              /\ from # to
              => \/ to \in ForwardTransitions[from]
                 \* A bid or the deadline takes a scheduled one through ACTIVE.
                 \/ /\ from = "SCHEDULED"
                    /\ to \in ForwardTransitions["ACTIVE"]]_vars

\* An auction past its end does not stay open, whatever happened to its job
\* and whether or not anybody ever saw it active; and a winner who does not buy
\* does not block it for ever.
AuctionsSettle ==
    \A a \in Auctions :
        LET unended == auction[a].status \in Open /\ auction[a].endsAt <= now
            unbought == auction[a].status = "AWAITING_PAYMENT"
                          /\ auction[a].purchaseWindowEndsAt <= now
        IN  (unended ~> ~unended) /\ (unbought ~> ~unbought)

=============================================================================
