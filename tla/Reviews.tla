------------------------------- MODULE Reviews -------------------------------
(***************************************************************************)
(* Reviews: the reviews of one product and the count and average that the  *)
(* product's row keeps of them (ReviewsService, review-policy). Every      *)
(* review transaction locks the product's row first. The seller's edit of  *)
(* the product reads the row without a lock and saves it whole.            *)
(***************************************************************************)
EXTENDS Naturals, FiniteSets, FiniteSetsExt

CONSTANTS
    Reviewers,      \* customers
    ReviewCalls,    \* requests
    Stars,          \* ratings a review may give
    Unrated,        \* no review
    Nobody          \* no request

ASSUME ReviewsShape ==
    /\ Stars \subseteq 1..5
    /\ Unrated \notin Stars /\ Nobody \notin Reviewers \cup ReviewCalls

VARIABLES
    purchase,       \* what became of a customer's purchase of the product
    review,         \* the Review rows: the stars a customer gave
    rating,         \* ratingCount and ratingAverage of the Product row
    productLock,    \* the request that holds the row
    reviewCall,     \* what a request is doing
    edit,           \* the rating in the product that a seller's edit has read
    reverted        \* an edit has saved a rating that was not the row's

reviewsVars == <<purchase, review, rating, productLock, reviewCall, edit, reverted>>

NoCall == [stage |-> "idle"]

\* storedRatingAggregate: the average with two decimals, in hundredths.
StoredRatingAggregate(count, sum) ==
    [count |-> count,
     average |-> IF count = 0 THEN 0 ELSE (200 * sum + count) \div (2 * count)]

Aggregate(reviews) ==
    LET given == {c \in Reviewers : reviews[c] # Unrated}
    IN  StoredRatingAggregate(Cardinality(given), MapThenSumSet(LAMBDA c : reviews[c], given))

ReviewsTypeOK ==
    /\ purchase \in [Reviewers -> {"none", "delivered", "refunded"}]
    /\ review \in [Reviewers -> Stars \cup {Unrated}]
    /\ rating.count \in 0..Cardinality(Reviewers) /\ rating.average \in 0..500
    /\ productLock \in ReviewCalls \cup {Nobody}
    /\ \A r \in ReviewCalls : reviewCall[r].stage \in {"idle", "waiting", "locked", "saved"}
    /\ reverted \in BOOLEAN

ReviewsInit ==
    /\ purchase = [c \in Reviewers |-> "none"]
    /\ review = [c \in Reviewers |-> Unrated]
    /\ rating = Aggregate(review)
    /\ productLock = Nobody
    /\ reviewCall = [r \in ReviewCalls |-> NoCall]
    /\ edit = Unrated
    /\ reverted = FALSE

---------------------------------------------------------------------------

\* An order is delivered; its last unit is refunded: steps of SellerOrders.
SettlePurchase(c) ==
    /\ \/ purchase[c] = "none" /\ purchase' = [purchase EXCEPT ![c] = "delivered"]
       \/ purchase[c] = "delivered" /\ purchase' = [purchase EXCEPT ![c] = "refunded"]
    /\ UNCHANGED <<review, rating, productLock, reviewCall, edit, reverted>>

\* update and remove look for the customer's review before the transaction.
Ask(r, c, stars, asksFor) ==
    /\ reviewCall[r] = NoCall
    /\ asksFor = "create" \/ review[c] # Unrated
    /\ reviewCall' = [reviewCall EXCEPT ![r] =
            [stage |-> "waiting", customer |-> c, stars |-> stars, asksFor |-> asksFor]]
    /\ UNCHANGED <<purchase, review, rating, productLock, edit, reverted>>

\* Mutant: the product is read without its lock.
LockProduct_Unlocked(r) ==
    /\ reviewCall[r].stage = "waiting"
    /\ productLock' = r
    /\ reviewCall' = [reviewCall EXCEPT ![r].stage = "locked"]
    /\ UNCHANGED <<purchase, review, rating, edit, reverted>>

LockProduct(r) ==
    /\ reviewCall[r].stage = "waiting"
    /\ productLock = Nobody
    /\ productLock' = r
    /\ reviewCall' = [reviewCall EXCEPT ![r].stage = "locked"]
    /\ UNCHANGED <<purchase, review, rating, edit, reverted>>

\* isReviewEligible: delivered, and not refunded in full.
FindEligibleItem(c) == purchase[c] = "delivered"

\* A review is written once per product and customer, by the unique index; it
\* is changed or removed if it is still there.
Permitted(call) ==
    IF call.asksFor = "create" THEN FindEligibleItem(call.customer) /\ review[call.customer] = Unrated
    ELSE review[call.customer] # Unrated

RefuseReview(r) ==
    /\ reviewCall[r].stage = "locked"
    /\ ~Permitted(reviewCall[r])
    /\ reviewCall' = [reviewCall EXCEPT ![r] = NoCall]
    /\ productLock' = Nobody
    /\ UNCHANGED <<purchase, review, rating, edit, reverted>>

\* recalculateRating: the aggregate of the committed reviews and of this one.
RecalculateRating(r) ==
    LET call == reviewCall[r]
    IN  /\ call.stage = "locked"
        /\ Permitted(call)
        /\ reviewCall' = [reviewCall EXCEPT ![r] =
                [stage |-> "saved", customer |-> call.customer, stars |-> call.stars,
                 aggregate |-> Aggregate([review EXCEPT ![call.customer] = call.stars])]]
        /\ UNCHANGED <<purchase, review, rating, productLock, edit, reverted>>

CommitReview(r) ==
    LET call == reviewCall[r]
    IN  /\ call.stage = "saved"
        /\ review' = [review EXCEPT ![call.customer] = call.stars]
        /\ rating' = call.aggregate
        /\ reverted' = FALSE
        /\ productLock' = Nobody
        /\ reviewCall' = [reviewCall EXCEPT ![r] = NoCall]
        /\ UNCHANGED <<purchase, edit>>

---------------------------------------------------------------------------
(* updateOwned reads the product, and later saves every column that differs *)
(* from the row.                                                            *)

ReadForEdit ==
    /\ edit = Unrated
    /\ edit' = rating
    /\ UNCHANGED <<purchase, review, rating, productLock, reviewCall, reverted>>

SaveEdit ==
    /\ edit # Unrated
    /\ productLock = Nobody
    /\ rating' = edit
    /\ reverted' = (reverted \/ edit # rating)
    /\ edit' = Unrated
    /\ UNCHANGED <<purchase, review, productLock, reviewCall>>

ReviewsNext ==
    \/ \E c \in Reviewers : SettlePurchase(c)
    \/ \E r \in ReviewCalls :
        \/ LockProduct(r) \/ RefuseReview(r) \/ RecalculateRating(r) \/ CommitReview(r)
        \/ \E c \in Reviewers :
            \/ Ask(r, c, Unrated, "remove")
            \/ \E stars \in Stars : Ask(r, c, stars, "create") \/ Ask(r, c, stars, "update")
    \/ ReadForEdit \/ SaveEdit

ReviewsSpec == ReviewsInit /\ [][ReviewsNext]_reviewsVars

---------------------------------------------------------------------------
(* Properties.                                                             *)

\* The rating that the catalog shows is that of the product's reviews, whoever
\* writes, changes and removes them at the same time, unless an edit of the
\* product has put back the rating it had read; the next review repairs it.
RatingOfReviews == reverted \/ rating = Aggregate(review)
=============================================================================
