------------------------- MODULE StorefrontProofs -------------------------
(***************************************************************************)
(* Theorems about five of the components that MCStorefront runs side by    *)
(* side: the reviews, the disputes, the notices, the cart and the reports. *)
(* Each has a specification and an inductive invariant of its own.         *)
(***************************************************************************)
EXTENDS Reviews, Disputes, Notifications, Carts, Analytics, MoneyProofs,
        FiniteSetTheorems, TLAPS

---------------------------------------------------------------------------
(* RatingOfReviews, for any number of customers, requests and ratings. The *)
(* average itself is never computed here: what matters is of which rows it *)
(* was taken, and that they are still the rows when it is written.         *)

\* What a request that has the product's row locked knows.
Waiting(call) ==
    /\ call.customer \in Reviewers
    /\ call.stars \in Stars \cup {Unrated}
    /\ call = [stage |-> call.stage, customer |-> call.customer,
               stars |-> call.stars, asksFor |-> call.asksFor]

Saved(call) ==
    /\ call.customer \in Reviewers
    /\ call.stars \in Stars \cup {Unrated}
    /\ call = [stage |-> "saved", customer |-> call.customer,
               stars |-> call.stars, aggregate |-> call.aggregate]

CallShape(call) ==
    \/ call = NoCall
    \/ call.stage \in {"waiting", "locked"} /\ Waiting(call)
    \/ call.stage = "saved" /\ Saved(call)

\* Requests are well-formed, and each customer has one review or none.
CallsSound ==
    /\ review \in [Reviewers -> Stars \cup {Unrated}]
    /\ reviewCall = [r \in ReviewCalls |-> reviewCall[r]]
    /\ \A r \in ReviewCalls : CallShape(reviewCall[r])

\* A request that has read the reviews, or is about to, holds the product's row.
LockHeld ==
    \A r \in ReviewCalls : reviewCall[r].stage \in {"locked", "saved"} => productLock = r

\* What a request is about to write is the aggregate of the reviews as its own
\* commit leaves them: nobody else can have written one since it read them.
SavedIsCurrent ==
    \A r \in ReviewCalls :
        reviewCall[r].stage = "saved" =>
            reviewCall[r].aggregate
                = Aggregate([review EXCEPT ![reviewCall[r].customer] = reviewCall[r].stars])

ReviewsInv == CallsSound /\ LockHeld /\ SavedIsCurrent /\ RatingOfReviews

LEMMA ReviewsInvHolds == ReviewsInit => ReviewsInv
  <1> SUFFICES ASSUME ReviewsInit PROVE ReviewsInv
    OBVIOUS
  <1>1. \A r \in ReviewCalls : reviewCall[r] = NoCall /\ reviewCall[r].stage = "idle"
    BY DEF ReviewsInit, NoCall
  <1>2. CallsSound
    BY <1>1 DEF ReviewsInit, CallsSound, CallShape
  <1>3. LockHeld /\ SavedIsCurrent
    BY <1>1 DEF LockHeld, SavedIsCurrent
  <1>4. RatingOfReviews
    BY DEF ReviewsInit, RatingOfReviews
  <1> QED
    BY <1>2, <1>3, <1>4 DEF ReviewsInv

LEMMA CallsSoundStep == ReviewsInv /\ [ReviewsNext]_reviewsVars => CallsSound'
  <1> SUFFICES ASSUME ReviewsInv, [ReviewsNext]_reviewsVars PROVE CallsSound'
    OBVIOUS
  <1>0. /\ CallsSound
        /\ review \in [Reviewers -> Stars \cup {Unrated}]
        /\ \A r \in ReviewCalls : CallShape(reviewCall[r])
    BY DEF ReviewsInv, CallsSound
  <1>1. CASE UNCHANGED <<review, reviewCall>>
    BY <1>0, <1>1 DEF CallsSound
  <1>2. ASSUME NEW r \in ReviewCalls, NEW c \in Reviewers, NEW stars \in Stars \cup {Unrated},
               NEW asksFor, Ask(r, c, stars, asksFor)
        PROVE  CallsSound'
    <2>1. CallShape([stage |-> "waiting", customer |-> c, stars |-> stars, asksFor |-> asksFor])
      BY DEF CallShape, Waiting
    <2> QED
      BY <1>0, <1>2, <2>1 DEF Ask, CallsSound
  <1>3. ASSUME NEW r \in ReviewCalls, LockProduct(r) PROVE CallsSound'
    <2>1. PICK call : call = reviewCall[r]
      OBVIOUS
    <2>2. Waiting(call) /\ call.stage = "waiting"
      BY <1>0, <1>3, <2>1 DEF LockProduct, CallShape, NoCall
    <2>3. CallShape([call EXCEPT !.stage = "locked"])
      BY <2>2 DEF CallShape, Waiting
    <2> QED
      BY <1>0, <1>3, <2>1, <2>3 DEF LockProduct, CallsSound
  <1>4. ASSUME NEW r \in ReviewCalls, RefuseReview(r) PROVE CallsSound'
    BY <1>0, <1>4 DEF RefuseReview, CallsSound, CallShape
  <1>5. ASSUME NEW r \in ReviewCalls, RecalculateRating(r) PROVE CallsSound'
    <2>1. PICK call : call = reviewCall[r]
      OBVIOUS
    <2>2. Waiting(call)
      BY <1>0, <1>5, <2>1 DEF RecalculateRating, CallShape, NoCall
    <2>3. ASSUME NEW aggregate
          PROVE  CallShape([stage |-> "saved", customer |-> call.customer,
                            stars |-> call.stars, aggregate |-> aggregate])
      BY <2>2 DEF CallShape, Waiting, Saved
    <2> QED
      BY <1>0, <1>5, <2>1, <2>3 DEF RecalculateRating, CallsSound
  <1>6. ASSUME NEW r \in ReviewCalls, CommitReview(r) PROVE CallsSound'
    <2>1. reviewCall[r].customer \in Reviewers /\ reviewCall[r].stars \in Stars \cup {Unrated}
      <3>1. reviewCall[r].stage = "saved" /\ CallShape(reviewCall[r])
        BY <1>0, <1>6 DEF CommitReview
      <3>2. Saved(reviewCall[r])
        BY <3>1 DEF CallShape, NoCall
      <3> QED
        BY <3>2 DEF Saved
    <2>2. CallShape(NoCall)
      BY DEF CallShape
    <2> QED
      BY <1>0, <1>6, <2>1, <2>2 DEF CommitReview, CallsSound
  <1>7. ASSUME NEW c \in Reviewers, SettlePurchase(c) PROVE CallsSound'
    BY <1>1, <1>7 DEF SettlePurchase
  <1>8. CASE ReadForEdit \/ SaveEdit
    BY <1>1, <1>8 DEF ReadForEdit, SaveEdit
  <1> QED
    BY <1>1, <1>2, <1>3, <1>4, <1>5, <1>6, <1>7, <1>8 DEF ReviewsNext, reviewsVars

LEMMA LockHeldStep == ReviewsInv /\ [ReviewsNext]_reviewsVars => LockHeld'
  <1> SUFFICES ASSUME ReviewsInv, [ReviewsNext]_reviewsVars,
                      NEW q \in ReviewCalls, (reviewCall[q].stage \in {"locked", "saved"})'
               PROVE  productLock' = q
    BY DEF LockHeld
  <1>0. /\ LockHeld /\ Nobody \notin ReviewCalls
        /\ reviewCall = [r \in ReviewCalls |-> reviewCall[r]]
        /\ \A r \in ReviewCalls : CallShape(reviewCall[r])
    BY ReviewsShape DEF ReviewsInv, CallsSound
  <1>1. CASE UNCHANGED <<productLock, reviewCall>>
    BY <1>0, <1>1 DEF LockHeld
  <1>2. ASSUME NEW r \in ReviewCalls, NEW c, NEW stars, NEW asksFor, Ask(r, c, stars, asksFor)
        PROVE  productLock' = q
    BY <1>0, <1>2 DEF Ask, LockHeld
  <1>3. ASSUME NEW r \in ReviewCalls, LockProduct(r) PROVE productLock' = q
    <2>1. CASE q = r
      BY <1>3, <2>1 DEF LockProduct
    <2>2. CASE q # r
      BY <1>0, <1>3, <2>2 DEF LockProduct, LockHeld
    <2> QED
      BY <2>1, <2>2
  <1>4. ASSUME NEW r \in ReviewCalls, RefuseReview(r) PROVE productLock' = q
    <2>1. productLock = r
      BY <1>0, <1>4 DEF RefuseReview, LockHeld
    <2>2. q # r
      BY <1>0, <1>4 DEF RefuseReview, NoCall
    <2> QED
      BY <1>0, <1>4, <2>1, <2>2 DEF RefuseReview, LockHeld
  <1>5. ASSUME NEW r \in ReviewCalls, RecalculateRating(r) PROVE productLock' = q
    <2>1. productLock = r
      BY <1>0, <1>5 DEF RecalculateRating, LockHeld
    <2>2. CASE q = r
      BY <1>5, <2>1, <2>2 DEF RecalculateRating
    <2>3. CASE q # r
      BY <1>0, <1>5, <2>3 DEF RecalculateRating, LockHeld
    <2> QED
      BY <2>2, <2>3
  <1>6. ASSUME NEW r \in ReviewCalls, CommitReview(r) PROVE productLock' = q
    <2>1. productLock = r
      BY <1>0, <1>6 DEF CommitReview, LockHeld
    <2>2. q # r
      BY <1>0, <1>6 DEF CommitReview, NoCall
    <2> QED
      BY <1>0, <1>6, <2>1, <2>2 DEF CommitReview, LockHeld
  <1>7. ASSUME NEW c \in Reviewers, SettlePurchase(c) PROVE productLock' = q
    BY <1>1, <1>7 DEF SettlePurchase
  <1>8. CASE ReadForEdit \/ SaveEdit
    BY <1>1, <1>8 DEF ReadForEdit, SaveEdit
  <1> QED
    BY <1>1, <1>2, <1>3, <1>4, <1>5, <1>6, <1>7, <1>8 DEF ReviewsNext, reviewsVars

LEMMA SavedIsCurrentStep == ReviewsInv /\ [ReviewsNext]_reviewsVars => SavedIsCurrent'
  <1> SUFFICES ASSUME ReviewsInv, [ReviewsNext]_reviewsVars,
                      NEW q \in ReviewCalls, (reviewCall[q].stage = "saved")'
               PROVE  (reviewCall[q].aggregate
                = Aggregate([review EXCEPT ![reviewCall[q].customer] = reviewCall[q].stars]))'
    BY DEF SavedIsCurrent
  <1> DEFINE Fresh(call, rows) ==
        call.aggregate = Aggregate([rows EXCEPT ![call.customer] = call.stars])
  <1>0. /\ LockHeld /\ SavedIsCurrent
        /\ reviewCall = [r \in ReviewCalls |-> reviewCall[r]]
    BY DEF ReviewsInv, CallsSound
  <1>1. CASE review' = review /\ reviewCall'[q] = reviewCall[q]
    <2>1. Fresh(reviewCall[q], review)
      BY <1>0, <1>1 DEF SavedIsCurrent
    <2> QED
      BY <1>1, <2>1
  <1>2. ASSUME NEW r \in ReviewCalls, RecalculateRating(r), q = r
        PROVE  Fresh(reviewCall'[q], review')
    <2>1. PICK call : call = reviewCall[r]
      OBVIOUS
    <2>2. reviewCall'[q] = [stage |-> "saved", customer |-> call.customer, stars |-> call.stars,
                            aggregate |-> Aggregate([review EXCEPT ![call.customer] = call.stars])]
      BY <1>0, <1>2, <2>1 DEF RecalculateRating
    <2>3. review' = review
      BY <1>2 DEF RecalculateRating
    <2> QED
      BY <2>2, <2>3
  <1>3. ASSUME NEW r \in ReviewCalls, CommitReview(r) PROVE FALSE
    <2>1. q # r
      BY <1>0, <1>3 DEF CommitReview, NoCall
    <2>2. reviewCall[q].stage = "saved" /\ reviewCall[r].stage = "saved"
      BY <1>0, <1>3, <2>1 DEF CommitReview
    <2> QED
      BY <1>0, <2>1, <2>2 DEF LockHeld
  <1>4. ASSUME NEW r \in ReviewCalls, NEW c, NEW stars, NEW asksFor, Ask(r, c, stars, asksFor)
        PROVE  review' = review /\ reviewCall'[q] = reviewCall[q]
    BY <1>0, <1>4 DEF Ask
  <1>5. ASSUME NEW r \in ReviewCalls, LockProduct(r)
        PROVE  review' = review /\ reviewCall'[q] = reviewCall[q]
    <2>1. q # r
      BY <1>0, <1>5 DEF LockProduct
    <2> QED
      BY <1>0, <1>5, <2>1 DEF LockProduct
  <1>6. ASSUME NEW r \in ReviewCalls, RefuseReview(r)
        PROVE  review' = review /\ reviewCall'[q] = reviewCall[q]
    BY <1>0, <1>6 DEF RefuseReview, NoCall
  <1>7. ASSUME NEW r \in ReviewCalls, RecalculateRating(r), q # r
        PROVE  review' = review /\ reviewCall'[q] = reviewCall[q]
    BY <1>0, <1>7 DEF RecalculateRating
  <1>8. ASSUME NEW c \in Reviewers, SettlePurchase(c)
        PROVE  review' = review /\ reviewCall'[q] = reviewCall[q]
    BY <1>8 DEF SettlePurchase
  <1>9. ASSUME ReadForEdit \/ SaveEdit \/ UNCHANGED reviewsVars
        PROVE  review' = review /\ reviewCall'[q] = reviewCall[q]
    BY <1>9 DEF ReadForEdit, SaveEdit, reviewsVars
  <1> QED
    BY <1>1, <1>2, <1>3, <1>4, <1>5, <1>6, <1>7, <1>8, <1>9 DEF ReviewsNext

LEMMA RatingStep == ReviewsInv /\ [ReviewsNext]_reviewsVars => RatingOfReviews'
  <1> SUFFICES ASSUME ReviewsInv, [ReviewsNext]_reviewsVars PROVE RatingOfReviews'
    OBVIOUS
  <1>0. SavedIsCurrent /\ RatingOfReviews
    BY DEF ReviewsInv
  <1>1. CASE UNCHANGED <<review, rating, reverted>>
    BY <1>0, <1>1 DEF RatingOfReviews
  <1>2. ASSUME NEW r \in ReviewCalls, CommitReview(r) PROVE RatingOfReviews'
    <2>1. rating' = Aggregate(review')
      BY <1>0, <1>2 DEF CommitReview, SavedIsCurrent
    <2> QED
      BY <2>1 DEF RatingOfReviews
  <1>3. CASE SaveEdit
    \* The edit writes what is there, or says that it does not.
    BY <1>0, <1>3 DEF SaveEdit, RatingOfReviews
  <1>4. ASSUME NEW r \in ReviewCalls,
               \/ \E c, stars, asksFor : Ask(r, c, stars, asksFor)
               \/ LockProduct(r) \/ RefuseReview(r) \/ RecalculateRating(r)
        PROVE  UNCHANGED <<review, rating, reverted>>
    BY <1>4 DEF Ask, LockProduct, RefuseReview, RecalculateRating
  <1>5. ASSUME \/ \E c \in Reviewers : SettlePurchase(c)
               \/ ReadForEdit \/ UNCHANGED reviewsVars
        PROVE  UNCHANGED <<review, rating, reverted>>
    BY <1>5 DEF SettlePurchase, ReadForEdit, reviewsVars
  <1> QED
    BY <1>1, <1>2, <1>3, <1>4, <1>5 DEF ReviewsNext

\* The rating in the product's row is that of its reviews, whoever writes,
\* changes and removes reviews at the same time, unless an edit of the product
\* has put back what it had read (ReviewsService.recalculateRating under the
\* lock of the product's row).
THEOREM RatingCorrect == ReviewsSpec => []RatingOfReviews
  <1>1. ReviewsInv /\ [ReviewsNext]_reviewsVars => ReviewsInv'
    BY CallsSoundStep, LockHeldStep, SavedIsCurrentStep, RatingStep DEF ReviewsInv
  <1>2. ReviewsInv => RatingOfReviews
    BY DEF ReviewsInv
  <1> QED
    BY ReviewsInvHolds, <1>1, <1>2, PTL DEF ReviewsSpec

---------------------------------------------------------------------------
(* DecidedOnce, for any number of disputes, administrators and units.      *)

EventsOf(d) == {e \in resolvedEvents : e.dispute = d}

UnitsRefunded(d) == {<<r.key, r.units>> : r \in RefundsOf(d)}

Decided(d) == Exists(d) /\ dispute[d].outcome # Null

\* The rows are well-formed, and a request is about a dispute that is there.
RowsSound ==
    /\ dispute \in [DisputeIds -> {Null} \cup DisputeRows]
    /\ request = [a \in Admins |-> request[a]]
    /\ \A a \in Admins :
        request[a].stage \in {"sent", "locked"} =>
            Requested(a) \in Resolutions /\ Exists(Requested(a).dispute)

\* An outcome is kept by every later change of the status, and the early return
\* of a resolution sees it.
OutcomeIsFinal == \A d \in DisputeIds : Decided(d) => AlreadyDecided(d)

\* One event for a dispute with an outcome, and none for another.
DecisionRecorded(d) ==
    IF Decided(d)
    THEN \E e : /\ EventsOf(d) = {e}
                /\ e.outcome = dispute[d].outcome
                /\ UnitsRefunded(d) = IF e.units = 0 THEN {} ELSE {<<e.refund, e.units>>}
    ELSE EventsOf(d) = {} /\ RefundsOf(d) = {}

DecisionsRecorded == \A d \in DisputeIds : DecisionRecorded(d)

DisputesInv == RowsSound /\ OutcomeIsFinal /\ DecisionsRecorded

LEMMA RecordedIsDecidedOnce == DecisionsRecorded => DecidedOnce
  <1> SUFFICES ASSUME DecisionsRecorded, NEW d \in DisputeIds
               PROVE  LET events == EventsOf(d)
                      IN  /\ Cardinality(events)
                                = IF Exists(d) /\ dispute[d].outcome # Null THEN 1 ELSE 0
                          /\ \A e \in events :
                              /\ e.outcome = dispute[d].outcome
                              /\ UnitsRefunded(d)
                                    = IF e.units = 0 THEN {} ELSE {<<e.refund, e.units>>}
                          /\ events = {} => RefundsOf(d) = {}
    BY DEF DecidedOnce, EventsOf, UnitsRefunded
  <1>0. DecisionRecorded(d)
    BY DEF DecisionsRecorded
  <1>1. CASE Decided(d)
    <2>1. PICK e : /\ EventsOf(d) = {e}
                   /\ e.outcome = dispute[d].outcome
                   /\ UnitsRefunded(d) = IF e.units = 0 THEN {} ELSE {<<e.refund, e.units>>}
      BY <1>0, <1>1 DEF DecisionRecorded
    <2>2. Cardinality(EventsOf(d)) = 1
      BY <2>1, FS_Singleton
    <2>3. EventsOf(d) # {}
      BY <2>1
    <2> QED
      BY <1>1, <2>1, <2>2, <2>3 DEF Decided
  <1>2. CASE ~Decided(d)
    <2>1. EventsOf(d) = {} /\ RefundsOf(d) = {}
      BY <1>0, <1>2 DEF DecisionRecorded
    <2>2. Cardinality(EventsOf(d)) = 0
      BY <2>1, FS_EmptySet
    <2> QED
      BY <1>2, <2>1, <2>2 DEF Decided
  <1> QED
    BY <1>1, <1>2

LEMMA DisputesInvHolds == DisputesInit => DisputesInv
  <1> SUFFICES ASSUME DisputesInit PROVE DisputesInv
    OBVIOUS
  <1>1. \A d \in DisputeIds : ~Decided(d)
    BY DEF DisputesInit, Decided, Exists
  <1>2. RowsSound
    BY DEF DisputesInit, RowsSound, NoRequest
  <1>3. OutcomeIsFinal
    BY <1>1 DEF OutcomeIsFinal
  <1>4. DecisionsRecorded
    BY <1>1 DEF DisputesInit, DecisionsRecorded, DecisionRecorded, EventsOf, RefundsOf
  <1> QED
    BY <1>2, <1>3, <1>4 DEF DisputesInv

---------------------------------------------------------------------------
(* What the steps do to one dispute.                                       *)

\* A row whose outcome, events and refunds stay is as soundly recorded as before.
LEMMA RecordKept ==
    ASSUME NEW d \in DisputeIds, DecisionRecorded(d),
           Exists(d)' <=> Exists(d),
           Exists(d) => dispute'[d].outcome = dispute[d].outcome,
           EventsOf(d)' = EventsOf(d),
           RefundsOf(d)' = RefundsOf(d)
    PROVE  DecisionRecorded(d)'
  <1>1. Decided(d)' <=> Decided(d)
    BY DEF Decided
  <1>2. UnitsRefunded(d)' = UnitsRefunded(d)
    BY DEF UnitsRefunded
  <1>3. CASE Decided(d)
    BY <1>1, <1>2, <1>3 DEF DecisionRecorded, Decided
  <1>4. CASE ~Decided(d)
    BY <1>1, <1>4 DEF DecisionRecorded
  <1> QED
    BY <1>3, <1>4

\* The steps that decide nothing: rows and refunds are as before, but for
\* refunds of no dispute, and new, undecided rows.
LEMMA UndecidedStep ==
    ASSUME DisputesInv,
           resolvedEvents' = resolvedEvents,
           \A d \in DisputeIds : RefundsOf(d)' = RefundsOf(d),
           dispute' \in [DisputeIds -> {Null} \cup DisputeRows],
           \A d \in DisputeIds :
               \/ /\ Exists(d)' <=> Exists(d)
                  /\ Exists(d) => /\ dispute'[d].outcome = dispute[d].outcome
                                  /\ AlreadyDecided(d) => AlreadyDecided(d)'
               \/ ~Exists(d) /\ dispute'[d].outcome = Null
    PROVE  OutcomeIsFinal' /\ DecisionsRecorded'
  <1> SUFFICES ASSUME NEW d \in DisputeIds
               PROVE  (Decided(d) => AlreadyDecided(d))' /\ DecisionRecorded(d)'
    BY DEF OutcomeIsFinal, DecisionsRecorded
  <1>0. DecisionRecorded(d) /\ (Decided(d) => AlreadyDecided(d))
    BY DEF DisputesInv, OutcomeIsFinal, DecisionsRecorded
  <1>1. EventsOf(d)' = EventsOf(d) /\ RefundsOf(d)' = RefundsOf(d)
    BY DEF EventsOf
  <1>2. CASE /\ Exists(d)' <=> Exists(d)
             /\ Exists(d) => /\ dispute'[d].outcome = dispute[d].outcome
                             /\ AlreadyDecided(d) => AlreadyDecided(d)'
    <2>1. DecisionRecorded(d)'
      BY <1>0, <1>1, <1>2, RecordKept
    <2> QED
      BY <1>0, <1>2, <2>1 DEF Decided
  <1>3. CASE ~Exists(d) /\ dispute'[d].outcome = Null
    <2>1. ~Decided(d) /\ ~Decided(d)'
      BY <1>3 DEF Decided
    <2> QED
      BY <1>0, <1>1, <2>1 DEF DecisionRecorded
  <1> QED
    BY <1>2, <1>3

LEMMA OpenDisputeStep ==
    ASSUME DisputesInv, NEW o \in Parcels, OpenDispute(o)
    PROVE  DisputesInv'
  <1> DEFINE opened == [order |-> o, status |-> "OPEN", outcome |-> Null, response |-> FALSE]
  <1>0. RowsSound
    BY DEF DisputesInv
  <1>1. PICK n \in DisputeIds : ~Exists(n) /\ dispute' = [dispute EXCEPT ![n] = opened]
    BY DEF OpenDispute
  <1>2. opened \in DisputeRows /\ opened # Null
    <2>1. opened \in DisputeRows
      BY DEF DisputeRows, DisputeStatus
    <2>2. Null \notin DisputeRows
      BY DisputesShape
    <2> QED
      BY <2>1, <2>2
  <1>3. dispute' \in [DisputeIds -> {Null} \cup DisputeRows]
    BY <1>0, <1>1, <1>2 DEF RowsSound
  <1>4. \A d \in DisputeIds : d # n => dispute'[d] = dispute[d]
    BY <1>0, <1>1 DEF RowsSound
  <1>5. dispute'[n] = opened
    BY <1>0, <1>1 DEF RowsSound
  <1>6. /\ UNCHANGED <<refunds, resolvedEvents, request>>
        /\ \A d \in DisputeIds : RefundsOf(d)' = RefundsOf(d)
    BY DEF OpenDispute, RefundsOf
  <1>7. OutcomeIsFinal' /\ DecisionsRecorded'
    <2>1. ASSUME NEW d \in DisputeIds, d # n
          PROVE  /\ Exists(d)' <=> Exists(d)
                 /\ dispute'[d].outcome = dispute[d].outcome
                 /\ AlreadyDecided(d) => AlreadyDecided(d)'
      BY <1>4, <2>1 DEF Exists, AlreadyDecided
    <2>2. ~Exists(n) /\ dispute'[n].outcome = Null
      BY <1>1, <1>5
    <2> QED
      BY <1>3, <1>6, <2>1, <2>2, UndecidedStep
  <1>8. RowsSound'
    <2>1. \A d \in DisputeIds : Exists(d) => Exists(d)'
      BY <1>2, <1>4, <1>5 DEF Exists
    <2>2. \A a \in Admins : Requested(a)' = Requested(a)
      BY <1>6 DEF Requested
    <2>3. \A a \in Admins : Requested(a) \in Resolutions => Requested(a).dispute \in DisputeIds
      BY DEF Resolutions
    <2> QED
      BY <1>0, <1>3, <1>6, <2>1, <2>2, <2>3 DEF RowsSound
  <1> QED
    BY <1>7, <1>8 DEF DisputesInv

\* The seller's answer and a status without an outcome.
LEMMA RowStep ==
    ASSUME DisputesInv, NEW n \in DisputeIds,
           \/ SellerRespond(n)
           \/ UpdateStatus(n, "UNDER_REVIEW") \/ UpdateStatus(n, "CLOSED")
    PROVE  DisputesInv'
  <1>0. RowsSound /\ Exists(n) /\ dispute[n] \in DisputeRows
    BY DEF DisputesInv, RowsSound, SellerRespond, IsActiveDispute, UpdateStatus, Exists
  <1>1. PICK row : row = dispute[n]
    OBVIOUS
  <1>2. PICK new \in DisputeRows :
            /\ dispute' = [dispute EXCEPT ![n] = new]
            /\ new.outcome = row.outcome
            /\ row.status \in {"RESOLVED_CUSTOMER", "RESOLVED_SELLER", "CLOSED"}
                => new.status \in {"RESOLVED_CUSTOMER", "RESOLVED_SELLER", "CLOSED"}
    <2>0. /\ row \in DisputeRows
          /\ row = [order |-> row.order, status |-> row.status,
                    outcome |-> row.outcome, response |-> row.response]
      BY <1>0, <1>1 DEF DisputeRows
    <2>1. CASE SellerRespond(n)
      <3> DEFINE new == [row EXCEPT !.response = TRUE]
      <3>1. new \in DisputeRows /\ new.outcome = row.outcome /\ new.status = row.status
        BY <2>0 DEF DisputeRows
      <3>2. dispute' = [dispute EXCEPT ![n] = new]
        BY <1>1, <2>1 DEF SellerRespond
      <3> QED
        BY <3>1, <3>2
    <2>2. ASSUME NEW status \in {"UNDER_REVIEW", "CLOSED"}, UpdateStatus(n, status)
          PROVE  \E new \in DisputeRows :
                    /\ dispute' = [dispute EXCEPT ![n] = new]
                    /\ new.outcome = row.outcome
                    /\ row.status \in {"RESOLVED_CUSTOMER", "RESOLVED_SELLER", "CLOSED"}
                        => new.status \in {"RESOLVED_CUSTOMER", "RESOLVED_SELLER", "CLOSED"}
      <3> DEFINE new == [row EXCEPT !.status = status]
      <3>1. new \in DisputeRows /\ new.outcome = row.outcome /\ new.status = status
        BY <2>0 DEF DisputeRows, DisputeStatus
      <3>2. dispute' = [dispute EXCEPT ![n] = new]
        BY <1>1, <2>2 DEF UpdateStatus
      <3>3. MayTransition(row.status, status)
        BY <1>1, <2>2 DEF UpdateStatus
      <3>4. row.status \in {"RESOLVED_CUSTOMER", "RESOLVED_SELLER", "CLOSED"} => status = "CLOSED"
        BY <3>3 DEF MayTransition, ALLOWED
      <3> QED
        BY <3>1, <3>2, <3>4
    <2> QED
      BY <2>1, <2>2
  <1>3. dispute' \in [DisputeIds -> {Null} \cup DisputeRows]
    BY <1>0, <1>2 DEF RowsSound
  <1>4. \A d \in DisputeIds : d # n => dispute'[d] = dispute[d]
    BY <1>0, <1>2 DEF RowsSound
  <1>5. dispute'[n] = new /\ new # Null
    BY <1>0, <1>2, DisputesShape DEF RowsSound
  <1>6. /\ UNCHANGED <<refunds, resolvedEvents, request>>
        /\ \A d \in DisputeIds : RefundsOf(d)' = RefundsOf(d)
    BY DEF SellerRespond, UpdateStatus, RefundsOf
  <1>7. ASSUME NEW d \in DisputeIds
        PROVE  /\ Exists(d)' <=> Exists(d)
               /\ Exists(d) => /\ dispute'[d].outcome = dispute[d].outcome
                               /\ AlreadyDecided(d) => AlreadyDecided(d)'
    <2>1. CASE d = n
      BY <1>0, <1>1, <1>2, <1>5, <2>1 DEF Exists, AlreadyDecided
    <2>2. CASE d # n
      BY <1>4, <2>2 DEF Exists, AlreadyDecided
    <2> QED
      BY <2>1, <2>2
  <1>8. OutcomeIsFinal' /\ DecisionsRecorded'
    BY <1>3, <1>6, <1>7, UndecidedStep
  <1>9. RowsSound'
    <2>1. \A a \in Admins : Requested(a)' = Requested(a)
      BY <1>6 DEF Requested
    <2>2. \A a \in Admins : Requested(a) \in Resolutions => Requested(a).dispute \in DisputeIds
      BY DEF Resolutions
    <2> QED
      BY <1>0, <1>3, <1>6, <1>7, <2>1, <2>2 DEF RowsSound
  <1> QED
    BY <1>8, <1>9 DEF DisputesInv

\* The rows, the events and the refunds of disputes stay; requests may change.
LEMMA NothingDecided ==
    ASSUME DisputesInv, UNCHANGED <<dispute, resolvedEvents>>,
           \A d \in DisputeIds : RefundsOf(d)' = RefundsOf(d), RowsSound'
    PROVE  DisputesInv'
  <1>1. \A d \in DisputeIds :
            /\ Exists(d)' <=> Exists(d)
            /\ dispute'[d].outcome = dispute[d].outcome
            /\ AlreadyDecided(d) => AlreadyDecided(d)'
    BY DEF Exists, AlreadyDecided
  <1>2. dispute' \in [DisputeIds -> {Null} \cup DisputeRows]
    BY DEF RowsSound
  <1>3. OutcomeIsFinal' /\ DecisionsRecorded'
    BY <1>1, <1>2, UndecidedStep
  <1> QED
    BY <1>3 DEF DisputesInv

LEMMA RefundDirectlyStep ==
    ASSUME DisputesInv, NEW o \in Parcels, RefundDirectly(o)
    PROVE  DisputesInv'
  <1>1. PICK units \in 1..Ordered, key \in RefundKeys :
            refunds' = refunds \cup {RefundRow(o, units, key, Null)}
    BY DEF RefundDirectly
  <1>2. \A d \in DisputeIds : RefundRow(o, units, key, Null).dispute # d
    BY DisputesShape DEF RefundRow
  <1>3. \A d \in DisputeIds : RefundsOf(d)' = RefundsOf(d)
    BY <1>1, <1>2 DEF RefundsOf
  <1>4. UNCHANGED <<dispute, resolvedEvents, request>>
    BY DEF RefundDirectly
  <1>5. RowsSound'
    BY <1>4 DEF DisputesInv, RowsSound, Requested, Exists
  <1> QED
    BY <1>3, <1>4, <1>5, NothingDecided

\* A request is sent, locks its dispute, or ends without having decided.
LEMMA RequestStep ==
    ASSUME DisputesInv, NEW a \in Admins,
           \/ \E d \in DisputeIds : ClickResolve(a, d)
           \/ LockDispute(a) \/ ReturnDecided(a) \/ RefuseResolution(a) \/ LoseResolution(a)
    PROVE  DisputesInv'
  <1>0. /\ RowsSound
        /\ UNCHANGED <<dispute, refunds, resolvedEvents>>
        /\ \A d \in DisputeIds : RefundsOf(d)' = RefundsOf(d)
    BY DEF DisputesInv, ClickResolve, LockDispute, ReturnDecided, RefuseResolution,
           LoseResolution, RefundsOf
  <1>1. PICK new :
            /\ request' = [request EXCEPT ![a] = new]
            /\ new.stage \in {"sent", "locked"} =>
                new.resolution \in Resolutions /\ Exists(new.resolution.dispute)
    <2>1. ASSUME NEW d \in DisputeIds, ClickResolve(a, d)
          PROVE  \E new : /\ request' = [request EXCEPT ![a] = new]
                          /\ new.resolution \in Resolutions /\ Exists(new.resolution.dispute)
      <3>1. PICK outcome \in Outcomes, units \in 0..Ordered, key \in RefundKeys :
                request' = [request EXCEPT ![a] =
                    [stage |-> "sent",
                     resolution |-> [dispute |-> d, outcome |-> outcome, units |-> units,
                                     key |-> IF units > 0 THEN key ELSE Null]]]
        BY <2>1 DEF ClickResolve
      <3> DEFINE asked == [dispute |-> d, outcome |-> outcome, units |-> units,
                           key |-> IF units > 0 THEN key ELSE Null]
      <3>2. asked \in Resolutions /\ asked.dispute = d
        BY DEF Resolutions
      <3>3. Exists(d)
        BY <2>1 DEF ClickResolve
      <3>4. request' = [request EXCEPT ![a] = [stage |-> "sent", resolution |-> asked]]
        BY <3>1
      <3> HIDE DEF asked
      <3> DEFINE sent == [stage |-> "sent", resolution |-> asked]
      <3>5. sent.resolution \in Resolutions /\ Exists(sent.resolution.dispute)
        BY <3>2, <3>3
      <3>6. request' = [request EXCEPT ![a] = sent]
        BY <3>4
      <3> QED
        BY <3>5, <3>6
    <2>2. CASE LockDispute(a)
      <3>1. PICK old : old = request[a]
        OBVIOUS
      <3>2. old.stage = "sent" /\ request' = [request EXCEPT ![a] = [old EXCEPT !.stage = "locked"]]
        BY <2>2, <3>1 DEF LockDispute
      <3>3. old.resolution \in Resolutions /\ Exists(old.resolution.dispute)
        BY <1>0, <3>1, <3>2 DEF RowsSound, Requested
      <3>4. [old EXCEPT !.stage = "locked"].resolution = old.resolution
        OBVIOUS
      <3> QED
        BY <3>2, <3>3, <3>4
    <2>3. CASE ReturnDecided(a) \/ RefuseResolution(a) \/ LoseResolution(a)
      <3>1. request' = [request EXCEPT ![a] = NoRequest] /\ NoRequest.stage = "none"
        BY <2>3 DEF ReturnDecided, RefuseResolution, LoseResolution, Release, NoRequest
      <3> QED
        BY <3>1
    <2> QED
      BY <2>1, <2>2, <2>3
  <1>2. RowsSound'
    <2>1. /\ request' = [b \in Admins |-> request'[b]]
          /\ request'[a] = new
          /\ \A b \in Admins : b # a => request'[b] = request[b]
      BY <1>0, <1>1 DEF RowsSound
    <2>2. \A d \in DisputeIds : Exists(d)' <=> Exists(d)
      BY <1>0 DEF Exists
    <2>3. \A r \in Resolutions : r.dispute \in DisputeIds
      BY DEF Resolutions
    <2>4. ASSUME NEW b \in Admins, (request[b].stage \in {"sent", "locked"})'
          PROVE  (Requested(b) \in Resolutions /\ Exists(Requested(b).dispute))'
      <3>1. CASE b = a
        BY <1>1, <2>1, <2>2, <2>3, <2>4, <3>1 DEF Requested
      <3>2. CASE b # a
        BY <1>0, <2>1, <2>2, <2>3, <2>4, <3>2 DEF RowsSound, Requested
      <3> QED
        BY <3>1, <3>2
    <2> QED
      BY <1>0, <2>1, <2>4 DEF RowsSound
  <1> QED
    BY <1>0, <1>2, NothingDecided

LEMMA ResolveStep ==
    ASSUME DisputesInv, NEW a \in Admins, Resolve(a)
    PROVE  DisputesInv'
  <1>r. PICK r : r = Requested(a)
    OBVIOUS
  <1>n. PICK n : n = r.dispute
    OBVIOUS
  <1> DEFINE event == [dispute |-> n, outcome |-> r.outcome, refund |-> r.key, units |-> r.units]
  <1>0. RowsSound /\ OutcomeIsFinal /\ DecisionsRecorded
    BY DEF DisputesInv
  <1>1. /\ request[a].stage = "locked" /\ ~AlreadyDecided(n)
        /\ r \in Resolutions /\ n \in DisputeIds /\ r.outcome \in Outcomes
        /\ r.units \in Nat /\ Exists(n)
    BY <1>0, <1>r, <1>n, DisputesShape DEF Resolve, RowsSound, Resolutions
  <1>2. ~Decided(n) /\ EventsOf(n) = {} /\ RefundsOf(n) = {}
    <2>1. ~Decided(n)
      BY <1>0, <1>1 DEF OutcomeIsFinal
    <2> QED
      BY <1>0, <1>1, <2>1 DEF DecisionsRecorded, DecisionRecorded
  <1>3. PICK row \in DisputeRows : row = dispute[n]
    BY <1>0, <1>1 DEF RowsSound, Exists
  <1> DEFINE new == [row EXCEPT !.status = Target(r.outcome), !.outcome = r.outcome]
  <1>4. /\ new \in DisputeRows /\ new # Null /\ new.outcome = r.outcome /\ r.outcome # Null
        /\ new.status \in {"RESOLVED_CUSTOMER", "RESOLVED_SELLER", "CLOSED"}
    BY <1>1, <1>3, DisputesShape DEF DisputeRows, DisputeStatus, Target, Outcomes
  <1>5. dispute' = [dispute EXCEPT ![n] = new]
    BY <1>r, <1>n, <1>3 DEF Resolve, Decide
  <1>6. /\ dispute' \in [DisputeIds -> {Null} \cup DisputeRows]
        /\ dispute'[n] = new
        /\ \A d \in DisputeIds : d # n => dispute'[d] = dispute[d]
    BY <1>0, <1>1, <1>4, <1>5 DEF RowsSound
  <1>7. resolvedEvents' = resolvedEvents \cup {event}
    BY <1>r, <1>n DEF Resolve, Decide
  <1>8. PICK o : refunds' = IF r.units = 0 THEN refunds
                            ELSE refunds \cup {RefundRow(o, r.units, r.key, n)}
    BY <1>r, <1>n DEF Resolve
  <1>9. DecisionRecorded(n)'
    <2>1. Decided(n)' /\ event.outcome = dispute'[n].outcome
      BY <1>4, <1>6 DEF Decided, Exists
    <2>2. EventsOf(n)' = {event}
      BY <1>2, <1>7 DEF EventsOf
    <2>3. UnitsRefunded(n)' = IF event.units = 0 THEN {} ELSE {<<event.refund, event.units>>}
      <3>1. CASE r.units = 0
        <4>1. RefundsOf(n)' = {}
          BY <1>2, <1>8, <3>1 DEF RefundsOf
        <4> QED
          BY <3>1, <4>1 DEF UnitsRefunded
      <3>2. CASE r.units # 0
        <4> DEFINE made == RefundRow(o, r.units, r.key, n)
        <4>1. made.dispute = n /\ made.key = r.key /\ made.units = r.units
          BY DEF RefundRow
        <4>2. RefundsOf(n)' = {made}
          BY <1>2, <1>8, <3>2, <4>1 DEF RefundsOf
        <4>3. UnitsRefunded(n)' = {<<made.key, made.units>>}
          BY <4>2 DEF UnitsRefunded
        <4> QED
          BY <3>2, <4>1, <4>3
      <3> QED
        BY <3>1, <3>2
    <2> QED
      BY <2>1, <2>2, <2>3 DEF DecisionRecorded
  <1>10. ASSUME NEW d \in DisputeIds, d # n PROVE DecisionRecorded(d)'
    <2>1. /\ Exists(d)' <=> Exists(d)
          /\ dispute'[d].outcome = dispute[d].outcome
      BY <1>6, <1>10 DEF Exists
    <2>2. EventsOf(d)' = EventsOf(d)
      BY <1>7, <1>10 DEF EventsOf
    <2>3. RefundRow(o, r.units, r.key, n).dispute # d
      BY <1>10 DEF RefundRow
    <2>4. RefundsOf(d)' = RefundsOf(d)
      BY <1>8, <2>3 DEF RefundsOf
    <2>5. DecisionRecorded(d)
      BY <1>0 DEF DecisionsRecorded
    <2> QED
      BY <2>1, <2>2, <2>4, <2>5, RecordKept
  <1>11. OutcomeIsFinal'
    <2> SUFFICES ASSUME NEW d \in DisputeIds, Decided(d)' PROVE AlreadyDecided(d)'
      BY DEF OutcomeIsFinal
    <2>1. CASE d = n
      BY <1>4, <1>6, <2>1 DEF AlreadyDecided
    <2>2. CASE d # n
      BY <1>0, <1>6, <2>2 DEF AlreadyDecided, OutcomeIsFinal, Decided, Exists
    <2> QED
      BY <2>1, <2>2
  <1>12. RowsSound'
    <2>1. /\ request' = [request EXCEPT ![a] = NoRequest]
          /\ NoRequest.stage = "none"
      BY DEF Resolve, Release, NoRequest
    <2>2. /\ request' = [b \in Admins |-> request'[b]]
          /\ request'[a] = NoRequest
          /\ \A b \in Admins : b # a => request'[b] = request[b]
      BY <1>0, <2>1 DEF RowsSound
    <2>3. \A d \in DisputeIds : Exists(d) => Exists(d)'
      BY <1>4, <1>6 DEF Exists
    <2>4. \A q \in Resolutions : q.dispute \in DisputeIds
      BY DEF Resolutions
    <2>5. ASSUME NEW b \in Admins, (request[b].stage \in {"sent", "locked"})'
          PROVE  (Requested(b) \in Resolutions /\ Exists(Requested(b).dispute))'
      BY <1>0, <2>1, <2>2, <2>3, <2>4, <2>5 DEF RowsSound, Requested
    <2> QED
      BY <1>6, <2>2, <2>5 DEF RowsSound
  <1> QED
    BY <1>9, <1>10, <1>11, <1>12 DEF DisputesInv, DecisionsRecorded

LEMMA DisputesStep == DisputesInv /\ [DisputesNext]_disputesVars => DisputesInv'
  <1> SUFFICES ASSUME DisputesInv, [DisputesNext]_disputesVars PROVE DisputesInv'
    OBVIOUS
  <1>1. CASE UNCHANGED <<dispute, refunds, resolvedEvents, request>>
    <2>1. RowsSound'
      BY <1>1 DEF DisputesInv, RowsSound, Requested, Exists
    <2>2. \A d \in DisputeIds : RefundsOf(d)' = RefundsOf(d)
      BY <1>1 DEF RefundsOf
    <2> QED
      BY <1>1, <2>1, <2>2, NothingDecided
  <1>2. ASSUME NEW o \in Parcels, Progress(o) \/ RefundDirectly(o) \/ OpenDispute(o)
        PROVE  DisputesInv'
    BY <1>1, <1>2, RefundDirectlyStep, OpenDisputeStep DEF Progress
  <1>3. ASSUME NEW d \in DisputeIds,
               SellerRespond(d) \/ UpdateStatus(d, "UNDER_REVIEW") \/ UpdateStatus(d, "CLOSED")
        PROVE  DisputesInv'
    BY <1>3, RowStep
  <1>4. ASSUME NEW a \in Admins,
               \/ LockDispute(a) \/ ReturnDecided(a) \/ Resolve(a)
               \/ RefuseResolution(a) \/ LoseResolution(a)
               \/ \E d \in DisputeIds : ClickResolve(a, d)
        PROVE  DisputesInv'
    BY <1>4, RequestStep, ResolveStep
  <1> QED
    BY <1>1, <1>2, <1>3, <1>4 DEF DisputesNext, disputesVars

\* A dispute is decided once, and its refund is the one it was decided with,
\* whoever resolves it at the same time or again (DisputesService.resolve, with
\* its early return under the lock of the dispute's row).
THEOREM DecidedOnceCorrect == DisputesSpec => []DecidedOnce
  <1>1. DisputesInv => DecidedOnce
    BY RecordedIsDecidedOnce DEF DisputesInv
  <1> QED
    BY DisputesInvHolds, DisputesStep, <1>1, PTL DEF DisputesSpec

---------------------------------------------------------------------------
(* EveryoneIsTold, for any number of workers, failures and events.         *)

\* The events are numbered as they are recorded, and an attempt is at one of them.
EventsSound ==
    /\ kind \in AggregateTypes
    /\ IsFiniteSet(recorded)
    /\ \A event \in recorded : event.no \in Nat /\ event.no < Cardinality(recorded)
    /\ undone \subseteq recorded
    /\ remembered \subseteq recorded
    /\ attempt = [w \in NoticeWorkers |-> attempt[w]]
    /\ \A w \in NoticeWorkers : attempt[w].stage # "idle" => attempt[w].event \in recorded

\* The handler of the event tells the notice, if it reads the subject now.
Carries(event, notice) ==
    notice \in Dispatch(event.type).now \cup Dispatch(event.type).later

\* The event was not handled yet, or not without telling the notice.
WillTell(event, notice) ==
    /\ event \in undone \/ notice \in told
    /\ event \in remembered => notice \in told
    /\ \A w \in NoticeWorkers :
        attempt[w].stage # "idle" /\ attempt[w].event = event =>
            /\ attempt[w].stage = "read" => notice \in told \cup attempt[w].later
            /\ attempt[w].stage \in {"told", "marked"} => notice \in told

NoticesUnderWay ==
    \A notice \in ConcernedBy :
        \E event \in recorded : Carries(event, notice) /\ WillTell(event, notice)

NotificationsInv == EventsSound /\ NoticesUnderWay

LEMMA NotificationsInvHolds == NotificationsInit => NotificationsInv
  <1> SUFFICES ASSUME NotificationsInit PROVE NotificationsInv
    OBVIOUS
  <1>1. EventsSound
    BY FS_EmptySet DEF NotificationsInit, EventsSound, Idling
  <1>2. ConcernedBy = {}
    BY DEF NotificationsInit, ConcernedBy
  <1> QED
    BY <1>1, <1>2 DEF NotificationsInv, NoticesUnderWay

LEMMA InvImpliesTold == NotificationsInv => EveryoneIsTold
  BY DEF NotificationsInv, NoticesUnderWay, WillTell, EveryoneIsTold

---------------------------------------------------------------------------
(* A change of the subject.                                                *)

LEMMA ThreeFinite == ASSUME NEW a, NEW b, NEW c PROVE IsFiniteSet({a, b, c})
  <1>1. IsFiniteSet({a} \cup {b})
    BY FS_Singleton, FS_Union
  <1>2. IsFiniteSet({a} \cup {b} \cup {c})
    BY <1>1, FS_Singleton, FS_Union
  <1>3. {a, b, c} = {a} \cup {b} \cup {c}
    OBVIOUS
  <1> QED
    BY <1>2, <1>3

LEMMA FewTypes ==
    ASSUME kind \in AggregateTypes, NEW step \in StepsOf(kind)
    PROVE  \E a, b, c : step.types = {a, b, c}
  <1>1. ASSUME NEW type, step.types = {type} PROVE step.types = {type, type, type}
    BY <1>1
  <1>2. CASE kind = "Order"
    <2>1. step.types = {"ORDER_CREATED"} \/ step.types = {"ORDER_STATUS_CHANGED"}
      BY <1>2 DEF StepsOf, Step
    <2> QED
      BY <1>1, <2>1
  <1>3. CASE kind = "Refund"
    <2>1. step.types = {"REFUND_CREATED"}
      BY <1>3 DEF StepsOf, Step
    <2> QED
      BY <1>1, <2>1
  <1>4. CASE kind = "Dispute"
    <2>1. step.types \in {{"DISPUTE_OPENED"}, {"DISPUTE_STATUS_CHANGED"}, {"DISPUTE_RESOLVED"}}
      BY <1>4 DEF StepsOf, Step
    <2> QED
      BY <1>1, <2>1
  <1>5. CASE kind = "Auction"
    <2>1. \/ step.types \in {{"AUCTION_CREATED"}, {"BID_PLACED"}, {"AUCTION_PURCHASED"},
                             {"AUCTION_PURCHASE_WINDOW_EXPIRED"}}
          \/ step.types = {"AUCTION_WON", "AUCTION_FINALIZED", "AUCTION_PURCHASE_WINDOW_OPENED"}
      BY <1>5 DEF StepsOf, Step
    <2> QED
      BY <1>1, <2>1
  <1>6. CASE kind = "SellerApplication"
    <2>1. step.types \in {{"SELLER_APPLICATION_CREATED"}, {"SELLER_APPLICATION_APPROVED"},
                          {"SELLER_APPLICATION_REJECTED"}}
      BY <1>6 DEF StepsOf, Step
    <2> QED
      BY <1>1, <2>1
  <1> QED
    BY <1>2, <1>3, <1>4, <1>5, <1>6 DEF AggregateTypes

\* The steps of a subject record events of a number that no event has.
LEMMA RecordsNew ==
    ASSUME EventsSound, NEW step \in StepsOf(kind), ChangeSubject(step)
    PROVE  /\ EventsSound'
           /\ \A type \in step.types :
                \E event \in recorded' \ recorded : event.type = type /\ event \in undone'
  <1> DEFINE Numbered(type) == [no |-> Cardinality(recorded), type |-> type]
             events == {Numbered(type) : type \in step.types}
  <1>1. PICK a, b, c : step.types = {a, b, c}
    BY FewTypes DEF EventsSound
  <1>2. IsFiniteSet(events)
    <2>1. events = {Numbered(a), Numbered(b), Numbered(c)}
      BY <1>1
    <2>2. IsFiniteSet({Numbered(a), Numbered(b), Numbered(c)})
      BY ThreeFinite
    <2> QED
      BY <2>1, <2>2
  <1>3. recorded' = recorded \cup events /\ undone' = undone \cup events
    BY DEF ChangeSubject
  <1>4. \A type : Numbered(type).no = Cardinality(recorded) /\ Numbered(type).type = type
    OBVIOUS
  <1>5. IsFiniteSet(recorded') /\ Cardinality(recorded) \in Nat /\ Cardinality(recorded') \in Nat
    BY <1>2, <1>3, FS_Union, FS_CardinalityType DEF EventsSound
  <1>6. \A type \in step.types :
            /\ Numbered(type) \in recorded' \ recorded
            /\ Numbered(type) \in undone'
    <2> SUFFICES ASSUME NEW type \in step.types
                 PROVE  Numbered(type) \in events /\ Numbered(type) \notin recorded
      BY <1>3
    <2>1. Numbered(type) \notin recorded
      BY <1>4, <1>5 DEF EventsSound
    <2> QED
      BY <2>1
  <1> HIDE DEF Numbered
  <1>7. Cardinality(recorded) < Cardinality(recorded')
    <2>1. recorded \subseteq recorded' /\ recorded # recorded'
      BY <1>1, <1>3, <1>6
    <2> QED
      BY <1>5, <2>1, FS_Subset
  <1>8. EventsSound'
    <2>1. \A event \in recorded' : event.no \in Nat /\ event.no < Cardinality(recorded')
      BY <1>3, <1>4, <1>5, <1>7 DEF EventsSound
    <2>2. UNCHANGED <<kind, remembered, attempt>>
      BY DEF ChangeSubject
    <2> QED
      BY <1>3, <1>5, <2>1, <2>2 DEF EventsSound
  <1> QED
    BY <1>4, <1>6, <1>8

\* A new event is still to be handled, and an old one is as it was.
LEMMA NewIsTold ==
    ASSUME EventsSound, NEW step \in StepsOf(kind), ChangeSubject(step), NEW notice
    PROVE  /\ \A event \in undone' \ recorded : WillTell(event, notice)'
           /\ \A event : WillTell(event, notice) => WillTell(event, notice)'
  BY DEF EventsSound, ChangeSubject, WillTell

LEMMA ChangeSubjectStep ==
    ASSUME NotificationsInv, NEW step \in StepsOf(kind), ChangeSubject(step)
    PROVE  NotificationsInv'
  <1>0. EventsSound /\ NoticesUnderWay
    BY DEF NotificationsInv
  <1>1. EventsSound'
    BY <1>0, RecordsNew
  <1>2. /\ kind' = kind /\ kind \in AggregateTypes
        /\ subject = step.from /\ subject' = step.to
    BY <1>0 DEF ChangeSubject, EventsSound
  <1>3. ASSUME NEW notice \in ConcernedBy', NEW type \in step.types,
               notice \in (Dispatch(type).now \cup Dispatch(type).later)'
        PROVE  \E event \in recorded' : Carries(event, notice)' /\ WillTell(event, notice)'
    <2>1. PICK event \in recorded' \ recorded : event.type = type /\ event \in undone'
      BY <1>0, RecordsNew
    <2>2. Carries(event, notice)'
      BY <1>3, <2>1 DEF Carries
    <2>3. WillTell(event, notice)'
      BY <1>0, <2>1, NewIsTold
    <2> QED
      BY <2>1, <2>2, <2>3
  <1>4. ASSUME NEW notice \in ConcernedBy' PROVE
            \/ \E type \in step.types : notice \in (Dispatch(type).now \cup Dispatch(type).later)'
            \/ /\ kind = "Auction" /\ notice = Notice("winner", "won")
               /\ subject = "AWAITING_PAYMENT" /\ HasWinner'
    <2>1. CASE kind = "Order"
      BY <1>2, <2>1 DEF StepsOf, Step, ConcernedBy, Dispatch, NotifyOrder
    <2>2. CASE kind = "Refund"
      BY <1>2, <2>2 DEF StepsOf, Step, ConcernedBy, Dispatch, NotifyRefund
    <2>3. CASE kind = "Dispute"
      <3>1. step.types # {}
        BY <1>2, FewTypes
      <3>2. subject' # "none"
        BY <1>2, <2>3 DEF StepsOf, Step, ActiveDispute
      <3>3. \A type : Dispatch(type)' = NotifyDispute'
        BY <1>2, <2>3 DEF Dispatch
      <3>4. notice \in (NotifyDispute.now \cup NotifyDispute.later)'
        BY <1>2, <1>4, <2>3, <3>2 DEF ConcernedBy, NotifyDispute
      <3> QED
        BY <3>1, <3>3, <3>4
    <2>4. CASE kind = "Auction"
      <3>1. step.types # {}
        BY <1>2, FewTypes
      <3>2. subject' # "none"
        BY <1>2, <2>4 DEF StepsOf, Step
      <3>3. \/ notice = Notice("seller", subject')
            \/ notice = Notice("winner", "won") /\ HasWinner'
        BY <1>2, <1>4, <2>4, <3>2 DEF ConcernedBy
      <3>4. \A type : Dispatch(type)' = NotifyAuction(type)'
        BY <1>2, <2>4 DEF Dispatch
      <3>5. \A type : Notice("seller", subject') \in NotifyAuction(type).later'
        BY DEF NotifyAuction
      <3>6. CASE notice = Notice("seller", subject')
        BY <3>1, <3>4, <3>5, <3>6
      <3>7. CASE notice = Notice("winner", "won") /\ HasWinner' /\ subject # "AWAITING_PAYMENT"
        <4>1. "AUCTION_WON" \in step.types
          BY <1>2, <2>4, <3>7 DEF StepsOf, Step, HasWinner
        <4>2. notice \in NotifyAuction("AUCTION_WON").later'
          BY <3>7 DEF NotifyAuction
        <4> QED
          BY <3>4, <4>1, <4>2
      <3> QED
        BY <2>4, <3>3, <3>6, <3>7
    <2>5. CASE kind = "SellerApplication"
      BY <1>2, <2>5 DEF StepsOf, Step, ConcernedBy, Dispatch, NotifySellerApplication
    <2> QED
      BY <1>2, <2>1, <2>2, <2>3, <2>4, <2>5 DEF AggregateTypes
  <1>5. ASSUME kind = "Auction", subject = "AWAITING_PAYMENT", HasWinner'
        PROVE  \E event \in recorded' : /\ Carries(event, Notice("winner", "won"))'
                                        /\ WillTell(event, Notice("winner", "won"))'
    <2> DEFINE won == Notice("winner", "won")
    <2>1. won \in ConcernedBy
      BY <1>5 DEF ConcernedBy, HasWinner
    <2>2. PICK event \in recorded : Carries(event, won) /\ WillTell(event, won)
      BY <1>0, <2>1 DEF NoticesUnderWay
    <2>3. Dispatch(event.type) = NotifyAuction(event.type)
          /\ Dispatch(event.type)' = NotifyAuction(event.type)'
      BY <1>2, <1>5 DEF Dispatch
    <2>4. won # Notice("seller", subject)
      BY DEF Notice
    <2>5. event.type \in {"AUCTION_WON", "AUCTION_PURCHASE_WINDOW_OPENED"}
      BY <2>2, <2>3, <2>4 DEF Carries, NotifyAuction
    <2>6. Carries(event, won)'
      BY <1>5, <2>3, <2>5 DEF Carries, NotifyAuction
    <2>7. event \in recorded' /\ WillTell(event, won)'
      BY <1>0, <2>2, NewIsTold DEF ChangeSubject
    <2> QED
      BY <2>6, <2>7
  <1>6. NoticesUnderWay'
    BY <1>3, <1>4, <1>5 DEF NoticesUnderWay
  <1> QED
    BY <1>1, <1>6 DEF NotificationsInv

---------------------------------------------------------------------------
(* The attempts.                                                           *)

\* The subject and its events stay, and an event goes on telling its notices.
LEMMA AttemptsSuffice ==
    ASSUME NotificationsInv, UNCHANGED <<kind, subject, recorded>>, EventsSound',
           \A event \in recorded : \A notice :
                Carries(event, notice) /\ WillTell(event, notice) => WillTell(event, notice)'
    PROVE  NotificationsInv'
  <1>1. ConcernedBy' = ConcernedBy
    BY DEF ConcernedBy, HasWinner
  <1>2. \A event, notice : Carries(event, notice)' <=> Carries(event, notice)
    BY DEF Carries, Dispatch, NotifyOrder, NotifyRefund, NotifyDispute, NotifyAuction,
           NotifySellerApplication, HasWinner
  <1>3. NoticesUnderWay'
    BY <1>1, <1>2 DEF NotificationsInv, NoticesUnderWay
  <1> QED
    BY <1>3 DEF NotificationsInv

\* One attempt goes on, and what it is then about is as the invariant has it.
LEMMA AttemptStep ==
    ASSUME NotificationsInv, NEW w \in NoticeWorkers, NEW new,
           UNCHANGED <<kind, subject, recorded>>,
           attempt' = [attempt EXCEPT ![w] = new],
           new.stage # "idle" => new.event \in recorded,
           told \subseteq told', remembered \subseteq remembered', undone' \subseteq undone,
           remembered' \subseteq recorded,
           \A event \in recorded : \A notice :
                Carries(event, notice) /\ WillTell(event, notice) =>
                    /\ event \in undone \ undone' => notice \in told'
                    /\ event \in remembered' \ remembered => notice \in told'
                    /\ new.stage # "idle" /\ new.event = event =>
                        /\ new.stage = "read" => notice \in told' \cup new.later
                        /\ new.stage \in {"told", "marked"} => notice \in told'
    PROVE  NotificationsInv'
  <1>1. /\ attempt' = [v \in NoticeWorkers |-> attempt'[v]]
        /\ attempt'[w] = new
        /\ \A v \in NoticeWorkers : v # w => attempt'[v] = attempt[v]
    BY DEF NotificationsInv, EventsSound
  <1>2. EventsSound'
    BY <1>1 DEF NotificationsInv, EventsSound
  <1>3. ASSUME NEW event \in recorded, NEW notice,
               Carries(event, notice), WillTell(event, notice)
        PROVE  WillTell(event, notice)'
    BY <1>1, <1>3 DEF WillTell
  <1> QED
    BY <1>2, <1>3, AttemptsSuffice

LEMMA SkipNoticeStep ==
    ASSUME NotificationsInv, NEW e \in recorded, SkipNotice(e)
    PROVE  NotificationsInv'
  <1>1. EventsSound'
    BY DEF NotificationsInv, EventsSound, SkipNotice
  <1>2. \A event \in recorded : \A notice :
            WillTell(event, notice) => WillTell(event, notice)'
    BY DEF SkipNotice, WillTell
  <1>3. UNCHANGED <<kind, subject, recorded>>
    BY DEF SkipNotice
  <1> QED
    BY <1>1, <1>2, <1>3, AttemptsSuffice

LEMMA TakeNoticeStep ==
    ASSUME NotificationsInv, NEW w \in NoticeWorkers, NEW e \in recorded, TakeNotice(w, e)
    PROVE  NotificationsInv'
  <1> DEFINE new == [stage |-> "taken", event |-> e]
  <1>1. new.stage = "taken" /\ new.event = e
    OBVIOUS
  <1>2. remembered \subseteq recorded
    BY DEF NotificationsInv, EventsSound
  <1>3. /\ attempt' = [attempt EXCEPT ![w] = new]
        /\ UNCHANGED <<kind, subject, recorded, undone, remembered, told>>
    BY DEF TakeNotice
  <1> HIDE DEF new
  <1> QED
    BY <1>1, <1>2, <1>3, AttemptStep

LEMMA ReadSubjectStep ==
    ASSUME NotificationsInv, NEW w \in NoticeWorkers, ReadSubject(w)
    PROVE  NotificationsInv'
  <1>0. PICK e : e = attempt[w].event
    OBVIOUS
  <1>1. PICK plan : plan = Dispatch(e.type)
    OBVIOUS
  <1> DEFINE new == [stage |-> "read", event |-> e, later |-> plan.later]
  <1>2. new.stage = "read" /\ new.event = e /\ new.later = plan.later
    OBVIOUS
  <1>3. remembered \subseteq recorded /\ e \in recorded
    BY <1>0 DEF NotificationsInv, EventsSound, ReadSubject
  <1>4. /\ attempt' = [attempt EXCEPT ![w] = new]
        /\ told' = told \cup plan.now
        /\ UNCHANGED <<kind, subject, recorded, undone, remembered>>
    BY <1>0, <1>1 DEF ReadSubject
  <1>5. \A notice : Carries(e, notice) => notice \in told' \cup plan.later
    BY <1>1, <1>4 DEF Carries
  <1> HIDE DEF new
  <1>6. told \subseteq told'
    BY <1>4
  <1> QED
    BY <1>2, <1>3, <1>4, <1>5, <1>6, AttemptStep

LEMMA TellOthersStep ==
    ASSUME NotificationsInv, NEW w \in NoticeWorkers, TellOthers(w)
    PROVE  NotificationsInv'
  <1>0. PICK e : e = attempt[w].event
    OBVIOUS
  <1> DEFINE new == [stage |-> "told", event |-> e]
  <1>1. new.stage = "told" /\ new.event = e
    OBVIOUS
  <1>2. attempt[w].stage = "read" /\ remembered \subseteq recorded /\ e \in recorded
    BY <1>0 DEF NotificationsInv, EventsSound, TellOthers
  <1>3. /\ attempt' = [attempt EXCEPT ![w] = new]
        /\ told' = told \cup attempt[w].later
        /\ UNCHANGED <<kind, subject, recorded, undone, remembered>>
    BY <1>0 DEF TellOthers
  <1>4. \A notice : WillTell(e, notice) => notice \in told'
    BY <1>0, <1>2, <1>3 DEF WillTell
  <1>5. told \subseteq told'
    BY <1>3
  <1> HIDE DEF new
  <1> QED
    BY <1>1, <1>2, <1>3, <1>4, <1>5, AttemptStep

LEMMA MarkRememberedStep ==
    ASSUME NotificationsInv, NEW w \in NoticeWorkers, MarkRemembered(w)
    PROVE  NotificationsInv'
  <1>0. PICK old : old = attempt[w]
    OBVIOUS
  <1> DEFINE new == [old EXCEPT !.stage = "marked"]
  <1>1. old.stage = "told" /\ remembered \subseteq recorded /\ old.event \in recorded
    BY <1>0 DEF NotificationsInv, EventsSound, MarkRemembered
  <1>2. /\ attempt' = [attempt EXCEPT ![w] = new]
        /\ remembered' = remembered \cup {old.event}
        /\ UNCHANGED <<kind, subject, recorded, undone, told>>
    BY <1>0 DEF MarkRemembered
  <1>3. \A notice : WillTell(old.event, notice) => notice \in told'
    BY <1>0, <1>1, <1>2 DEF WillTell
  <1>4. new.event = old.event /\ new.stage # "read"
    OBVIOUS
  <1> HIDE DEF new
  <1>5. remembered \subseteq remembered' /\ remembered' \subseteq recorded
    BY <1>1, <1>2
  <1> QED
    BY <1>1, <1>2, <1>3, <1>4, <1>5, AttemptStep

LEMMA CompleteNoticeStep ==
    ASSUME NotificationsInv, NEW w \in NoticeWorkers, CompleteNotice(w)
    PROVE  NotificationsInv'
  <1>0. PICK e : e = attempt[w].event
    OBVIOUS
  <1>1. attempt[w].stage = "marked" /\ remembered \subseteq recorded
    BY DEF NotificationsInv, EventsSound, CompleteNotice
  <1>2. /\ attempt' = [attempt EXCEPT ![w] = Idling]
        /\ undone' = undone \ {e}
        /\ UNCHANGED <<kind, subject, recorded, remembered, told>>
    BY <1>0 DEF CompleteNotice
  <1>3. \A notice : WillTell(e, notice) => notice \in told'
    BY <1>0, <1>1, <1>2 DEF WillTell
  <1>4. Idling.stage = "idle"
    BY DEF Idling
  <1> QED
    BY <1>1, <1>2, <1>3, <1>4, AttemptStep

LEMMA FailNoticeStep ==
    ASSUME NotificationsInv, NEW w \in NoticeWorkers, FailNotice(w)
    PROVE  NotificationsInv'
  <1>1. /\ attempt' = [attempt EXCEPT ![w] = Idling]
        /\ UNCHANGED <<kind, subject, recorded, undone, remembered, told>>
    BY DEF FailNotice, Stop
  <1>2. Idling.stage = "idle" /\ remembered \subseteq recorded
    BY DEF Idling, NotificationsInv, EventsSound
  <1> QED
    BY <1>1, <1>2, AttemptStep

LEMMA NotificationsStep ==
    NotificationsInv /\ [NotificationsNext]_notificationsVars => NotificationsInv'
  <1> SUFFICES ASSUME NotificationsInv, [NotificationsNext]_notificationsVars
               PROVE  NotificationsInv'
    OBVIOUS
  <1>1. CASE UNCHANGED notificationsVars
    <2>1. UNCHANGED <<kind, subject, recorded, undone, remembered, attempt, told>>
      BY <1>1 DEF notificationsVars
    <2>2. EventsSound'
      BY <2>1 DEF NotificationsInv, EventsSound
    <2>3. \A event, notice : WillTell(event, notice) => WillTell(event, notice)'
      BY <2>1 DEF WillTell
    <2> QED
      BY <2>1, <2>2, <2>3, AttemptsSuffice
  <1>2. ASSUME NEW step \in StepsOf(kind), ChangeSubject(step) PROVE NotificationsInv'
    BY <1>2, ChangeSubjectStep
  <1>3. ASSUME NEW e \in recorded, NEW w \in NoticeWorkers, TakeNotice(w, e)
        PROVE  NotificationsInv'
    BY <1>3, TakeNoticeStep
  <1>4. ASSUME NEW e \in recorded, SkipNotice(e) PROVE NotificationsInv'
    BY <1>4, SkipNoticeStep
  <1>5. ASSUME NEW w \in NoticeWorkers,
               \/ ReadSubject(w) \/ TellOthers(w) \/ MarkRemembered(w)
               \/ CompleteNotice(w) \/ FailNotice(w)
        PROVE  NotificationsInv'
    BY <1>5, ReadSubjectStep, TellOthersStep, MarkRememberedStep, CompleteNoticeStep,
       FailNoticeStep
  <1> QED
    BY <1>1, <1>2, <1>3, <1>4, <1>5 DEF NotificationsNext

\* Whoever is concerned has been told how things stand once no job is left to run
\* (NotificationsProcessor: the events of every change, the subject read when the
\* job runs, the mark of the processed event after the last notice, and the
\* error that is thrown again), however many workers, losses and events.
THEOREM EveryoneIsToldCorrect == NotificationsSpec => []EveryoneIsTold
  BY NotificationsInvHolds, NotificationsStep, InvImpliesTold, PTL DEF NotificationsSpec

---------------------------------------------------------------------------
(* LinesExplained, for any number of products, tabs and changes.           *)

\* A change under way is a change of some units of a product.
ChangeOfWare(change) ==
    /\ change.ware \in Wares
    /\ change.quantity \in Nat
    /\ change.read \in [Wares -> Nat]
    /\ DOMAIN change =
        {"stage", "awaited", "kind", "ware", "quantity", "previous", "read", "version"}

ChangesSound ==
    /\ click = [c \in Clicks |-> click[c]]
    /\ \A c \in Clicks : Started(c) => ChangeOfWare(click[c])

LinesSound ==
    /\ line \in [Wares -> Nat]
    /\ owed = [w \in Wares |-> owed[w]]

CartInv == ChangesSound /\ LinesSound /\ LinesExplained

LEMMA CartInvHolds == CartsInit => CartInv
  <1> SUFFICES ASSUME CartsInit PROVE CartInv
    OBVIOUS
  <1>1. ChangesSound
    BY DEF CartsInit, ChangesSound, Started
  <1>2. LinesSound /\ LinesExplained
    BY DEF CartsInit, NoLines, LinesSound, LinesExplained
  <1> QED
    BY <1>1, <1>2 DEF CartInv

LEMMA OneChange ==
    ASSUME ChangesSound, NEW c \in Clicks, NEW new, click' = [click EXCEPT ![c] = new],
           new \in {NewClick, Over} \/ ChangeOfWare(new)
    PROVE  ChangesSound'
  BY DEF ChangesSound, Started

\* A change that goes on is still of the same units.
LEMMA GoesOn ==
    ASSUME NEW change, ChangeOfWare(change), NEW stage, NEW at, NEW awaited, NEW previous,
           NEW rows \in [Wares -> Nat]
    PROVE  /\ ChangeOfWare([change EXCEPT !.stage = stage, !.read = rows])
           /\ ChangeOfWare([change EXCEPT !.stage = stage, !.version = at, !.read = rows])
           /\ ChangeOfWare([change EXCEPT !.awaited = awaited, !.previous = previous])
  <1>1. ChangeOfWare([change EXCEPT !.stage = stage, !.read = rows])
    BY DEF ChangeOfWare
  <1>2. ChangeOfWare([change EXCEPT !.stage = stage, !.version = at, !.read = rows])
    BY DEF ChangeOfWare
  <1>3. ChangeOfWare([change EXCEPT !.awaited = awaited, !.previous = previous])
    BY DEF ChangeOfWare
  <1> QED
    BY <1>1, <1>2, <1>3

\* Nothing but the requests and the pages changes.
LEMMA RowsStay ==
    ASSUME CartInv, UNCHANGED <<line, owed>>, ChangesSound' PROVE CartInv'
  BY DEF CartInv, LinesSound, LinesExplained

LEMMA ServedSound ==
    ASSUME CartInv, NEW c \in Clicks, NEW stage, NEW at, Started(c), click' = Served(c, stage, at)
    PROVE  ChangesSound'
  <1>1. PICK change : change = click[c]
    OBVIOUS
  <1>2. ChangeOfWare(change)
    BY <1>1 DEF CartInv, ChangesSound
  <1>3. click' = [click EXCEPT ![c] =
            IF change.awaited THEN [change EXCEPT !.stage = stage, !.version = at, !.read = NoLines]
            ELSE Over]
    BY <1>1 DEF Served
  <1>4. ChangeOfWare([change EXCEPT !.stage = stage, !.version = at, !.read = NoLines])
    BY <1>2, GoesOn DEF NoLines
  <1> QED
    BY <1>3, <1>4, OneChange DEF CartInv

LEMMA SettledSound ==
    ASSUME CartInv, NEW c \in Clicks, Started(c), click' = Settled(c)
    PROVE  ChangesSound'
  <1>1. PICK change : change = click[c]
    OBVIOUS
  <1>2. ChangeOfWare(change)
    BY <1>1 DEF CartInv, ChangesSound
  <1>3. click' = [click EXCEPT ![c] =
            IF change.stage \in {"saved", "served"} THEN Over
            ELSE [change EXCEPT !.awaited = FALSE, !.previous = Unknown]]
    BY <1>1 DEF Settled
  <1>4. ChangeOfWare([change EXCEPT !.awaited = FALSE, !.previous = Unknown])
    <2>1. change.read \in [Wares -> Nat]
      BY <1>2 DEF ChangeOfWare
    <2> QED
      BY <1>2, <2>1, GoesOn
  <1> QED
    BY <1>3, <1>4, OneChange DEF CartInv

LEMMA ReadsSound ==
    ASSUME CartInv, NEW c \in Clicks, NEW stage, NEW rows \in [Wares -> Nat], Started(c),
           click' = [click EXCEPT ![c].stage = stage, ![c].read = rows]
    PROVE  ChangesSound'
  <1>1. PICK change : change = click[c]
    OBVIOUS
  <1>2. ChangeOfWare(change)
    BY <1>1 DEF CartInv, ChangesSound
  <1>3. click' = [click EXCEPT ![c] = [change EXCEPT !.stage = stage, !.read = rows]]
    BY <1>1 DEF CartInv, ChangesSound
  <1>4. ChangeOfWare([change EXCEPT !.stage = stage, !.read = rows])
    BY <1>2, GoesOn
  <1> QED
    BY <1>3, <1>4, OneChange DEF CartInv

\* The rows change as the changes ask for, or a line is not explained any more.
LEMMA RowsChange ==
    ASSUME CartInv, NEW c \in Clicks, Started(c),
           NEW rows \in [Wares -> Nat], NEW asked, asked = [w \in Wares |-> asked[w]],
           ChangeRows(c, rows, asked),
           \A w \in Wares : asked[w] # Unknown => rows[w] = asked[w]
    PROVE  CartInv'
  <1>1. ChangesSound'
    BY ServedSound DEF ChangeRows
  <1> QED
    BY <1>1 DEF ChangeRows, CartInv, LinesSound, LinesExplained

LEMMA InsertLineStep ==
    ASSUME CartInv, NEW c \in Clicks, Started(c), InsertLine(c) PROVE CartInv'
  <1>1. PICK w, quantity : w = click[c].ware /\ quantity = click[c].quantity
    OBVIOUS
  <1>2. w \in Wares /\ quantity \in Nat
    BY <1>1 DEF CartInv, ChangesSound, ChangeOfWare
  <1>3. CASE line[w] > 0
    <2>1. /\ click' = [click EXCEPT ![c].stage = "sent", ![c].read = NoLines]
          /\ UNCHANGED <<line, owed>>
      BY <1>1, <1>3 DEF InsertLine
    <2>2. ChangesSound'
      <3>1. NoLines \in [Wares -> Nat]
        BY DEF NoLines
      <3> QED
        BY <2>1, <3>1, ReadsSound
    <2> QED
      BY <2>1, <2>2, RowsStay
  <1>4. CASE ~(line[w] > 0)
    <2> DEFINE rows == [line EXCEPT ![w] = quantity]
               asked == [owed EXCEPT ![w] = IF @ = Unknown THEN @ ELSE @ + quantity]
    <2>1. ChangeRows(c, rows, asked)
      BY <1>1, <1>4 DEF InsertLine
    <2>2. rows \in [Wares -> Nat]
      BY <1>2 DEF CartInv, LinesSound
    <2>3. asked = [v \in Wares |-> asked[v]]
      BY DEF CartInv, LinesSound
    <2>4. line[w] = 0
      BY <1>2, <1>4 DEF CartInv, LinesSound
    <2>5. ASSUME NEW v \in Wares, asked[v] # Unknown PROVE rows[v] = asked[v]
      BY <1>2, <2>4, <2>5 DEF CartInv, LinesSound, LinesExplained
    <2> HIDE DEF rows, asked
    <2> QED
      BY <2>1, <2>2, <2>3, <2>5, RowsChange
  <1> QED
    BY <1>3, <1>4

LEMMA SaveLineStep ==
    ASSUME CartInv, NEW c \in Clicks, Started(c), SaveLine(c) PROVE CartInv'
  <1>1. PICK w, next :
            /\ w = click[c].ware
            /\ next = NextQuantity(c, click[c].read[w])
    OBVIOUS
  <1>2. w \in Wares /\ next \in Nat
    BY <1>1 DEF CartInv, ChangesSound, ChangeOfWare, NextQuantity
  <1> DEFINE rows == [line EXCEPT ![w] = next]
             asked == Explained(c, w, next, line[w] = click[c].read[w])
  <1>3. ChangeRows(c, rows, asked)
    BY <1>1 DEF SaveLine
  <1>4. rows \in [Wares -> Nat]
    BY <1>2 DEF CartInv, LinesSound
  <1>5. asked = [v \in Wares |-> asked[v]]
    BY DEF CartInv, LinesSound, Explained
  <1>6. ASSUME NEW v \in Wares, asked[v] # Unknown PROVE rows[v] = asked[v]
    BY <1>2, <1>6 DEF CartInv, LinesSound, LinesExplained, Explained
  <1> HIDE DEF rows, asked
  <1> QED
    BY <1>3, <1>4, <1>5, <1>6, RowsChange

LEMMA DeleteLinesStep ==
    ASSUME CartInv, NEW c \in Clicks, Started(c), DeleteLines(c) PROVE CartInv'
  <1>1. PICK gone : gone = IF click[c].kind = "clear" THEN Wares ELSE {click[c].ware}
    OBVIOUS
  <1> DEFINE without(of) == [w \in Wares |-> IF w \in gone THEN 0 ELSE of[w]]
             rows == without(line)
             asked == without(owed)
  <1>2. ChangeRows(c, rows, asked)
    BY <1>1 DEF DeleteLines
  <1>3. rows \in [Wares -> Nat] /\ asked = [w \in Wares |-> asked[w]]
    BY DEF CartInv, LinesSound
  <1>4. ASSUME NEW w \in Wares, asked[w] # Unknown PROVE rows[w] = asked[w]
    BY <1>4 DEF CartInv, LinesExplained
  <1> HIDE DEF rows, asked
  <1> QED
    BY <1>2, <1>3, <1>4, RowsChange

\* What is left of a line that was ordered as it is, is what was asked for since.
LEMMA CommitCheckoutStep ==
    ASSUME CartInv, NEW c \in Clicks, Started(c), CommitCheckout(c) PROVE CartInv'
  <1> DEFINE left(w) == IF line[w] # click[c].read[w] THEN Unknown
                        ELSE IF owed[w] = Unknown THEN 0 ELSE owed[w] - OrderedLines(c)[w]
             asked == [w \in Wares |-> left(w)]
  <1>1. ChangeRows(c, NoLines, asked)
    BY DEF CommitCheckout
  <1>2. NoLines \in [Wares -> Nat]
    BY DEF NoLines
  <1>3. ASSUME NEW w \in Wares, left(w) # Unknown PROVE left(w) = 0
    BY <1>3 DEF CartInv, LinesSound, LinesExplained, OrderedLines
  <1>4. \A w \in Wares : asked[w] # Unknown => NoLines[w] = asked[w]
    BY <1>3 DEF NoLines
  <1>5. asked = [w \in Wares |-> asked[w]]
    OBVIOUS
  <1> HIDE DEF asked
  <1> QED
    BY <1>1, <1>2, <1>4, <1>5, RowsChange

LEMMA ServeChangeStep ==
    ASSUME CartInv, NEW c \in Clicks, Serve(c) PROVE CartInv'
  <1>0. Started(c)
    BY DEF Serve
  <1>1. CASE ReadLine(c) \/ ReadForCheckout(c)
    <2>1. /\ UNCHANGED <<line, owed>>
          /\ click' = [click EXCEPT ![c].stage = "read", ![c].read = line]
          /\ line \in [Wares -> Nat]
      BY <1>1 DEF ReadLine, ReadForCheckout, CartInv, LinesSound
    <2> QED
      BY <1>0, <2>1, ReadsSound, RowsStay
  <1>2. CASE BuildView(c)
    BY <1>0, <1>2, ServedSound, RowsStay DEF BuildView
  <1>3. CASE ServiceRefuses(c)
    BY <1>3, OneChange, RowsStay DEF ServiceRefuses, CartInv
  <1> QED
    BY <1>0, <1>1, <1>2, <1>3, InsertLineStep, SaveLineStep, DeleteLinesStep, CommitCheckoutStep
       DEF Serve

LEMMA TabStep ==
    ASSUME CartInv, NEW t \in Tabs, NEW c \in Clicks,
           ReceiveChange(t, c) \/ RefuseChange(t, c) \/ LoseChange(t, c)
    PROVE  CartInv'
  <1>1. Started(c) /\ UNCHANGED <<line, owed>>
    BY DEF ReceiveChange, RefuseChange, LoseChange, FailChange, Awaits
  <1>2. CASE click' = Settled(c)
    BY <1>1, <1>2, SettledSound, RowsStay
  <1>3. CASE click' = [click EXCEPT ![c] = Over]
    BY <1>1, <1>3, OneChange, RowsStay DEF CartInv
  <1> QED
    BY <1>2, <1>3 DEF ReceiveChange, RefuseChange, LoseChange

LEMMA SentStep ==
    ASSUME CartInv, NEW c \in Clicks, NEW what, NEW w \in Wares, NEW quantity \in Nat,
           NEW awaited, NEW previous, Sent(c, what, w, quantity, awaited, previous)
    PROVE  CartInv'
  <1> DEFINE new == [stage |-> "sent", awaited |-> awaited, kind |-> what, ware |-> w,
                     quantity |-> quantity, previous |-> previous, read |-> NoLines,
                     version |-> 0]
  <1>1. ChangeOfWare(new)
    BY DEF ChangeOfWare, NoLines
  <1>2. click' = [click EXCEPT ![c] = new] /\ UNCHANGED <<line, owed>>
    BY DEF Sent
  <1> HIDE DEF new
  <1> QED
    BY <1>1, <1>2, OneChange, RowsStay DEF CartInv

LEMMA CartsStep == CartInv /\ [CartsNext]_cartsVars => CartInv'
  <1> SUFFICES ASSUME CartInv, [CartsNext]_cartsVars PROVE CartInv'
    OBVIOUS
  <1>1. CASE UNCHANGED <<line, owed, click>>
    BY <1>1, RowsStay DEF CartInv, ChangesSound, Started
  <1>2. ASSUME NEW c \in Clicks, Serve(c) PROVE CartInv'
    BY <1>2, ServeChangeStep
  <1>3. ASSUME NEW c \in Clicks, NEW t \in Tabs,
               ReceiveChange(t, c) \/ RefuseChange(t, c) \/ LoseChange(t, c)
        PROVE  CartInv'
    BY <1>3, TabStep
  <1>4. ASSUME NEW c \in Clicks, NEW what, NEW w \in Wares, NEW quantity \in 1..MaxQuantity,
               \/ SendElsewhere(c, what, w, quantity)
               \/ \E t \in Tabs : SendChange(c, t, what, w, quantity)
        PROVE  CartInv'
    <2>1. quantity \in Nat
      BY CartsShape
    <2>2. \E awaited, previous : Sent(c, what, w, quantity, awaited, previous)
      BY <1>4 DEF SendElsewhere, SendChange
    <2> QED
      BY <2>1, <2>2, SentStep
  <1>5. ASSUME NEW w \in Hideable, Publish(w) PROVE CartInv'
    BY <1>1, <1>5 DEF Publish
  <1>6. ASSUME NEW t \in Tabs, Refetch(t) \/ GetCartView(t) \/ FailFetch(t) \/ ReceiveCart(t)
        PROVE  CartInv'
    BY <1>1, <1>6 DEF Refetch, GetCartView, FailFetch, ReceiveCart
  <1> QED
    BY <1>1, <1>2, <1>3, <1>4, <1>5, <1>6 DEF CartsNext, cartsVars

\* Each line is what the changes made of it ask for, one after the other, and a
\* checkout takes from the cart what it orders (CartService, the rows that
\* CheckoutService deletes), for any number of products, tabs and changes; a line
\* saved or deleted over another change than the one read is not explained.
THEOREM LinesExplainedCorrect == CartsSpec => []LinesExplained
  <1>1. CartInv => LinesExplained
    BY DEF CartInv
  <1> QED
    BY CartInvHolds, CartsStep, <1>1, PTL DEF CartsSpec

---------------------------------------------------------------------------
(* QuietTabIsCurrent, for any number of products, tabs and changes.        *)

\* What a tab waits for, as far as it concerns what the tab shows.
AwaitsAnswer(t, c) == Awaits(t, c) /\ click[c].kind \in SetByAnswer

\* The copy is none, or a version of the cart that is no older than the last
\* change that the tab was told of.
ShowsWhatItHeard(t) == shown[t] = Unknown \/ (shown[t] \in Nat /\ shown[t] >= heardOf[t])

\* An answer that sets the copy is the only thing that the tab waits for; an
\* answer of either kind is no older than what the tab has heard; and the copy is
\* sound, or a fetch will follow.
InOrder(t) ==
    /\ \A c, d \in Clicks : AwaitsAnswer(t, c) /\ Awaits(t, d) => c = d /\ fetch[t] = Unknown
    /\ \A c \in Clicks :
        AwaitsAnswer(t, c) /\ click[c].stage = "served" => click[c].version >= heardOf[t]
    /\ fetch[t] \in Nat => fetch[t] >= heardOf[t]
    /\ fetch[t] = Unknown /\ (\A c \in Clicks : Awaits(t, c) => AwaitsAnswer(t, c)) =>
        ShowsWhatItHeard(t)

TabSound(t) ==
    /\ heardOf[t] \in Nat /\ heardOf[t] <= version
    /\ \A c \in Clicks : Awaits(t, c) =>
        /\ click[c].kind \in Kinds
        /\ click[c].kind \in SetByAnswer => click[c].previous = Unknown
        /\ click[c].stage = "served" => click[c].version \in Nat /\ click[c].version <= version
    /\ t \notin overtaken => InOrder(t)

TabsInv ==
    /\ version \in Nat /\ overtaken \subseteq Tabs
    /\ shown = [t \in Tabs |-> shown[t]] /\ fetch = [t \in Tabs |-> fetch[t]]
    /\ heardOf = [t \in Tabs |-> heardOf[t]]
    /\ \A t \in Tabs : TabSound(t)

\* No mark is a version, and the marks differ.
LEMMA CartMarks ==
    /\ Asked # Guess /\ Asked # Unknown /\ Guess # Unknown
    /\ Asked \notin Nat /\ Guess \notin Nat /\ Unknown \notin Nat
  BY CartsShape

\* A page that is loaded waits for its first fetch.
LEMMA TabsInvHolds == CartsInit => TabsInv
  <1> SUFFICES ASSUME CartsInit PROVE TabsInv
    OBVIOUS
  <1>1. ASSUME NEW t \in Tabs PROVE TabSound(t)
    BY CartMarks DEF CartsInit, TabSound, InOrder, AwaitsAnswer, Awaits, Started
  <1> QED
    BY <1>1 DEF CartsInit, TabsInv

\* A copy that is no guess is a version no older than what the tab has heard.
LEMMA TabsSuffice == TabsInv => QuietTabIsCurrent
  <1> SUFFICES ASSUME TabsInv, NEW t \in Tabs \ overtaken, Quiet(t), shown[t] # Unknown
               PROVE  shown[t] # Guess /\ shown[t] >= heardOf[t]
    BY DEF QuietTabIsCurrent
  <1>1. \A c \in Clicks : ~Awaits(t, c)
    BY DEF Quiet, AwaitsKind, TabsInv, TabSound
  <1>2. ShowsWhatItHeard(t)
    BY <1>1 DEF Quiet, TabsInv, TabSound, InOrder
  <1> QED
    BY <1>2, CartMarks DEF ShowsWhatItHeard

\* A request that goes on is that of the same change, for the same tab, and what
\* is served is the cart as it is now.
GoesOnFor(c) ==
    /\ \A d \in Clicks \ {c} : click'[d] = click[d]
    /\ \A t \in Tabs, d \in Clicks : Awaits(t, d)' <=> Awaits(t, d)
    /\ \A t \in Tabs : Awaits(t, c) =>
        /\ click'[c].kind = click[c].kind /\ click'[c].previous = click[c].previous
        /\ click'[c].stage = "served" => click'[c].version = version'

\* The request goes on to its next step, and has read the cart or forgets it.
Staged(c, stage, rows) == [click EXCEPT ![c].stage = stage, ![c].read = rows]

\* A request takes a step and is not answered yet.
LEMMA NextStage ==
    ASSUME CartInv, NEW c \in Clicks, Started(c), NEW stage \in {"sent", "read"},
           NEW rows \in [Wares -> Nat], click' = Staged(c, stage, rows)
    PROVE  GoesOnFor(c)
  <1>1. PICK change : change = click[c]
    OBVIOUS
  <1>2. ChangeOfWare(change) /\ click = [d \in Clicks |-> click[d]]
    BY <1>1 DEF CartInv, ChangesSound
  <1>3. PICK new : new = [change EXCEPT !.stage = stage, !.read = rows]
    OBVIOUS
  <1>4. /\ new.stage = stage /\ new.kind = change.kind /\ new.awaited = change.awaited
        /\ new.previous = change.previous
    BY <1>2, <1>3 DEF ChangeOfWare
  <1>5. click' = [click EXCEPT ![c] = new]
    BY <1>1, <1>2, <1>3 DEF Staged
  <1>6. click'[c] = new /\ \A d \in Clicks \ {c} : click'[d] = click[d]
    BY <1>2, <1>5
  <1>7. new # NewClick /\ new # Over
    BY <1>4 DEF NewClick, Over
  <1> QED
    BY <1>1, <1>4, <1>6, <1>7 DEF GoesOnFor, Awaits, Started

\* A request has changed the cart, or is answered.
LEMMA ServedStage ==
    ASSUME CartInv, NEW c \in Clicks, Started(c), NEW stage, NEW at,
           stage \in {"saved", "served"}, stage = "served" => at = version',
           click' = Served(c, stage, at)
    PROVE  GoesOnFor(c)
  <1>1. PICK change : change = click[c]
    OBVIOUS
  <1>2. ChangeOfWare(change) /\ click = [d \in Clicks |-> click[d]]
    BY <1>1 DEF CartInv, ChangesSound
  <1>3. PICK new : new = [change EXCEPT !.stage = stage, !.version = at, !.read = NoLines]
    OBVIOUS
  <1>4. /\ new.stage = stage /\ new.kind = change.kind /\ new.awaited = change.awaited
        /\ new.previous = change.previous
        /\ new.version = at
    BY <1>2, <1>3 DEF ChangeOfWare
  <1>5. click' = [click EXCEPT ![c] = IF change.awaited THEN new ELSE Over]
    BY <1>1, <1>3 DEF Served
  <1>6. /\ click'[c] = IF change.awaited THEN new ELSE Over
        /\ \A d \in Clicks \ {c} : click'[d] = click[d]
    BY <1>2, <1>5
  <1>7. new # NewClick /\ new # Over
    BY <1>4 DEF NewClick, Over
  <1> QED
    BY <1>1, <1>4, <1>6, <1>7 DEF GoesOnFor, Awaits, Started

\* What the service does leaves the tabs alone.
LEMMA ServeSays ==
    ASSUME CartInv, version \in Nat, NEW c \in Clicks, Serve(c)
    PROVE  /\ GoesOnFor(c) /\ UNCHANGED pages
           /\ version' \in Nat /\ version <= version'
  <1>0. Started(c)
    BY DEF Serve
  <1>1. CASE ReadLine(c) \/ ReadForCheckout(c)
    <2>1. /\ click' = Staged(c, "read", line)
          /\ UNCHANGED <<version, pages>>
      BY <1>1 DEF ReadLine, ReadForCheckout, Staged
    <2>2. "read" \in {"sent", "read"} /\ line \in [Wares -> Nat]
      BY DEF CartInv, LinesSound
    <2>3. GoesOnFor(c)
      BY <1>0, <2>1, <2>2, NextStage
    <2> QED
      BY <2>1, <2>3
  <1>2. CASE InsertLine(c) /\ line[click[c].ware] > 0
    <2>1. /\ click' = Staged(c, "sent", NoLines)
          /\ UNCHANGED <<version, pages>>
      BY <1>2 DEF InsertLine, Staged
    <2>2. "sent" \in {"sent", "read"} /\ NoLines \in [Wares -> Nat]
      BY DEF NoLines
    <2>3. GoesOnFor(c)
      BY <1>0, <2>1, <2>2, NextStage
    <2> QED
      BY <2>1, <2>3
  <1>3. ASSUME NEW rows, NEW asked, ChangeRows(c, rows, asked), UNCHANGED pages
        PROVE  /\ GoesOnFor(c) /\ UNCHANGED pages
               /\ version' \in Nat /\ version <= version'
    <2>1. PICK stage \in {"saved", "served"} :
              version' = version + 1 /\ click' = Served(c, stage, version + 1)
      BY <1>3 DEF ChangeRows
    <2>2. version + 1 = version' /\ (stage = "served" => version + 1 = version')
      BY <2>1
    <2>3. GoesOnFor(c)
      BY <1>0, <2>1, <2>2, ServedStage
    <2> QED
      BY <1>3, <2>1, <2>3
  <1>4. CASE InsertLine(c) /\ ~(line[click[c].ware] > 0)
    BY <1>3, <1>4 DEF InsertLine
  <1>5. CASE SaveLine(c) \/ DeleteLines(c) \/ CommitCheckout(c)
    BY <1>3, <1>5 DEF SaveLine, DeleteLines, CommitCheckout
  <1>6. CASE BuildView(c)
    <2>1. click' = Served(c, "served", version) /\ UNCHANGED <<version, pages>>
      BY <1>6 DEF BuildView
    <2>2. "served" = "served" => version = version'
      BY <2>1
    <2> QED
      BY <1>0, <2>1, <2>2, ServedStage
  <1>7. CASE ServiceRefuses(c)
    <2>1. /\ click' = [click EXCEPT ![c] = Over] /\ ~click[c].awaited
          /\ UNCHANGED <<version, pages>>
      BY <1>7 DEF ServiceRefuses
    <2>2. click'[c] = Over /\ \A d \in Clicks \ {c} : click'[d] = click[d]
      BY <2>1 DEF CartInv, ChangesSound
    <2>3. GoesOnFor(c)
      BY <2>1, <2>2 DEF GoesOnFor, Awaits, Started
    <2> QED
      BY <2>1, <2>3
  <1> QED
    BY <1>1, <1>2, <1>4, <1>5, <1>6, <1>7 DEF Serve

\* The tab does not wait for the change any more, and for the others as before.
Told(c) ==
    \A t \in Tabs, d \in Clicks :
        /\ Awaits(t, d)' <=> Awaits(t, d) /\ d # c
        /\ d # c => click'[d] = click[d]

\* Answered, refused or lost: the tab is told of it.
LEMMA SettledTells ==
    ASSUME CartInv, NEW c \in Clicks, Started(c),
           click' = Settled(c) \/ click' = [click EXCEPT ![c] = Over]
    PROVE  Told(c)
  <1>1. PICK change : change = click[c]
    OBVIOUS
  <1>2. ChangeOfWare(change) /\ click = [d \in Clicks |-> click[d]]
    BY <1>1 DEF CartInv, ChangesSound
  <1>3. PICK new : new = [change EXCEPT !.awaited = FALSE, !.previous = Unknown]
    OBVIOUS
  <1>4. ~new.awaited
    BY <1>2, <1>3 DEF ChangeOfWare
  <1>5. click' = [click EXCEPT ![c] = new] \/ click' = [click EXCEPT ![c] = Over]
    BY <1>1, <1>3 DEF Settled
  <1>6. /\ click'[c] = new \/ click'[c] = Over
        /\ \A d \in Clicks \ {c} : click'[d] = click[d]
    BY <1>2, <1>5
  <1> QED
    BY <1>4, <1>6 DEF Told, Awaits, Started

\* Whatever goes on elsewhere, a tab that is left alone has what it had.
LEMMA TabsStay ==
    ASSUME TabsInv, UNCHANGED pages, version' \in Nat, version <= version',
           NEW c \in Clicks, GoesOnFor(c)
    PROVE  TabsInv'
  <1>1. UNCHANGED <<shown, fetch, heardOf, overtaken>>
    BY DEF pages
  <1>2. ASSUME NEW t \in Tabs PROVE TabSound(t)'
    <2>1. /\ TabSound(t) /\ version \in Nat /\ heardOf[t] \in Nat /\ heardOf[t] <= version
          /\ \A d \in Clicks : Awaits(t, d)' <=> Awaits(t, d)
          /\ \A d \in Clicks : AwaitsAnswer(t, d)' <=> AwaitsAnswer(t, d)
      BY DEF TabsInv, TabSound, GoesOnFor, AwaitsAnswer
    <2>2. ASSUME NEW d \in Clicks, Awaits(t, d)
          PROVE  /\ click'[d].kind \in Kinds
                 /\ click'[d].kind \in SetByAnswer => click'[d].previous = Unknown
                 /\ click'[d].stage = "served" =>
                        /\ click'[d].version \in Nat /\ click'[d].version <= version'
                        /\ \/ click'[d].version >= heardOf[t]
                           \/ click'[d].version = click[d].version /\ click[d].stage = "served"
      BY <2>1, <2>2 DEF TabSound, GoesOnFor
    <2>3. InOrder(t) => InOrder(t)'
      <3> SUFFICES ASSUME InOrder(t) PROVE InOrder(t)'
        OBVIOUS
      <3>1. \A d \in Clicks : AwaitsAnswer(t, d) /\ click'[d].stage = "served" =>
                click'[d].version >= heardOf[t]
        BY <2>2 DEF InOrder, AwaitsAnswer
      <3>2. ShowsWhatItHeard(t) => ShowsWhatItHeard(t)'
        BY <1>1 DEF ShowsWhatItHeard
      <3> QED
        BY <1>1, <2>1, <3>1, <3>2 DEF InOrder
    <2> QED
      BY <1>1, <2>1, <2>2, <2>3 DEF TabSound
  <1> QED
    BY <1>1, <1>2 DEF TabsInv

\* What one tab is about leaves the others as they are.
LEMMA OtherTab ==
    ASSUME TabsInv, version' = version, NEW t \in Tabs, TabSound(t),
           shown'[t] = shown[t], fetch'[t] = fetch[t], heardOf'[t] = heardOf[t],
           t \in overtaken' <=> t \in overtaken,
           \A d \in Clicks : Awaits(t, d)' <=> Awaits(t, d),
           \A d \in Clicks : Awaits(t, d) => click'[d] = click[d]
    PROVE  TabSound(t)'
  <1>1. \A d \in Clicks : AwaitsAnswer(t, d)' <=> AwaitsAnswer(t, d)
    BY DEF AwaitsAnswer
  <1>2. InOrder(t) => InOrder(t)'
    BY <1>1 DEF InOrder, ShowsWhatItHeard, AwaitsAnswer
  <1> QED
    BY <1>2 DEF TabSound

\* A change that nobody waits for changes nothing for the tabs.
LEMMA SendElsewhereKeeps ==
    ASSUME TabsInv, ChangesSound, NEW c \in Clicks, NEW what, NEW w, NEW quantity,
           SendElsewhere(c, what, w, quantity)
    PROVE  TabsInv'
  <1>1. /\ UNCHANGED <<shown, fetch, heardOf, overtaken, version>>
        /\ \A d \in Clicks \ {c} : click'[d] = click[d]
        /\ TabOf[c] = Elsewhere
    BY DEF SendElsewhere, Sent, ChangesSound
  <1>2. \A t \in Tabs : Elsewhere # t
    BY CartsShape
  <1>3. \A t \in Tabs, d \in Clicks : /\ Awaits(t, d)' <=> Awaits(t, d)
                                      /\ Awaits(t, d) => click'[d] = click[d]
    BY <1>1, <1>2 DEF Awaits, Started
  <1>4. \A t \in Tabs : TabSound(t)'
    BY <1>1, <1>3, OtherTab DEF TabsInv
  <1> QED
    BY <1>1, <1>4 DEF TabsInv

\* A change that is sent crosses no answer that sets the copy, or the tab is
\* overtaken.
LEMMA SendChangeKeeps ==
    ASSUME TabsInv, ChangesSound, NEW c \in Clicks, NEW t \in Tabs, NEW what \in Kinds, NEW w,
           NEW quantity, SendChange(c, t, what, w, quantity)
    PROVE  TabsInv'
  <1> DEFINE before == IF what \in SetByAnswer THEN Unknown ELSE shown[t]
             new == [stage |-> "sent", awaited |-> TRUE, kind |-> what, ware |-> w,
                     quantity |-> quantity, previous |-> before, read |-> NoLines,
                     version |-> 0]
  <1>1. /\ UNCHANGED <<heardOf, version>> /\ TabOf[c] = t /\ click[c] = NewClick
        /\ click' = [click EXCEPT ![c] = new]
        /\ Patch(t, what)
        /\ overtaken' = IF Crosses(t, what) THEN overtaken \cup {t} ELSE overtaken
    BY DEF SendChange, Sent
  <1>2. click'[c] = new /\ \A d \in Clicks \ {c} : click'[d] = click[d]
    BY <1>1 DEF ChangesSound
  <1>3. /\ new.kind = what /\ new.stage = "sent" /\ new.awaited /\ new # NewClick /\ new # Over
        /\ what \in SetByAnswer => new.previous = Unknown
    BY DEF NewClick, Over
  <1> HIDE DEF new
  <1>4. /\ shown' = [u \in Tabs |-> shown'[u]] /\ fetch' = [u \in Tabs |-> fetch'[u]]
        /\ \A u \in Tabs \ {t} : shown'[u] = shown[u] /\ fetch'[u] = fetch[u]
        /\ what \in SetByAnswer => UNCHANGED <<shown, fetch>>
        /\ what \notin SetByAnswer => fetch'[t] = Unknown
    BY <1>1 DEF Patch, TabsInv
  <1>5. /\ Awaits(t, c)' /\ ~Awaits(t, c)
        /\ \A d \in Clicks \ {c} : Awaits(t, d)' <=> Awaits(t, d)
    BY <1>1, <1>2, <1>3 DEF Awaits, Started
  <1>6. ASSUME NEW u \in Tabs \ {t} PROVE TabSound(u)'
    <2>1. \A d \in Clicks : /\ Awaits(u, d)' <=> Awaits(u, d)
                            /\ Awaits(u, d) => click'[d] = click[d]
      BY <1>1, <1>2 DEF Awaits, Started
    <2> QED
      BY <1>1, <1>4, <2>1, OtherTab DEF TabsInv
  <1>7. TabSound(t)'
    <2>1. TabSound(t)
      BY DEF TabsInv
    <2>2. ASSUME NEW d \in Clicks, Awaits(t, d)'
          PROVE  /\ click'[d].kind \in Kinds
                 /\ click'[d].kind \in SetByAnswer => click'[d].previous = Unknown
                 /\ click'[d].stage = "served" =>
                        /\ d # c /\ click'[d].version = click[d].version
                        /\ click'[d].version \in Nat /\ click'[d].version <= version
      BY <1>2, <1>3, <1>5, <2>1, <2>2 DEF TabSound
    <2>3. ASSUME t \notin overtaken' PROVE InOrder(t)'
      <3>1. /\ t \notin overtaken /\ InOrder(t)
            /\ \A d \in Clicks : ~AwaitsAnswer(t, d)
            /\ what \in SetByAnswer => fetch[t] = Unknown /\ \A d \in Clicks : ~Awaits(t, d)
        BY <1>1, <2>1, <2>3
        DEF TabSound, Crosses, AwaitsKind, AwaitsAnswer
      <3>2. \A d \in Clicks : AwaitsAnswer(t, d)' => d = c /\ what \in SetByAnswer
        BY <1>2, <1>3, <1>5, <3>1 DEF AwaitsAnswer
      <3>3. CASE what \in SetByAnswer
        <4>1. ShowsWhatItHeard(t)'
          BY <1>1, <1>4, <3>1, <3>3 DEF InOrder, ShowsWhatItHeard
        <4> QED
          BY <1>2, <1>3, <1>4, <1>5, <3>1, <3>2, <3>3, <4>1, CartMarks DEF InOrder, AwaitsAnswer
      <3>4. CASE what \notin SetByAnswer
        <4>1. fetch'[t] = Unknown /\ ~AwaitsAnswer(t, c)'
          BY <1>4, <3>2, <3>4
        <4> QED
          BY <1>5, <3>2, <3>4, <4>1, CartMarks DEF InOrder
      <3> QED
        BY <3>3, <3>4
    <2> QED
      BY <1>1, <2>1, <2>2, <2>3 DEF TabSound
  <1>8. overtaken' \subseteq Tabs
    BY <1>1 DEF TabsInv
  <1> QED
    BY <1>1, <1>4, <1>6, <1>7, <1>8 DEF TabsInv

\* A tab is told of a change: what it fetches, shows and has heard of.
LEMMA TabToldKeeps ==
    ASSUME TabsInv, NEW c \in Clicks, NEW t \in Tabs, Awaits(t, c), Told(c),
           NEW failed, OnSettled(t, c, failed), UNCHANGED version,
           shown' = [u \in Tabs |-> shown'[u]], heardOf' = [u \in Tabs |-> heardOf'[u]],
           \A u \in Tabs \ {t} : shown'[u] = shown[u] /\ heardOf'[u] = heardOf[u],
           \/ /\ heardOf'[t] = heardOf[t]
              /\ click[c].kind \in SetByAnswer => shown'[t] = shown[t]
           \/ /\ click[c].stage = "served"
              /\ heardOf'[t] =
                    IF click[c].version > heardOf[t] THEN click[c].version ELSE heardOf[t]
              /\ click[c].kind \in SetByAnswer => shown'[t] = click[c].version
    PROVE  TabsInv'
  <1>1. TabSound(t) /\ version \in Nat
    BY DEF TabsInv
  <1>2. heardOf'[t] \in Nat /\ heardOf'[t] <= version
    BY <1>1 DEF TabSound
  <1>3. /\ fetch' = [u \in Tabs |-> fetch'[u]] /\ overtaken' \subseteq Tabs
        /\ \A u \in Tabs \ {t} :
               fetch'[u] = fetch[u] /\ (u \in overtaken' <=> u \in overtaken)
    BY DEF OnSettled, TabsInv
  <1>4. ASSUME NEW u \in Tabs \ {t} PROVE TabSound(u)'
    <2>1. \A d \in Clicks : /\ Awaits(u, d)' <=> Awaits(u, d)
                            /\ Awaits(u, d) => click'[d] = click[d]
      BY DEF Told, Awaits
    <2> QED
      BY <1>3, <2>1, OtherTab DEF TabsInv
  <1>5. \A d \in Clicks : /\ Awaits(t, d)' <=> Awaits(t, d) /\ d # c
                          /\ AwaitsAnswer(t, d)' <=> AwaitsAnswer(t, d) /\ d # c
                          /\ Awaits(t, d)' => click'[d] = click[d]
    BY DEF Told, AwaitsAnswer
  <1>6. ASSUME t \notin overtaken' PROVE InOrder(t)'
    <2>1. CASE click[c].kind \in SetByAnswer
      <3>1. fetch' = fetch /\ overtaken' = overtaken
        BY <2>1 DEF OnSettled
      <3>2. /\ InOrder(t) /\ AwaitsAnswer(t, c) /\ fetch[t] = Unknown
            /\ \A d \in Clicks : Awaits(t, d) => d = c
        BY <1>1, <1>6, <2>1, <3>1 DEF TabSound, InOrder, AwaitsAnswer
      <3>3. ShowsWhatItHeard(t)'
        <4>1. heardOf[t] \in Nat /\ (click[c].stage = "served" =>
                  click[c].version \in Nat /\ click[c].version >= heardOf[t])
          BY <1>1, <3>2 DEF TabSound, InOrder
        <4>2. ShowsWhatItHeard(t)
          BY <3>2 DEF InOrder
        <4> QED
          BY <2>1, <4>1, <4>2 DEF ShowsWhatItHeard
      <3> QED
        BY <1>5, <3>1, <3>2, <3>3, CartMarks DEF InOrder
    <2>2. CASE click[c].kind \notin SetByAnswer
      <3>1. fetch'[t] = Asked /\ ~AwaitsKind(t, SetByAnswer)
        BY <1>6, <2>2 DEF OnSettled, TabsInv
      <3>2. \A d \in Clicks : ~AwaitsAnswer(t, d)'
        BY <1>5, <3>1 DEF AwaitsKind, AwaitsAnswer
      <3> QED
        BY <3>1, <3>2, CartMarks DEF InOrder
    <2> QED
      BY <2>1, <2>2
  <1>7. TabSound(t)'
    BY <1>1, <1>2, <1>5, <1>6 DEF TabSound
  <1> QED
    BY <1>1, <1>3, <1>4, <1>7 DEF TabsInv

\* The answer of a change, or none.
LEMMA ToldKeeps ==
    ASSUME TabsInv, CartInv, NEW c \in Clicks, NEW t \in Tabs,
           ReceiveChange(t, c) \/ RefuseChange(t, c) \/ LoseChange(t, c)
    PROVE  TabsInv'
  <1>1. /\ Awaits(t, c) /\ Started(c) /\ UNCHANGED version
        /\ click' = Settled(c) \/ click' = [click EXCEPT ![c] = Over]
    BY DEF ReceiveChange, RefuseChange, LoseChange, FailChange, Awaits
  <1>2. Told(c)
    BY <1>1, SettledTells
  <1>3. CASE ReceiveChange(t, c)
    <2>1. /\ OnSettled(t, c, FALSE) /\ click[c].stage = "served"
          /\ shown' = IF click[c].kind \in SetByAnswer
                      THEN [shown EXCEPT ![t] = click[c].version] ELSE shown
          /\ heardOf' = [heardOf EXCEPT ![t] =
                  IF click[c].version > heardOf[t] THEN click[c].version ELSE heardOf[t]]
      BY <1>3 DEF ReceiveChange
    <2>2. /\ shown' = [u \in Tabs |-> shown'[u]] /\ heardOf' = [u \in Tabs |-> heardOf'[u]]
          /\ \A u \in Tabs \ {t} : shown'[u] = shown[u] /\ heardOf'[u] = heardOf[u]
          /\ heardOf'[t] =
                IF click[c].version > heardOf[t] THEN click[c].version ELSE heardOf[t]
          /\ click[c].kind \in SetByAnswer => shown'[t] = click[c].version
      BY <2>1 DEF TabsInv
    <2> QED
      BY <1>1, <1>2, <2>1, <2>2, TabToldKeeps, Zenon
  <1>4. CASE RefuseChange(t, c) \/ LoseChange(t, c)
    <2>1. OnSettled(t, c, TRUE) /\ RollBack(t, c) /\ UNCHANGED heardOf
      BY <1>4 DEF RefuseChange, LoseChange, FailChange
    <2>2. click[c].kind \in SetByAnswer => click[c].previous = Unknown
      BY <1>1 DEF TabsInv, TabSound
    <2>3. /\ shown' = [u \in Tabs |-> shown'[u]] /\ heardOf' = [u \in Tabs |-> heardOf'[u]]
          /\ \A u \in Tabs \ {t} : shown'[u] = shown[u] /\ heardOf'[u] = heardOf[u]
          /\ heardOf'[t] = heardOf[t]
          /\ click[c].kind \in SetByAnswer => shown'[t] = shown[t]
      BY <2>1, <2>2 DEF RollBack, TabsInv
    <2> QED
      BY <1>1, <1>2, <2>1, <2>3, TabToldKeeps, Zenon
  <1> QED
    BY <1>3, <1>4

\* The fetches of a tab.
LEMMA FetchKeeps ==
    ASSUME TabsInv, NEW t \in Tabs,
           Refetch(t) \/ GetCartView(t) \/ FailFetch(t) \/ ReceiveCart(t)
    PROVE  TabsInv'
  <1>1. /\ UNCHANGED <<version, click, heardOf>>
        /\ overtaken' = overtaken \/ (overtaken' = overtaken \cup {t} /\ Refetch(t))
        /\ shown' = [u \in Tabs |-> shown'[u]] /\ fetch' = [u \in Tabs |-> fetch'[u]]
        /\ \A u \in Tabs \ {t} : shown'[u] = shown[u] /\ fetch'[u] = fetch[u]
    BY DEF Refetch, GetCartView, FailFetch, ReceiveCart, TabsInv
  <1>2. /\ \A u \in Tabs, d \in Clicks : Awaits(u, d)' <=> Awaits(u, d)
        /\ \A u \in Tabs, d \in Clicks : AwaitsAnswer(u, d)' <=> AwaitsAnswer(u, d)
    BY <1>1 DEF Awaits, AwaitsAnswer, Started
  <1>3. ASSUME NEW u \in Tabs \ {t} PROVE TabSound(u)'
    BY <1>1, <1>2, <1>3, OtherTab DEF TabsInv
  <1>4. TabSound(t) /\ version \in Nat
    BY DEF TabsInv
  <1>5. ASSUME InOrder(t), t \notin overtaken' PROVE InOrder(t)'
    <2>0. heardOf[t] \in Nat /\ heardOf[t] <= version
      BY <1>4 DEF TabSound
    <2>1. CASE Refetch(t)
      <3>1. /\ fetch'[t] = Asked /\ \A d \in Clicks : ~AwaitsAnswer(t, d)
        BY <1>4, <1>5, <2>1 DEF Refetch, TabsInv, AwaitsKind, AwaitsAnswer, TabSound
      <3> QED
        BY <1>2, <3>1, CartMarks DEF InOrder
    <2>2. CASE GetCartView(t)
      <3>1. fetch'[t] = version /\ fetch[t] = Asked /\ version \in Nat
        BY <1>4, <2>2 DEF GetCartView, TabsInv
      <3> QED
        BY <1>1, <1>2, <1>5, <2>0, <3>1, CartMarks DEF InOrder
    <2>3. CASE FailFetch(t)
      <3>1. fetch'[t] = Unknown /\ fetch[t] # Unknown /\ shown'[t] = Unknown
        BY <2>3 DEF FailFetch, TabsInv
      <3> QED
        BY <1>1, <1>2, <1>5, <3>1, CartMarks DEF InOrder, ShowsWhatItHeard
    <2>4. CASE ReceiveCart(t)
      <3>1. fetch'[t] = Unknown /\ fetch[t] \in Nat /\ shown'[t] = fetch[t]
        BY <2>4 DEF ReceiveCart, TabsInv
      <3> QED
        BY <1>1, <1>2, <1>5, <3>1, CartMarks DEF InOrder, ShowsWhatItHeard
    <2> QED
      BY <2>1, <2>2, <2>3, <2>4
  <1>6. TabSound(t)'
    BY <1>1, <1>2, <1>4, <1>5 DEF TabSound
  <1> QED
    BY <1>1, <1>3, <1>6 DEF TabsInv

\* Every step.
LEMMA TabsStep == CartInv /\ TabsInv /\ [CartsNext]_cartsVars => TabsInv'
  <1> SUFFICES ASSUME CartInv, TabsInv, [CartsNext]_cartsVars PROVE TabsInv'
    OBVIOUS
  <1>0. version \in Nat /\ ChangesSound
    BY DEF TabsInv, CartInv
  <1>1. CASE UNCHANGED <<version, click, pages>>
    BY <1>1 DEF pages, TabsInv, TabSound, InOrder, ShowsWhatItHeard, AwaitsAnswer, Awaits, Started
  <1>2. ASSUME NEW c \in Clicks, Serve(c) PROVE TabsInv'
    BY <1>0, <1>2, ServeSays, TabsStay
  <1>3. ASSUME NEW c \in Clicks, NEW t \in Tabs,
               ReceiveChange(t, c) \/ RefuseChange(t, c) \/ LoseChange(t, c)
        PROVE  TabsInv'
    BY <1>3, ToldKeeps
  <1>4. ASSUME NEW c \in Clicks, NEW what \in Kinds, NEW w, NEW quantity,
               \/ SendElsewhere(c, what, w, quantity)
               \/ \E t \in Tabs : SendChange(c, t, what, w, quantity)
        PROVE  TabsInv'
    BY <1>0, <1>4, SendElsewhereKeeps, SendChangeKeeps
  <1>5. ASSUME NEW w \in Hideable, Publish(w) PROVE TabsInv'
    BY <1>1, <1>5 DEF Publish
  <1>6. ASSUME NEW t \in Tabs, Refetch(t) \/ GetCartView(t) \/ FailFetch(t) \/ ReceiveCart(t)
        PROVE  TabsInv'
    BY <1>6, FetchKeeps
  <1> QED
    BY <1>1, <1>2, <1>3, <1>4, <1>5, <1>6 DEF CartsNext, cartsVars, pages

\* A tab that waits for nothing and has a copy of the cart shows every change that
\* it was told of, in whatever order its changes are answered (features/cart/hooks:
\* the patched copy, the one put back, the fetch after either), for any number of
\* tabs, products and changes.
THEOREM QuietTabCorrect == CartsSpec => []QuietTabIsCurrent
  BY CartInvHolds, CartsStep, TabsInvHolds, TabsStep, TabsSuffice, PTL DEF CartsSpec

---------------------------------------------------------------------------
(* ReportsAgree, for any number of orders, sellers and reports. The ledger *)
(* of an order adds up to what is left of it, and a report that nothing    *)
(* was committed beside reads that ledger.                                 *)

EntryTypes == {"SALE_CREDIT", "COMMISSION_DEBIT"} \cup Reversal

EntriesOf(x) == {row \in entries : row.sale = x}

Cancelled(x) == saleRow[x].status = "CANCELLED"

\* Every row is of an order that was placed, and was dated by now.
EntriesSound ==
    /\ clock \in Nat
    /\ saleRow = [x \in Sales |-> saleRow[x]]
    /\ IsFiniteSet(Placed) /\ IsFiniteSet(entries) /\ IsFiniteSet(repaid)
    /\ \A x \in Placed :
        /\ saleRow[x].store \in Stores /\ saleRow[x].status \in OrderStates
        /\ saleRow[x].at \in 0..clock
        /\ DOMAIN saleRow[x] = {"status", "store", "at"}
    /\ \A row \in entries :
        /\ row.sale \in Placed /\ row.at \in 0..clock
        /\ row.nth \in Nat /\ row.units \in Nat /\ row.type \in EntryTypes
    /\ \A row \in repaid :
        row.sale \in Placed /\ row.at \in 0..clock /\ row.nth \in Nat /\ row.units = 1

\* The rows of an order are numbered by its repayments, and its cancellation is
\* the last.
RowsNumbered ==
    /\ \A row \in entries :
        row.type \in Reversal =>
            row.nth <= Cardinality(RepaymentsOf(row.sale)) \/ Cancelled(row.sale)
    /\ \A row \in repaid : row.nth <= Cardinality(RepaymentsOf(row.sale))
    /\ \A x \in Placed : RepaidUnits(x) <= UnitsSold

\* The units of an order that its entries add up to.
UnitsLeft(x) == UnitsSold - RepaidUnits(x) - (IF Cancelled(x) THEN UnitsSold ELSE 0)

\* They do, and one of them has the date of the order.
SaleExplained(x) ==
    /\ Figures(EntriesOf(x)).gross = 10 * UnitsLeft(x)
    /\ Figures(EntriesOf(x)).commission = UnitsLeft(x)
    /\ \E row \in EntriesOf(x) : row.at = saleRow[x].at

OrdersExplained == \A x \in Placed : SaleExplained(x)

PeriodSound(period) == period.from \in Int /\ period.to \in Int /\ period.from < period.to

\* What a report says that reads what the rows are.
Reads(r) == \A part \in Parts(r.stores) : r.parts[part] = Query(part, r.period, r.stores)

\* A query of a report says what the rows say while nothing was committed since
\* the report was begun.
ReportSound ==
    report # NoReport =>
        /\ DOMAIN report = {"stores", "period", "began", "parts"}
        /\ report.stores \in Viewable
        /\ PeriodSound(report.period)
        /\ report.began \in Nat /\ report.began <= Version
        /\ report.began = Version =>
            \A part \in DOMAIN report.parts :
                report.parts[part] = Query(part, report.period, report.stores)

\* A report that is kept says it while nothing was committed since.
CacheSound ==
    \A r \in reportCache :
        /\ r.stores \in Viewable /\ PeriodSound(r.period)
        /\ r.ended \in Nat /\ r.ended <= Version
        /\ r.began = r.ended =>
            /\ PartsAgree(r)
            /\ r.ended = Version => Reads(r)

ReportsInv == EntriesSound /\ RowsNumbered /\ OrdersExplained /\ ReportSound /\ CacheSound

---------------------------------------------------------------------------
(* Totals over the rows.                                                   *)

\* What the queries add up, by row.
GrossIn == [row \in entries |-> GrossOf(row)]
CommissionIn == [row \in entries |-> CommissionOf(row)]
NetIn == [row \in entries |-> NetOf(row)]
RefundIn == [row \in repaid |-> 10 * row.units]

\* The figures of a row are numbers, and its net is what they leave.
LEMMA RowFigures ==
    ASSUME EntriesSound, NEW row \in entries
    PROVE  /\ GrossOf(row) \in Int /\ CommissionOf(row) \in Int
           /\ NetOf(row) \in Int /\ NetOf(row) = GrossOf(row) - CommissionOf(row)
  <1>1. row.units \in Nat /\ row.type \in EntryTypes
    BY DEF EntriesSound
  <1>2. CASE row.type = "SALE_CREDIT"
    <2>1. GrossOf(row) = 10 * row.units /\ CommissionOf(row) = 0 /\ NetOf(row) = 10 * row.units
      BY <1>2 DEF GrossOf, CommissionOf, NetOf
    <2> QED
      BY <1>1, <2>1
  <1>3. CASE row.type = "COMMISSION_DEBIT"
    <2>1. GrossOf(row) = 0 /\ CommissionOf(row) = row.units /\ NetOf(row) = -row.units
      BY <1>3 DEF GrossOf, CommissionOf, NetOf
    <2> QED
      BY <1>1, <2>1
  <1>4. CASE row.type = "SELLER_EARNING_REVERSAL"
    <2>1. GrossOf(row) = -10 * row.units /\ CommissionOf(row) = 0 /\ NetOf(row) = -10 * row.units
      BY <1>4 DEF GrossOf, CommissionOf, NetOf
    <2> QED
      BY <1>1, <2>1
  <1>5. CASE row.type = "PLATFORM_COMMISSION_REVERSAL"
    <2>1. GrossOf(row) = 0 /\ CommissionOf(row) = -row.units /\ NetOf(row) = row.units
      BY <1>5 DEF GrossOf, CommissionOf, NetOf
    <2> QED
      BY <1>1, <2>1
  <1> QED
    BY <1>1, <1>2, <1>3, <1>4, <1>5 DEF EntryTypes, Reversal

\* A total over a function is one over what agrees with it.
LEMMA TotalIsSum ==
    ASSUME NEW f, NEW g, IsFiniteSet(DOMAIN g), \A x \in DOMAIN g : g[x] = f[x]
    PROVE  SumFunction(g) = SumFunctionOnSet(f, DOMAIN g)
  BY SumCongruent, Zenon DEF SumFunction

\* The figures of some of the entries are totals over these.
LEMMA FiguresSum ==
    ASSUME EntriesSound, NEW T \in SUBSET entries
    PROVE  /\ Figures(T).gross = SumFunctionOnSet(GrossIn, T)
           /\ Figures(T).commission = SumFunctionOnSet(CommissionIn, T)
           /\ Figures(T).net = SumFunctionOnSet(NetIn, T)
           /\ Figures(T).orders = Cardinality({row.sale : row \in T})
  <1>0. IsFiniteSet(T)
    BY FS_Subset DEF EntriesSound
  <1> DEFINE gross == [row \in T |-> GrossOf(row)]
             commission == [row \in T |-> CommissionOf(row)]
             net == [row \in T |-> NetOf(row)]
             orders == Cardinality({row.sale : row \in T})
  <1>1. Figures(T) = [gross |-> SumFunction(gross), commission |-> SumFunction(commission),
                      net |-> SumFunction(net), orders |-> orders]
    BY DEF Figures, TotalOf
  <1>2. /\ DOMAIN gross = T /\ DOMAIN commission = T /\ DOMAIN net = T
        /\ \A row \in T : /\ gross[row] = GrossIn[row] /\ commission[row] = CommissionIn[row]
                          /\ net[row] = NetIn[row]
    BY DEF GrossIn, CommissionIn, NetIn
  <1> HIDE DEF gross, commission, net, orders
  <1>3. /\ SumFunction(gross) = SumFunctionOnSet(GrossIn, T)
        /\ SumFunction(commission) = SumFunctionOnSet(CommissionIn, T)
        /\ SumFunction(net) = SumFunctionOnSet(NetIn, T)
    <2>1. \A f, g : DOMAIN g = T /\ (\A row \in T : g[row] = f[row]) =>
                        SumFunction(g) = SumFunctionOnSet(f, T)
      BY <1>0, TotalIsSum, Zenon
    <2> QED
      BY <1>2, <2>1, Zenon
  <1>4. /\ Figures(T).gross = SumFunction(gross) /\ Figures(T).commission = SumFunction(commission)
        /\ Figures(T).net = SumFunction(net) /\ Figures(T).orders = orders
    BY <1>1
  <1> QED
    BY <1>3, <1>4, Zenon DEF orders

\* So are the refunds of some repayments.
LEMMA RefundsSum ==
    ASSUME EntriesSound, NEW T \in SUBSET repaid
    PROVE  Refunded(T) = SumFunctionOnSet(RefundIn, T)
  <1>0. IsFiniteSet(T)
    BY FS_Subset DEF EntriesSound
  <1> DEFINE g == [row \in T |-> 10 * row.units]
  <1>1. DOMAIN g = T /\ \A row \in T : g[row] = RefundIn[row]
    BY DEF RefundIn
  <1>2. Refunded(T) = SumFunction(g)
    BY DEF Refunded, TotalOf
  <1> HIDE DEF g
  <1>3. SumFunction(g) = SumFunctionOnSet(RefundIn, DOMAIN g)
    BY <1>0, <1>1, TotalIsSum
  <1> QED
    BY <1>1, <1>2, <1>3

\* h has the totals of f over the groups of the elements of S that g makes.
Groups(h, D, f, S, g) ==
    /\ IsFiniteSet(S) /\ IsFiniteSet(D) /\ D = DOMAIN h
    /\ \A x \in S : f[x] \in Int /\ g[x] \in D
    /\ \A d \in D : h[d] = SumFunctionOnSet(f, {x \in S : g[x] = d})

\* The totals of the groups add up to the total.
LEMMA GroupTotals ==
    ASSUME NEW f, NEW S, NEW D, NEW g, NEW h, Groups(h, D, f, S, g)
    PROVE  SumFunction(h) = SumFunctionOnSet(f, S)
  <1>1. /\ IsFiniteSet(S) /\ IsFiniteSet(D) /\ D = DOMAIN h
        /\ \A x \in S : f[x] \in Int
        /\ \A x \in S : g[x] \in D
        /\ \A d \in D : h[d] = SumFunctionOnSet(f, {x \in S : g[x] = d})
    BY DEF Groups
  <1>2. SumFunctionOnSet(h, D) = SumFunctionOnSet(f, S)
    BY <1>1, SumGrouped
  <1> QED
    BY <1>1, <1>2, Zenon DEF SumFunction

\* There are no more values than places.
LEMMA ImageFinite ==
    ASSUME NEW g, NEW S, IsFiniteSet(S)
    PROVE  IsFiniteSet({g[x] : x \in S})
  <1> DEFINE f == [x \in S |-> g[x]]
             T == {g[x] : x \in S}
  <1>1. f \in Surjection(S, T)
    BY DEF Surjection
  <1> HIDE DEF f, T
  <1>2. IsFiniteSet(T)
    BY <1>1, FS_Surjection
  <1> QED
    BY <1>2 DEF T

---------------------------------------------------------------------------
(* The queries of one report add up to one another.                        *)

\* The rows of a query are rows of the ledger, whose figures are numbers.
LEMMA LedgerRows ==
    ASSUME EntriesSound, NEW period, NEW stores
    PROVE  /\ LedgerOf(period, stores) \in SUBSET entries
           /\ RepaidOf(period, stores) \in SUBSET repaid
           /\ IsFiniteSet(LedgerOf(period, stores)) /\ IsFiniteSet(RepaidOf(period, stores))
           /\ \A row \in entries : /\ GrossIn[row] \in Int /\ CommissionIn[row] \in Int
                                   /\ NetIn[row] \in Int
                                   /\ NetIn[row] = GrossIn[row] - CommissionIn[row]
           /\ \A row \in repaid : RefundIn[row] \in Int
  <1>1. /\ LedgerOf(period, stores) \in SUBSET entries
        /\ RepaidOf(period, stores) \in SUBSET repaid
    BY DEF LedgerOf, RepaidOf
  <1>2. IsFiniteSet(LedgerOf(period, stores)) /\ IsFiniteSet(RepaidOf(period, stores))
    BY <1>1, FS_Subset DEF EntriesSound
  <1>3. \A row \in entries : /\ GrossIn[row] \in Int /\ CommissionIn[row] \in Int
                             /\ NetIn[row] \in Int
                             /\ NetIn[row] = GrossIn[row] - CommissionIn[row]
    BY RowFigures DEF GrossIn, CommissionIn, NetIn
  <1>4. \A row \in repaid : RefundIn[row] \in Int
    BY DEF RefundIn, EntriesSound
  <1> QED
    BY <1>1, <1>2, <1>3, <1>4

\* The days of a period add up to it.
LEMMA DaysAddUp ==
    ASSUME EntriesSound, NEW period, NEW stores, NEW daily, daily = Daily(period, stores),
           NEW figures, figures = Figures(LedgerOf(period, stores))
    PROVE  /\ SumOver(daily, LAMBDA d : d.figures.gross) = figures.gross
           /\ SumOver(daily, LAMBDA d : d.figures.commission) = figures.commission
           /\ SumOver(daily, LAMBDA d : d.figures.net) = figures.net
           /\ SumOver(daily, LAMBDA d : d.refunds) = Refunded(RepaidOf(period, stores))
  <1>1. PICK L, R : L = LedgerOf(period, stores) /\ R = RepaidOf(period, stores)
    OBVIOUS
  <1>2. /\ L \in SUBSET entries /\ R \in SUBSET repaid /\ IsFiniteSet(L) /\ IsFiniteSet(R)
        /\ \A row \in L :
               GrossIn[row] \in Int /\ CommissionIn[row] \in Int /\ NetIn[row] \in Int
        /\ \A row \in R : RefundIn[row] \in Int
    BY <1>1, LedgerRows
  <1>3. PICK day : day = [row \in entries \cup repaid |-> DayOf(row)]
    OBVIOUS
  <1>4. PICK D : D = {day[row] : row \in L \cup R}
    OBVIOUS
  <1>5. IsFiniteSet(D) /\ \A row \in L \cup R : day[row] \in D
    <2>1. IsFiniteSet(L \cup R)
      BY <1>2, FS_Union
    <2> QED
      BY <1>4, <2>1, ImageFinite, Zenon
  <1>6. daily = [d \in D |-> [figures |-> Figures({row \in L : day[row] = d}),
                              refunds |-> Refunded({row \in R : day[row] = d})]]
    <2>1. /\ D = {DayOf(row) : row \in L \cup R}
          /\ \A d : /\ {row \in L : day[row] = d} = {row \in L : DayOf(row) = d}
                    /\ {row \in R : day[row] = d} = {row \in R : DayOf(row) = d}
      BY <1>2, <1>3, <1>4
    <2> QED
      BY <1>1, <2>1 DEF Daily
  <1>7. ASSUME NEW d \in D
        PROVE  /\ daily[d].figures.gross = SumFunctionOnSet(GrossIn, {row \in L : day[row] = d})
               /\ daily[d].figures.commission
                     = SumFunctionOnSet(CommissionIn, {row \in L : day[row] = d})
               /\ daily[d].figures.net = SumFunctionOnSet(NetIn, {row \in L : day[row] = d})
               /\ daily[d].refunds = SumFunctionOnSet(RefundIn, {row \in R : day[row] = d})
    <2>1. PICK S, T : S = {row \in L : day[row] = d} /\ T = {row \in R : day[row] = d}
      OBVIOUS
    <2>2. daily[d].figures = Figures(S) /\ daily[d].refunds = Refunded(T)
      BY <1>6, <2>1
    <2>3. S \in SUBSET entries /\ T \in SUBSET repaid
      BY <1>2, <2>1
    <2> QED
      BY <2>1, <2>2, <2>3, FiguresSum, RefundsSum, Zenon
  <1>8. DOMAIN daily = D
    BY <1>6
  <1> DEFINE gross == [d \in DOMAIN daily |-> daily[d].figures.gross]
             commission == [d \in DOMAIN daily |-> daily[d].figures.commission]
             net == [d \in DOMAIN daily |-> daily[d].figures.net]
             refund == [d \in DOMAIN daily |-> daily[d].refunds]
  <1>9. /\ SumOver(daily, LAMBDA d : d.figures.gross) = SumFunction(gross)
        /\ SumOver(daily, LAMBDA d : d.figures.commission) = SumFunction(commission)
        /\ SumOver(daily, LAMBDA d : d.figures.net) = SumFunction(net)
        /\ SumOver(daily, LAMBDA d : d.refunds) = SumFunction(refund)
    BY DEF SumOver, TotalOf
  <1>10. /\ D = DOMAIN gross /\ D = DOMAIN commission /\ D = DOMAIN net /\ D = DOMAIN refund
         /\ \A d \in D :
              /\ gross[d] = SumFunctionOnSet(GrossIn, {row \in L : day[row] = d})
              /\ commission[d] = SumFunctionOnSet(CommissionIn, {row \in L : day[row] = d})
              /\ net[d] = SumFunctionOnSet(NetIn, {row \in L : day[row] = d})
              /\ refund[d] = SumFunctionOnSet(RefundIn, {row \in R : day[row] = d})
    BY <1>7, <1>8
  <1> HIDE DEF gross, commission, net, refund
  <1>11. /\ Groups(gross, D, GrossIn, L, day) /\ Groups(commission, D, CommissionIn, L, day)
         /\ Groups(net, D, NetIn, L, day) /\ Groups(refund, D, RefundIn, R, day)
    BY <1>2, <1>5, <1>10 DEF Groups
  <1>12. /\ SumFunction(gross) = SumFunctionOnSet(GrossIn, L)
         /\ SumFunction(commission) = SumFunctionOnSet(CommissionIn, L)
         /\ SumFunction(net) = SumFunctionOnSet(NetIn, L)
         /\ SumFunction(refund) = SumFunctionOnSet(RefundIn, R)
    BY <1>11, GroupTotals, Zenon
  <1>13. /\ figures.gross = SumFunctionOnSet(GrossIn, L)
         /\ figures.commission = SumFunctionOnSet(CommissionIn, L)
         /\ figures.net = SumFunctionOnSet(NetIn, L)
         /\ Refunded(RepaidOf(period, stores)) = SumFunctionOnSet(RefundIn, R)
    BY <1>1, <1>2, FiguresSum, RefundsSum, Zenon
  <1> QED
    BY <1>9, <1>12, <1>13, Zenon

\* The sellers of a period add up to it, if they are all listed.
LEMMA SellersAddUp ==
    ASSUME EntriesSound, Cardinality(Stores) <= SellersListed,
           NEW period, NEW sellers, sellers = SellerBreakdown(period),
           NEW figures, figures = Figures(LedgerOf(period, Stores))
    PROVE  /\ SumOver(sellers, LAMBDA s : s.gross) = figures.gross
           /\ SumOver(sellers, LAMBDA s : s.commission) = figures.commission
           /\ SumOver(sellers, LAMBDA s : s.net) = figures.net
  <1>1. PICK L : L = LedgerOf(period, Stores)
    OBVIOUS
  <1>2. /\ L \in SUBSET entries /\ IsFiniteSet(L)
        /\ \A row \in L :
               GrossIn[row] \in Int /\ CommissionIn[row] \in Int /\ NetIn[row] \in Int
    BY <1>1, LedgerRows
  <1>3. PICK store : store = [row \in entries |-> saleRow[row.sale].store]
    OBVIOUS
  <1>4. PICK D : D = {store[row] : row \in L}
    OBVIOUS
  <1>5. IsFiniteSet(D) /\ \A row \in L : store[row] \in D
    BY <1>2, <1>4, ImageFinite, Zenon
  <1>6. PICK earned : earned = [s \in D |-> Figures({row \in L : store[row] = s})]
    OBVIOUS
  <1>7. sellers = Restrict(earned,
                      Listed([s \in DOMAIN earned |-> earned[s].net], SellersListed))
    <2>1. /\ D = {saleRow[row.sale].store : row \in L}
          /\ \A s : {row \in L : store[row] = s} = {row \in L : saleRow[row.sale].store = s}
      BY <1>2, <1>3, <1>4
    <2>2. earned = [s \in {saleRow[row.sale].store : row \in L} |->
                      Figures({row \in L : saleRow[row.sale].store = s})]
      BY <1>6, <2>1
    <2> QED
      BY <1>1, <2>2, Zenon DEF SellerBreakdown
  <1>8. sellers = earned
    <2>1. PICK rank : rank = [s \in DOMAIN earned |-> earned[s].net]
      OBVIOUS
    <2>2. DOMAIN rank = D /\ DOMAIN earned = D
      BY <1>6, <2>1
    <2>3. D \subseteq Stores
      BY <1>1, <1>2, <1>3, <1>4 DEF LedgerOf
    <2>4. Cardinality(D) <= SellersListed
      <3>1. /\ IsFiniteSet(Stores) /\ SellersListed \in Nat
            /\ Cardinality(D) <= Cardinality(Stores)
            /\ Cardinality(D) \in Nat /\ Cardinality(Stores) \in Nat
        BY <2>3, FS_Subset, FS_CardinalityType, AnalyticsShape
      <3> QED
        BY <3>1
    <2>5. Listed(rank, SellersListed) = D
      BY <2>2, <2>4 DEF Listed
    <2>6. sellers = Restrict(earned, D)
      BY <1>7, <2>1, <2>5, Zenon
    <2> QED
      BY <1>6, <2>6 DEF Restrict
  <1>9. ASSUME NEW s \in D
        PROVE  /\ sellers[s].gross = SumFunctionOnSet(GrossIn, {row \in L : store[row] = s})
               /\ sellers[s].commission
                     = SumFunctionOnSet(CommissionIn, {row \in L : store[row] = s})
               /\ sellers[s].net = SumFunctionOnSet(NetIn, {row \in L : store[row] = s})
    <2>1. PICK S : S = {row \in L : store[row] = s}
      OBVIOUS
    <2>2. sellers[s] = Figures(S)
      BY <1>6, <1>8, <2>1
    <2>3. S \in SUBSET entries
      BY <1>2, <2>1
    <2> QED
      BY <2>1, <2>2, <2>3, FiguresSum, Zenon
  <1>10. DOMAIN sellers = D
    BY <1>6, <1>8
  <1> DEFINE gross == [s \in DOMAIN sellers |-> sellers[s].gross]
             commission == [s \in DOMAIN sellers |-> sellers[s].commission]
             net == [s \in DOMAIN sellers |-> sellers[s].net]
  <1>11. /\ SumOver(sellers, LAMBDA s : s.gross) = SumFunction(gross)
         /\ SumOver(sellers, LAMBDA s : s.commission) = SumFunction(commission)
         /\ SumOver(sellers, LAMBDA s : s.net) = SumFunction(net)
    BY DEF SumOver, TotalOf
  <1>12. /\ D = DOMAIN gross /\ D = DOMAIN commission /\ D = DOMAIN net
         /\ \A s \in D :
              /\ gross[s] = SumFunctionOnSet(GrossIn, {row \in L : store[row] = s})
              /\ commission[s] = SumFunctionOnSet(CommissionIn, {row \in L : store[row] = s})
              /\ net[s] = SumFunctionOnSet(NetIn, {row \in L : store[row] = s})
    BY <1>9, <1>10
  <1> HIDE DEF gross, commission, net
  <1>13. /\ Groups(gross, D, GrossIn, L, store)
         /\ Groups(commission, D, CommissionIn, L, store)
         /\ Groups(net, D, NetIn, L, store)
    BY <1>2, <1>5, <1>12 DEF Groups
  <1>14. /\ SumFunction(gross) = SumFunctionOnSet(GrossIn, L)
         /\ SumFunction(commission) = SumFunctionOnSet(CommissionIn, L)
         /\ SumFunction(net) = SumFunctionOnSet(NetIn, L)
    BY <1>13, GroupTotals, Zenon
  <1>15. /\ figures.gross = SumFunctionOnSet(GrossIn, L)
         /\ figures.commission = SumFunctionOnSet(CommissionIn, L)
         /\ figures.net = SumFunctionOnSet(NetIn, L)
    BY <1>1, <1>2, FiguresSum, Zenon
  <1> QED
    BY <1>11, <1>14, <1>15, Zenon

\* The parts of a report are those of the same rows.
LEMMA PartsOf ==
    ASSUME NEW r, Reads(r)
    PROVE  /\ r.parts.money = MoneyOf(r.period, r.stores)
           /\ r.parts.daily = Daily(r.period, r.stores)
           /\ r.parts.products = TopProducts(r.period, r.stores)
           /\ r.stores = Stores =>
                /\ r.parts.sellers = SellerBreakdown(r.period)
                /\ r.parts.previous = MoneyOf(PreviousPeriod(r.period), r.stores)
                /\ r.parts.orders = CountOrders(r.period, r.stores, OrderStates)
  <1>1. {"money", "daily", "products"} \subseteq Parts(r.stores)
    BY DEF Parts
  <1>2. r.stores = Stores => {"sellers", "previous", "orders"} \subseteq Parts(r.stores)
    BY DEF Parts
  <1>3. r.parts.money = MoneyOf(r.period, r.stores)
    BY <1>1 DEF Reads, Query
  <1>4. r.parts.daily = Daily(r.period, r.stores)
    BY <1>1 DEF Reads, Query
  <1>5. r.parts.products = TopProducts(r.period, r.stores)
    BY <1>1 DEF Reads, Query
  <1>6. ASSUME r.stores = Stores
        PROVE  /\ r.parts.sellers = SellerBreakdown(r.period)
               /\ r.parts.previous = MoneyOf(PreviousPeriod(r.period), r.stores)
               /\ r.parts.orders = CountOrders(r.period, r.stores, OrderStates)
    BY <1>2, <1>6 DEF Reads, Query
  <1> QED
    BY <1>3, <1>4, <1>5, <1>6

\* A report that reads the rows as they are has parts that agree.
LEMMA ReadsAgree ==
    ASSUME EntriesSound, NEW r, Reads(r)
    PROVE  PartsAgree(r)
  <1>1. PICK figures, L, daily :
            /\ L = LedgerOf(r.period, r.stores) /\ figures = Figures(L)
            /\ daily = Daily(r.period, r.stores)
    OBVIOUS
  <1>2. /\ r.parts.money.figures = figures
        /\ r.parts.money.refunds = Refunded(RepaidOf(r.period, r.stores))
        /\ r.parts.daily = daily
    <2>1. r.parts.money = MoneyOf(r.period, r.stores) /\ r.parts.daily = Daily(r.period, r.stores)
      BY PartsOf, Zenon
    <2>2. r.parts.money = [figures |-> figures, refunds |-> Refunded(RepaidOf(r.period, r.stores))]
      BY <1>1, <2>1 DEF MoneyOf
    <2> QED
      BY <1>1, <2>1, <2>2
  <1>3. figures.net = figures.gross - figures.commission
    <2>1. /\ L \in SUBSET entries /\ IsFiniteSet(L)
          /\ \A row \in L : GrossIn[row] \in Int /\ CommissionIn[row] \in Int
                            /\ NetIn[row] = GrossIn[row] - CommissionIn[row]
      BY <1>1, LedgerRows
    <2>2. SumFunctionOnSet(NetIn, L)
              = SumFunctionOnSet(GrossIn, L) - SumFunctionOnSet(CommissionIn, L)
      BY <2>1, SumMinus
    <2> QED
      BY <1>1, <2>1, <2>2, FiguresSum, Zenon
  <1>4. /\ SumOver(daily, LAMBDA d : d.figures.gross) = figures.gross
        /\ SumOver(daily, LAMBDA d : d.figures.commission) = figures.commission
        /\ SumOver(daily, LAMBDA d : d.figures.net) = figures.net
        /\ SumOver(daily, LAMBDA d : d.refunds) = Refunded(RepaidOf(r.period, r.stores))
    BY <1>1, DaysAddUp
  <1>5. ASSUME r.stores = Stores, Cardinality(Stores) <= SellersListed
        PROVE  /\ SumOver(r.parts.sellers, LAMBDA s : s.gross) = figures.gross
               /\ SumOver(r.parts.sellers, LAMBDA s : s.commission) = figures.commission
               /\ SumOver(r.parts.sellers, LAMBDA s : s.net) = figures.net
    <2>1. /\ r.parts.sellers = SellerBreakdown(r.period)
          /\ figures = Figures(LedgerOf(r.period, Stores))
      BY <1>1, <1>5, PartsOf
    <2> QED
      BY <1>5, <2>1, SellersAddUp
  <1> QED
    BY <1>2, <1>3, <1>4, <1>5 DEF PartsAgree

---------------------------------------------------------------------------
(* They add up to the orders.                                              *)

\* Every repayment is of one unit.
LEMMA UnitsCount ==
    ASSUME NEW T, IsFiniteSet(T), \A row \in T : row.units = 1
    PROVE  SumFunction([row \in T |-> row.units]) = Cardinality(T) /\ Cardinality(T) \in Nat
  <1> DEFINE units == [row \in T |-> row.units]
  <1>1. DOMAIN units = T /\ \A row \in T : units[row] = 1
    OBVIOUS
  <1> HIDE DEF units
  <1>2. SumFunctionOnSet(units, T) = Cardinality(T) /\ Cardinality(T) \in Nat
    BY <1>1, SumOnes, FS_CardinalityType
  <1>3. SumFunction(units) = SumFunctionOnSet(units, T)
    BY <1>1, Zenon DEF SumFunction
  <1> QED
    BY <1>2, <1>3 DEF units

\* What an order was repaid is the number of its repayments.
LEMMA RepaidCount ==
    ASSUME EntriesSound, NEW x
    PROVE  /\ IsFiniteSet(RepaymentsOf(x)) /\ RepaidUnits(x) = Cardinality(RepaymentsOf(x))
           /\ RepaidUnits(x) \in Nat
  <1>1. IsFiniteSet(RepaymentsOf(x)) /\ \A row \in RepaymentsOf(x) : row.units = 1
    <2>1. RepaymentsOf(x) \in SUBSET repaid
      BY DEF RepaymentsOf
    <2> QED
      BY <2>1, FS_Subset DEF EntriesSound
  <1>2. RepaidUnits(x) = SumFunction([row \in RepaymentsOf(x) |-> row.units])
    BY DEF RepaidUnits, TotalOf
  <1> QED
    BY <1>1, <1>2, UnitsCount

\* The period and the one before it make up the two together.
LEMMA PeriodsJoin ==
    ASSUME EntriesSound, NEW period, PeriodSound(period), NEW stores,
           NEW both, both = [from |-> PreviousPeriod(period).from, to |-> period.to]
    PROVE  MoneyOf(PreviousPeriod(period), stores).figures.gross
                + MoneyOf(period, stores).figures.gross = MoneyOf(both, stores).figures.gross
  <1>1. PICK before, P, L, B :
            /\ before = PreviousPeriod(period) /\ P = LedgerOf(before, stores)
            /\ L = LedgerOf(period, stores) /\ B = LedgerOf(both, stores)
    OBVIOUS
  <1>2. /\ before.from = 2 * period.from - period.to /\ before.to = period.from
        /\ both.from = before.from /\ both.to = period.to
    BY <1>1 DEF PreviousPeriod
  <1>3. ASSUME NEW row \in entries
        PROVE  /\ Within(row, both) <=> Within(row, before) \/ Within(row, period)
               /\ ~(Within(row, before) /\ Within(row, period))
    <2>1. row.at \in Int /\ period.from \in Int /\ period.to \in Int /\ period.from < period.to
      BY DEF EntriesSound, PeriodSound
    <2> QED
      BY <1>2, <2>1 DEF Within
  <1>4. B = P \cup L /\ P \cap L = {}
    BY <1>1, <1>3 DEF LedgerOf
  <1>5. /\ P \in SUBSET entries /\ L \in SUBSET entries /\ B \in SUBSET entries
        /\ IsFiniteSet(P) /\ IsFiniteSet(L)
        /\ \A row \in P \cup L : GrossIn[row] \in Int
    BY <1>1, LedgerRows
  <1>6. SumFunctionOnSet(GrossIn, P \cup L)
            = SumFunctionOnSet(GrossIn, P) + SumFunctionOnSet(GrossIn, L)
    BY <1>4, <1>5, SumParted
  <1>7. /\ MoneyOf(before, stores).figures = Figures(P)
        /\ MoneyOf(period, stores).figures = Figures(L)
        /\ MoneyOf(both, stores).figures = Figures(B)
    BY <1>1 DEF MoneyOf
  <1> QED
    BY <1>1, <1>4, <1>5, <1>6, <1>7, FiguresSum, Zenon

\* Every order of the period has an entry of the period.
LEMMA OrdersCounted ==
    ASSUME EntriesSound, OrdersExplained, NEW period, NEW stores
    PROVE  CountOrders(period, stores, OrderStates) <= MoneyOf(period, stores).figures.orders
  <1>1. PICK L : L = LedgerOf(period, stores)
    OBVIOUS
  <1>2. L \in SUBSET entries /\ IsFiniteSet(L)
    BY <1>1, LedgerRows
  <1>s. PICK sale : sale = [row \in L |-> row.sale]
    OBVIOUS
  <1>x. PICK X : X = {sale[row] : row \in L}
    OBVIOUS
  <1>3. IsFiniteSet(X)
    BY <1>2, <1>x, ImageFinite, Zenon
  <1> DEFINE T == {x \in Placed : /\ Within(saleRow[x], period) /\ saleRow[x].store \in stores
                                  /\ saleRow[x].status \in OrderStates}
  <1>4. T \subseteq X
    <2> SUFFICES ASSUME NEW x \in T PROVE x \in X
      OBVIOUS
    <2>1. PICK row \in EntriesOf(x) : row.at = saleRow[x].at
      BY DEF OrdersExplained, SaleExplained
    <2>2. row \in entries /\ row.sale = x /\ Within(row, period)
      BY <2>1 DEF EntriesOf, Within
    <2> QED
      BY <1>1, <1>s, <1>x, <2>2 DEF LedgerOf
  <1>5. CountOrders(period, stores, OrderStates) = Cardinality(T)
    BY DEF CountOrders
  <1> HIDE DEF T
  <1>6. Cardinality(T) <= Cardinality(X)
    BY <1>3, <1>4, FS_Subset
  <1>7. MoneyOf(period, stores).figures = Figures(L) /\ X = {row.sale : row \in L}
    BY <1>1, <1>s, <1>x DEF MoneyOf
  <1>8. Figures(L).orders = Cardinality(X)
    BY <1>2, <1>7, FiguresSum, Zenon
  <1> QED
    BY <1>5, <1>6, <1>7, <1>8

\* The entries of a period that takes in everything are those of the orders.
LEMMA OrdersAddUp ==
    ASSUME EntriesSound, OrdersExplained, NEW period, PeriodSound(period), NEW stores,
           period.from <= 0, period.to > clock,
           NEW all, all = {x \in Placed : saleRow[x].store \in stores},
           \A x \in all : Cancelled(x) => RepaymentsOf(x) = {}
    PROVE  /\ MoneyOf(period, stores).figures.gross
                 = SumFunction([x \in all |-> 10 * EffectiveUnits(x)])
           /\ MoneyOf(period, stores).figures.commission
                 = SumFunction([x \in all |-> EffectiveUnits(x)])
  <1>1. PICK L : L = LedgerOf(period, stores)
    OBVIOUS
  <1>2. /\ L \in SUBSET entries /\ IsFiniteSet(L)
        /\ \A row \in L : GrossIn[row] \in Int /\ CommissionIn[row] \in Int
    BY <1>1, LedgerRows
  <1>3. IsFiniteSet(all)
    BY FS_Subset DEF EntriesSound
  <1>4. PICK sale : sale = [row \in entries |-> row.sale]
    OBVIOUS
  <1>5. \A row \in L : sale[row] \in all
    BY <1>1, <1>2, <1>4 DEF LedgerOf, EntriesSound
  <1>6. ASSUME NEW x \in all PROVE {row \in L : sale[row] = x} = EntriesOf(x)
    <2>1. ASSUME NEW row \in entries PROVE Within(row, period)
      <3>1. row.at \in 0..clock /\ clock \in Nat /\ period.from \in Int /\ period.to \in Int
        BY DEF EntriesSound, PeriodSound
      <3> QED
        BY <3>1 DEF Within
    <2> QED
      BY <1>1, <1>4, <2>1 DEF LedgerOf, EntriesOf
  <1>7. ASSUME NEW x \in all PROVE EffectiveUnits(x) = UnitsLeft(x) /\ UnitsLeft(x) \in Int
    <2>1. RepaidUnits(x) \in Nat /\ UnitsSold \in Nat
      BY RepaidCount, AnalyticsShape
    <2>2. Cancelled(x) => RepaidUnits(x) = 0
      BY RepaidCount, FS_EmptySet
    <2> QED
      BY <2>1, <2>2 DEF EffectiveUnits, UnitsLeft, Cancelled
  <1> DEFINE gross == [x \in all |-> 10 * EffectiveUnits(x)]
             commission == [x \in all |-> EffectiveUnits(x)]
  <1>9. ASSUME NEW x \in all
        PROVE  /\ gross[x] = SumFunctionOnSet(GrossIn, {row \in L : sale[row] = x})
               /\ commission[x] = SumFunctionOnSet(CommissionIn, {row \in L : sale[row] = x})
    <2>1. PICK S : S = EntriesOf(x)
      OBVIOUS
    <2>2. S \in SUBSET entries /\ x \in Placed
      BY <2>1 DEF EntriesOf
    <2>3. Figures(S).gross = 10 * UnitsLeft(x) /\ Figures(S).commission = UnitsLeft(x)
      BY <2>1, <2>2 DEF OrdersExplained, SaleExplained
    <2>4. /\ Figures(S).gross = SumFunctionOnSet(GrossIn, S)
          /\ Figures(S).commission = SumFunctionOnSet(CommissionIn, S)
      BY <2>2, FiguresSum, Zenon
    <2>5. gross[x] = 10 * UnitsLeft(x) /\ commission[x] = UnitsLeft(x)
      BY <1>7
    <2>6. S = {row \in L : sale[row] = x}
      BY <1>6, <2>1
    <2> HIDE DEF gross, commission
    <2> QED
      BY <2>3, <2>4, <2>5, <2>6, Zenon
  <1>10. DOMAIN gross = all /\ DOMAIN commission = all
    OBVIOUS
  <1> HIDE DEF gross, commission
  <1>11. Groups(gross, all, GrossIn, L, sale) /\ Groups(commission, all, CommissionIn, L, sale)
    BY <1>2, <1>3, <1>5, <1>9, <1>10 DEF Groups
  <1>12. /\ SumFunction(gross) = SumFunctionOnSet(GrossIn, L)
         /\ SumFunction(commission) = SumFunctionOnSet(CommissionIn, L)
    BY <1>11, GroupTotals, Zenon
  <1>13. MoneyOf(period, stores).figures = Figures(L)
    BY <1>1 DEF MoneyOf
  <1>14. /\ Figures(L).gross = SumFunctionOnSet(GrossIn, L)
         /\ Figures(L).commission = SumFunctionOnSet(CommissionIn, L)
    BY <1>2, FiguresSum, Zenon
  <1> QED
    BY <1>12, <1>13, <1>14, Zenon DEF gross, commission

\* One of a few numbers is the greatest.
LEMMA GreatestExists ==
    ASSUME NEW S, IsFiniteSet(S), S # {}, NEW f, \A x \in S : f[x] \in Int
    PROVE  \E x \in S : \A y \in S : f[y] <= f[x]
  <1> DEFINE Bad == {T \in SUBSET S : T # {} /\ ~\E x \in T : \A y \in T : f[y] <= f[x]}
  <1> SUFFICES ASSUME Bad # {} PROVE FALSE
    OBVIOUS
  <1>0. Bad \subseteq SUBSET S
    OBVIOUS
  <1> HIDE DEF Bad
  <1>1. PICK T \in Bad : \A U \in Bad : U \subseteq T => U = T
    BY <1>0, SmallestSubset
  <1> USE DEF Bad
  <1>2. PICK c \in T : TRUE
    OBVIOUS
  <1>3. CASE T \ {c} = {}
    BY <1>2, <1>3
  <1>4. CASE T \ {c} # {}
    <2>0. T \ {c} \notin Bad
      <3>1. T \ {c} \subseteq T /\ T \ {c} # T
        BY <1>2
      <3> QED
        BY <1>1, <3>1, Zenon
    <2>1. PICK m \in T \ {c} : \A y \in T \ {c} : f[y] <= f[m]
      <3>1. T \ {c} \in SUBSET S
        OBVIOUS
      <3> QED
        BY <1>4, <2>0, <3>1
    <2>2. f[c] \in Int /\ \A y \in T : f[y] \in Int
      OBVIOUS
    <2>3. CASE f[c] <= f[m]
      <3>1. \A y \in T : f[y] <= f[m]
        BY <2>1, <2>3
      <3> QED
        BY <3>1
    <2>4. CASE f[m] < f[c]
      <3>1. \A y \in T : f[y] <= f[c]
        BY <2>1, <2>2, <2>4
      <3> QED
        BY <3>1
    <2> QED
      BY <2>2, <2>3, <2>4
  <1> QED
    BY <1>3, <1>4

\* None of the rest is greater than one of the set.
Top(S, D, f) == \A x \in S : \A y \in D \ S : f[y] <= f[x]

\* There are as many of the greatest as are asked for.
LEMMA TopExists ==
    ASSUME NEW D, IsFiniteSet(D), NEW f, \A x \in D : f[x] \in Int,
           NEW n \in Nat, n <= Cardinality(D)
    PROVE  \E S \in SUBSET D : Cardinality(S) = n /\ Top(S, D, f)
  <1> DEFINE Enough == {U \in SUBSET D : Top(D \ U, D, f) /\ Cardinality(D \ U) <= n}
  <1>1. D \in Enough
    BY FS_EmptySet DEF Top
  <1>2. Enough \subseteq SUBSET D
    OBVIOUS
  <1> HIDE DEF Enough
  <1>3. PICK U \in Enough : \A V \in Enough : V \subseteq U => V = U
    BY <1>1, <1>2, SmallestSubset
  <1> USE DEF Enough
  <1>4. PICK S : S = D \ U
    OBVIOUS
  <1>5. /\ S \subseteq D /\ D \ S = U /\ Top(S, D, f) /\ Cardinality(S) <= n
        /\ IsFiniteSet(S) /\ Cardinality(S) \in Nat
    BY <1>4, FS_Subset, FS_CardinalityType
  <1>6. SUFFICES ASSUME Cardinality(S) # n PROVE FALSE
    BY <1>5
  <1>7. U # {}
    <2>1. SUFFICES ASSUME U = {} PROVE FALSE
      OBVIOUS
    <2>2. Cardinality(S) = Cardinality(D)
      BY <1>4, <2>1
    <2> QED
      BY <1>5, <1>6, <2>2
  <1>8. PICK x \in U : \A y \in U : f[y] <= f[x]
    <2>1. IsFiniteSet(U) /\ \A y \in U : f[y] \in Int
      BY FS_Subset
    <2> QED
      BY <1>7, <2>1, GreatestExists
  <1>9. D \ (U \ {x}) = S \cup {x} /\ x \notin S /\ x \in D
    BY <1>4, <1>8
  <1>10. Cardinality(S \cup {x}) <= n
    <2>1. Cardinality(S \cup {x}) = Cardinality(S) + 1
      BY <1>5, <1>9, FS_AddElement
    <2> QED
      BY <1>5, <1>6, <2>1
  <1>11. Top(S \cup {x}, D, f)
    BY <1>5, <1>8, <1>9 DEF Top
  <1>12. U \ {x} \in Enough
    BY <1>9, <1>10, <1>11
  <1> QED
    BY <1>3, <1>8, <1>12

\* A list is of rows that there are, and of all of them if they are few.
LEMMA ListedRows ==
    ASSUME NEW rank, IsFiniteSet(DOMAIN rank), \A x \in DOMAIN rank : rank[x] \in Int,
           NEW n \in Nat
    PROVE  /\ Listed(rank, n) \subseteq DOMAIN rank
           /\ Cardinality(DOMAIN rank) <= n => Listed(rank, n) = DOMAIN rank
  <1>1. CASE Cardinality(DOMAIN rank) <= n
    BY <1>1 DEF Listed
  <1>2. CASE ~(Cardinality(DOMAIN rank) <= n)
    <2>1. Cardinality(DOMAIN rank) \in Nat
      BY FS_CardinalityType
    <2>2. n <= Cardinality(DOMAIN rank)
      BY <1>2, <2>1
    <2>3. \E top \in SUBSET DOMAIN rank :
              Cardinality(top) = n /\ \A x \in top : \A y \in DOMAIN rank \ top : rank[y] <= rank[x]
      BY <2>2, TopExists, Zenon DEF Top
    <2>4. (CHOOSE top \in SUBSET DOMAIN rank :
              Cardinality(top) = n /\ \A x \in top : \A y \in DOMAIN rank \ top : rank[y] <= rank[x])
              \in SUBSET DOMAIN rank
      BY <2>3, Zenon
    <2> QED
      BY <1>2, <2>4 DEF Listed
  <1> QED
    BY <1>1, <1>2

\* What the products of such a period sold is what stays sold of the orders that
\* were delivered, if they are all listed, and no more if they are not.
LEMMA ProductsAddUp ==
    ASSUME EntriesSound, RowsNumbered, NEW period, PeriodSound(period), NEW stores,
           period.from <= 0, period.to > clock,
           NEW all, all = {x \in Placed : saleRow[x].store \in stores},
           NEW products, products = TopProducts(period, stores),
           NEW total, total = SumFunction([x \in all \cap Delivered |-> 10 * EffectiveUnits(x)])
    PROVE  /\ SumOver(products, LAMBDA sales : sales) <= total
           /\ Cardinality(all \cap Delivered) <= ProductsListed
                  => SumOver(products, LAMBDA sales : sales) = total
  <1>1. PICK D : D = all \cap Delivered
    OBVIOUS
  <1>2. {y \in Delivered : Within(saleRow[y], period) /\ saleRow[y].store \in stores} = D
    <2>1. ASSUME NEW y \in Placed PROVE Within(saleRow[y], period)
      <3>1. /\ saleRow[y].at \in 0..clock /\ clock \in Nat
            /\ period.from \in Int /\ period.to \in Int
        BY DEF EntriesSound, PeriodSound
      <3> QED
        BY <3>1 DEF Within
    <2> QED
      BY <1>1, <2>1 DEF Delivered
  <1>3. PICK sold : sold = [x \in D |-> 10 * (UnitsSold - RepaidUnits(x))]
    OBVIOUS
  <1>4. PICK T : T = Listed(sold, ProductsListed)
    OBVIOUS
  <1>5. products = [x \in T |-> sold[x]]
    <2>1. products = Restrict(sold, Listed(sold, ProductsListed))
      BY <1>2, <1>3 DEF TopProducts
    <2> QED
      BY <1>4, <2>1 DEF Restrict
  <1>6. DOMAIN sold = D /\ IsFiniteSet(D) /\ \A x \in D : sold[x] \in Nat
    <2>1. D \subseteq Placed
      BY <1>1 DEF Delivered
    <2>2. IsFiniteSet(D)
      BY <2>1, FS_Subset DEF EntriesSound
    <2>3. \A x \in D : RepaidUnits(x) \in Nat /\ RepaidUnits(x) <= UnitsSold
      BY <2>1, RepaidCount DEF RowsNumbered
    <2> QED
      BY <1>3, <2>2, <2>3, AnalyticsShape
  <1>7. T \subseteq D /\ (Cardinality(D) <= ProductsListed => T = D)
    <2>1. IsFiniteSet(DOMAIN sold) /\ (\A x \in DOMAIN sold : sold[x] \in Int)
          /\ ProductsListed \in Nat
      BY <1>6, AnalyticsShape
    <2>2. /\ Listed(sold, ProductsListed) \subseteq DOMAIN sold
          /\ Cardinality(DOMAIN sold) <= ProductsListed
                => Listed(sold, ProductsListed) = DOMAIN sold
      BY <2>1, ListedRows, Zenon
    <2> QED
      BY <1>4, <1>6, <2>2
  <1>8. SumOver(products, LAMBDA sales : sales) = SumFunctionOnSet(sold, T)
    <2>1. PICK g : g = [i \in DOMAIN products |-> products[i]]
      OBVIOUS
    <2>2. DOMAIN g = T /\ \A x \in T : g[x] = sold[x]
      BY <1>5, <2>1
    <2>3. IsFiniteSet(T)
      BY <1>6, <1>7, FS_Subset
    <2>4. SumFunction(g) = SumFunctionOnSet(sold, T)
      BY <2>2, <2>3, TotalIsSum
    <2> QED
      BY <2>1, <2>4 DEF SumOver, TotalOf
  <1>9. total = SumFunctionOnSet(sold, D)
    <2>1. \A x \in D : EffectiveUnits(x) = UnitsSold - RepaidUnits(x)
      BY <1>1 DEF EffectiveUnits, Delivered
    <2>2. sold = [x \in all \cap Delivered |-> 10 * EffectiveUnits(x)]
      BY <1>1, <1>3, <2>1
    <2>3. total = SumFunction(sold)
      BY <2>2
    <2> QED
      BY <1>6, <2>3, Zenon DEF SumFunction
  <1>10. SumFunctionOnSet(sold, T) <= SumFunctionOnSet(sold, D)
    <2>1. PICK rest : rest = D \ T
      OBVIOUS
    <2>2. /\ D = T \cup rest /\ T \cap rest = {} /\ IsFiniteSet(T) /\ IsFiniteSet(rest)
          /\ \A x \in T \cup rest : sold[x] \in Nat /\ sold[x] \in Int
      BY <1>6, <1>7, <2>1, FS_Subset
    <2>3. /\ SumFunctionOnSet(sold, T) \in Nat /\ SumFunctionOnSet(sold, rest) \in Nat
      BY <2>2, SumNat
    <2>4. SumFunctionOnSet(sold, T \cup rest)
              = SumFunctionOnSet(sold, T) + SumFunctionOnSet(sold, rest)
      BY <2>2, SumParted
    <2> QED
      BY <2>2, <2>3, <2>4
  <1> QED
    BY <1>1, <1>7, <1>8, <1>9, <1>10

\* It agrees with the orders too.
LEMMA ReadsAgreeWithOrders ==
    ASSUME EntriesSound, RowsNumbered, OrdersExplained,
           NEW r, PeriodSound(r.period), Reads(r)
    PROVE  AgreesWithOrders(r)
  <1>1. PICK all, sold, both :
            /\ all = {x \in Placed : saleRow[x].store \in r.stores}
            /\ sold = SumFunction([x \in all \cap Delivered |-> 10 * EffectiveUnits(x)])
            /\ both = [from |-> PreviousPeriod(r.period).from, to |-> r.period.to]
    OBVIOUS
  <1>2. ASSUME r.stores = Stores
        PROVE  /\ r.parts.previous.figures.gross + r.parts.money.figures.gross
                      = MoneyOf(both, r.stores).figures.gross
               /\ r.parts.orders <= r.parts.money.figures.orders
    <2>1. /\ r.parts.money = MoneyOf(r.period, r.stores)
          /\ r.parts.previous = MoneyOf(PreviousPeriod(r.period), r.stores)
          /\ r.parts.orders = CountOrders(r.period, r.stores, OrderStates)
      BY <1>2, PartsOf, Zenon
    <2> QED
      BY <1>1, <2>1, PeriodsJoin, OrdersCounted
  <1>3. ASSUME r.period.from <= 0, r.period.to > clock,
               \A x \in all : saleRow[x].status = "CANCELLED" => RepaymentsOf(x) = {}
        PROVE  /\ r.parts.money.figures.gross
                     = SumFunction([x \in all |-> 10 * EffectiveUnits(x)])
               /\ r.parts.money.figures.commission
                     = SumFunction([x \in all |-> EffectiveUnits(x)])
               /\ SumOver(r.parts.products, LAMBDA sales : sales) <= sold
               /\ Cardinality(all \cap Delivered) <= ProductsListed
                      => SumOver(r.parts.products, LAMBDA sales : sales) = sold
    <2>1. /\ r.parts.money = MoneyOf(r.period, r.stores)
          /\ r.parts.products = TopProducts(r.period, r.stores)
      BY PartsOf, Zenon
    <2>2. \A x \in all : Cancelled(x) => RepaymentsOf(x) = {}
      BY <1>3 DEF Cancelled
    <2>3. /\ MoneyOf(r.period, r.stores).figures.gross
                = SumFunction([x \in all |-> 10 * EffectiveUnits(x)])
          /\ MoneyOf(r.period, r.stores).figures.commission
                = SumFunction([x \in all |-> EffectiveUnits(x)])
      BY <1>1, <1>3, <2>2, OrdersAddUp
    <2>4. /\ SumOver(r.parts.products, LAMBDA sales : sales) <= sold
          /\ Cardinality(all \cap Delivered) <= ProductsListed
                 => SumOver(r.parts.products, LAMBDA sales : sales) = sold
      BY <1>1, <1>3, <2>1, ProductsAddUp
    <2> QED
      BY <2>1, <2>3, <2>4
  <1> QED
    BY <1>1, <1>2, <1>3 DEF AgreesWithOrders, TotalOf

---------------------------------------------------------------------------
(* The transactions.                                                       *)

\* Two more rows.
LEMMA TwoMore ==
    ASSUME NEW f, NEW h, NEW a, NEW b, IsFiniteSet(DOMAIN f), a \notin DOMAIN f,
           b \notin DOMAIN f, a # b, DOMAIN h = DOMAIN f \cup {a, b},
           \A y \in DOMAIN f : f[y] \in Int /\ h[y] = f[y], h[a] \in Int, h[b] \in Int
    PROVE  SumFunction(h) = SumFunction(f) + (h[a] + h[b]) /\ SumFunction(f) \in Int
  <1> DEFINE S == DOMAIN f
             g == [y \in S \cup {a} |-> h[y]]
  <1>1. DOMAIN g = S \cup {a} /\ \A y \in S \cup {a} : g[y] = h[y] /\ g[y] \in Int
    OBVIOUS
  <1> HIDE DEF g
  <1>2. IsFiniteSet(S \cup {a})
    BY FS_AddElement
  <1>3. SumFunction(g) = SumFunction(f) + g[a]
    BY <1>1, TotalExtended
  <1>4. DOMAIN h = DOMAIN g \cup {b} /\ b \notin DOMAIN g
    BY <1>1
  <1>5. SumFunction(h) = SumFunction(g) + h[b]
    BY <1>1, <1>2, <1>4, TotalExtended
  <1>6. SumFunction(f) \in Int
    BY SumInt DEF SumFunction
  <1> QED
    BY <1>1, <1>3, <1>5, <1>6

\* Rows that may be added up, two of them beside the others.
Postable(S, a, b) ==
    /\ IsFiniteSet(S) /\ a \notin S /\ b \notin S /\ a # b
    /\ \A row \in S \cup {a, b} : GrossOf(row) \in Int /\ CommissionOf(row) \in Int

\* The figures of two more rows.
LEMMA FiguresMore ==
    ASSUME NEW S, NEW a, NEW b, Postable(S, a, b)
    PROVE  /\ Figures(S \cup {a, b}).gross = Figures(S).gross + (GrossOf(a) + GrossOf(b))
           /\ Figures(S \cup {a, b}).commission
                 = Figures(S).commission + (CommissionOf(a) + CommissionOf(b))
           /\ Figures(S).gross \in Int /\ Figures(S).commission \in Int
  <1> DEFINE f == [row \in S |-> GrossOf(row)]
             h == [row \in S \cup {a, b} |-> GrossOf(row)]
             e == [row \in S |-> CommissionOf(row)]
             k == [row \in S \cup {a, b} |-> CommissionOf(row)]
  <1>1. /\ Figures(S).gross = SumFunction(f) /\ Figures(S).commission = SumFunction(e)
        /\ Figures(S \cup {a, b}).gross = SumFunction(h)
        /\ Figures(S \cup {a, b}).commission = SumFunction(k)
    BY DEF Figures, TotalOf
  <1>2. /\ DOMAIN f = S /\ DOMAIN e = S /\ DOMAIN h = S \cup {a, b} /\ DOMAIN k = S \cup {a, b}
        /\ \A row \in S : f[row] \in Int /\ h[row] = f[row] /\ e[row] \in Int /\ k[row] = e[row]
        /\ h[a] = GrossOf(a) /\ h[b] = GrossOf(b)
        /\ k[a] = CommissionOf(a) /\ k[b] = CommissionOf(b)
        /\ h[a] \in Int /\ h[b] \in Int /\ k[a] \in Int /\ k[b] \in Int
    BY DEF Postable
  <1>0. IsFiniteSet(S) /\ a \notin S /\ b \notin S /\ a # b
    BY DEF Postable
  <1> HIDE DEF f, h, e, k
  <1>3. SumFunction(h) = SumFunction(f) + (h[a] + h[b]) /\ SumFunction(f) \in Int
    BY <1>0, <1>2, TwoMore
  <1>4. SumFunction(k) = SumFunction(e) + (k[a] + k[b]) /\ SumFunction(e) \in Int
    BY <1>0, <1>2, TwoMore
  <1> QED
    BY <1>1, <1>2, <1>3, <1>4

\* The two rows of a posting.
EntryOf(x, nth, type, units, at) ==
    [sale |-> x, nth |-> nth, type |-> type, units |-> units, at |-> at]

Posting(a, b, x, nth, credit, debit, units, at) ==
    /\ a = EntryOf(x, nth, credit, units, at) /\ b = EntryOf(x, nth, debit, units, at)
    /\ entries' = entries \cup {a, b} /\ a \notin entries /\ b \notin entries

\* What it does to the rows and to the figures of its order.
LEMMA PostingSays ==
    ASSUME EntriesSound, NEW a, NEW b, NEW x, NEW nth, NEW units \in Nat, NEW at,
           NEW credit \in EntryTypes, NEW debit \in EntryTypes \ {credit},
           Posting(a, b, x, nth, credit, debit, units, at)
    PROVE  /\ IsFiniteSet(entries') /\ Cardinality(entries') = Cardinality(entries) + 2
           /\ Cardinality(entries) \in Nat
           /\ EntriesOf(x)' = EntriesOf(x) \cup {a, b}
           /\ \A y : y # x => EntriesOf(y)' = EntriesOf(y)
           /\ \A y : EntriesOf(y) \subseteq EntriesOf(y)'
           /\ Figures(EntriesOf(x) \cup {a, b}).gross
                 = Figures(EntriesOf(x)).gross + (GrossOf(a) + GrossOf(b))
           /\ Figures(EntriesOf(x) \cup {a, b}).commission
                 = Figures(EntriesOf(x)).commission + (CommissionOf(a) + CommissionOf(b))
           /\ Figures(EntriesOf(x)).gross \in Int /\ Figures(EntriesOf(x)).commission \in Int
  <1>1. /\ a.sale = x /\ a.type = credit /\ a.units = units
        /\ b.sale = x /\ b.type = debit /\ b.units = units
        /\ a # b /\ a \notin entries /\ b \notin entries /\ entries' = entries \cup {a, b}
    BY DEF Posting, EntryOf
  <1>2. IsFiniteSet(entries) /\ Cardinality(entries) \in Nat
    BY FS_CardinalityType DEF EntriesSound
  <1>3. IsFiniteSet(entries') /\ Cardinality(entries') = Cardinality(entries) + 2
    <2>1. /\ IsFiniteSet(entries \cup {a})
          /\ Cardinality(entries \cup {a}) = Cardinality(entries) + 1
      BY <1>1, <1>2, FS_AddElement
    <2>2. /\ IsFiniteSet((entries \cup {a}) \cup {b})
          /\ Cardinality((entries \cup {a}) \cup {b}) = Cardinality(entries \cup {a}) + 1
      BY <1>1, <2>1, FS_AddElement
    <2>3. entries' = (entries \cup {a}) \cup {b}
      BY <1>1
    <2> QED
      BY <1>2, <2>1, <2>2, <2>3
  <1>4. /\ EntriesOf(x)' = EntriesOf(x) \cup {a, b}
        /\ \A y : y # x => EntriesOf(y)' = EntriesOf(y)
        /\ \A y : EntriesOf(y) \subseteq EntriesOf(y)'
    BY <1>1 DEF EntriesOf
  <1>5. PICK S : S = EntriesOf(x)
    OBVIOUS
  <1>6. IsFiniteSet(S) /\ S \subseteq entries
    BY <1>2, <1>5, FS_Subset DEF EntriesOf
  <1>7. \A row \in S : GrossOf(row) \in Int /\ CommissionOf(row) \in Int
    BY <1>6, RowFigures
  <1>8. /\ GrossOf(a) \in Int /\ CommissionOf(a) \in Int
        /\ GrossOf(b) \in Int /\ CommissionOf(b) \in Int
    BY <1>1 DEF GrossOf, CommissionOf
  <1>9. /\ Figures(S \cup {a, b}).gross = Figures(S).gross + (GrossOf(a) + GrossOf(b))
        /\ Figures(S \cup {a, b}).commission
              = Figures(S).commission + (CommissionOf(a) + CommissionOf(b))
        /\ Figures(S).gross \in Int /\ Figures(S).commission \in Int
    <2>1. Postable(S, a, b)
      BY <1>1, <1>6, <1>7, <1>8 DEF Postable
    <2> QED
      BY <2>1, FiguresMore
  <1> QED
    BY <1>2, <1>3, <1>4, <1>5, <1>9, Zenon

\* Rows posted for an order that is placed keep the ledger sound.
LEMMA PostedSound ==
    ASSUME EntriesSound, NEW a, NEW b, NEW x, NEW nth \in Nat, NEW units \in Nat,
           NEW at \in 0..clock,
           NEW credit \in EntryTypes, NEW debit \in EntryTypes \ {credit},
           Posting(a, b, x, nth, credit, debit, units, at),
           clock' = clock, x \in Placed', Placed \subseteq Placed'
    PROVE  \A row \in entries' :
              /\ row.sale \in Placed' /\ row.at \in 0..clock'
              /\ row.nth \in Nat /\ row.units \in Nat /\ row.type \in EntryTypes
  <1>1. /\ a.sale = x /\ a.nth = nth /\ a.type = credit /\ a.units = units /\ a.at = at
        /\ b.sale = x /\ b.nth = nth /\ b.type = debit /\ b.units = units /\ b.at = at
        /\ entries' = entries \cup {a, b}
    BY DEF Posting, EntryOf
  <1>2. ASSUME NEW row \in entries
        PROVE  /\ row.sale \in Placed /\ row.at \in 0..clock
               /\ row.nth \in Nat /\ row.units \in Nat /\ row.type \in EntryTypes
    BY DEF EntriesSound
  <1> QED
    BY <1>1, <1>2

\* The figures of a sale.
LEMMA SaleFigures ==
    ASSUME NEW a, NEW b, NEW units \in Nat, a.type = "SALE_CREDIT", a.units = units,
           b.type = "COMMISSION_DEBIT", b.units = units
    PROVE  GrossOf(a) + GrossOf(b) = 10 * units /\ CommissionOf(a) + CommissionOf(b) = units
  <1>1. /\ GrossOf(a) = 10 * units /\ GrossOf(b) = 0
        /\ CommissionOf(a) = 0 /\ CommissionOf(b) = units
    BY DEF GrossOf, CommissionOf
  <1> QED
    BY <1>1

\* And of a reversal.
LEMMA ReversalFigures ==
    ASSUME NEW a, NEW b, NEW units \in Nat, a.type = "SELLER_EARNING_REVERSAL", a.units = units,
           b.type = "PLATFORM_COMMISSION_REVERSAL", b.units = units
    PROVE  GrossOf(a) + GrossOf(b) = -(10 * units) /\ CommissionOf(a) + CommissionOf(b) = -units
  <1>1. /\ GrossOf(a) = -10 * units /\ GrossOf(b) = 0
        /\ CommissionOf(a) = 0 /\ CommissionOf(b) = -units
    BY DEF GrossOf, CommissionOf
  <1> QED
    BY <1>1

\* What is committed counts.
LEMMA MoreCommitted ==
    ASSUME EntriesSound, IsFiniteSet(entries'), IsFiniteSet(Placed'), NEW x,
           \/ Cardinality(entries') = Cardinality(entries) + 2 /\ Delivered' = Delivered
           \/ entries' = entries /\ x \notin Delivered /\ Delivered' = Delivered \cup {x}
    PROVE  Version \in Nat /\ Version' \in Nat /\ Version < Version'
  <1>1. IsFiniteSet(entries) /\ IsFiniteSet(Delivered)
    BY FS_Subset DEF EntriesSound, Delivered
  <1>2. Cardinality(entries) \in Nat /\ Cardinality(Delivered) \in Nat
    BY <1>1, FS_CardinalityType
  <1>3. CASE Cardinality(entries') = Cardinality(entries) + 2 /\ Delivered' = Delivered
    <2>1. Cardinality(Delivered') = Cardinality(Delivered)
      BY <1>3
    <2> QED
      BY <1>2, <1>3, <2>1 DEF Version
  <1>4. CASE entries' = entries /\ x \notin Delivered /\ Delivered' = Delivered \cup {x}
    <2>1. Cardinality(Delivered \cup {x}) = Cardinality(Delivered) + 1
      BY <1>1, <1>4, FS_AddElement
    <2>2. Cardinality(Delivered') = Cardinality(Delivered) + 1
      BY <1>4, <2>1
    <2> QED
      BY <1>2, <1>4, <2>2 DEF Version
  <1> QED
    BY <1>3, <1>4

\* An order whose rows stay is explained as before.
LEMMA StaysExplained ==
    ASSUME NEW y, SaleExplained(y), EntriesOf(y)' = EntriesOf(y), UnitsLeft(y)' = UnitsLeft(y),
           saleRow'[y].at = saleRow[y].at
    PROVE  SaleExplained(y)'
  <1>1. /\ Figures(EntriesOf(y)').gross = 10 * UnitsLeft(y)'
        /\ Figures(EntriesOf(y)').commission = UnitsLeft(y)'
    BY DEF SaleExplained
  <1>2. \E row \in EntriesOf(y)' : row.at = saleRow'[y].at
    BY DEF SaleExplained
  <1> QED
    BY <1>1, <1>2 DEF SaleExplained

\* The one that the rows are posted for is if they are what it changes by.
LEMMA PostingExplained ==
    ASSUME EntriesSound, NEW a, NEW b, NEW x, NEW nth, NEW units \in Nat, NEW at,
           NEW credit \in EntryTypes, NEW debit \in EntryTypes \ {credit},
           Posting(a, b, x, nth, credit, debit, units, at), NEW left \in Int, NEW change \in Int,
           Figures(EntriesOf(x)).gross = 10 * left, Figures(EntriesOf(x)).commission = left,
           GrossOf(a) + GrossOf(b) = 10 * change, CommissionOf(a) + CommissionOf(b) = change,
           UnitsLeft(x)' = left + change,
           \E row \in EntriesOf(x)' : row.at = saleRow'[x].at
    PROVE  SaleExplained(x)'
  <1>1. /\ EntriesOf(x)' = EntriesOf(x) \cup {a, b}
        /\ Figures(EntriesOf(x) \cup {a, b}).gross
              = Figures(EntriesOf(x)).gross + (GrossOf(a) + GrossOf(b))
        /\ Figures(EntriesOf(x) \cup {a, b}).commission
              = Figures(EntriesOf(x)).commission + (CommissionOf(a) + CommissionOf(b))
    BY PostingSays
  <1>2. /\ Figures(EntriesOf(x) \cup {a, b}).gross = 10 * left + 10 * change
        /\ Figures(EntriesOf(x) \cup {a, b}).commission = left + change
    BY <1>1, Zenon
  <1>3. PICK E : E = EntriesOf(x)'
    OBVIOUS
  <1>4. /\ Figures(E).gross = 10 * left + 10 * change /\ Figures(E).commission = left + change
    BY <1>1, <1>2, <1>3, Zenon
  <1>5. Figures(E).gross = 10 * UnitsLeft(x)' /\ Figures(E).commission = UnitsLeft(x)'
    BY <1>4
  <1> QED
    BY <1>3, <1>5 DEF SaleExplained

\* Instants at which a transaction may have begun.
LEMMA BeganBefore ==
    ASSUME clock \in Nat, NEW at \in BeganAt
    PROVE  at \in 0..clock
  BY DEF BeganAt

\* What an order was repaid stays if no repayment is made.
LEMMA RepaymentsStay ==
    ASSUME repaid' = repaid, NEW y
    PROVE  RepaymentsOf(y)' = RepaymentsOf(y) /\ RepaidUnits(y)' = RepaidUnits(y)
  <1>1. RepaymentsOf(y)' = RepaymentsOf(y)
    BY DEF RepaymentsOf
  <1>2. /\ RepaidUnits(y) = SumFunction([row \in RepaymentsOf(y) |-> row.units])
        /\ RepaidUnits(y)' = SumFunction([row \in RepaymentsOf(y)' |-> row.units])
    BY DEF RepaidUnits, TotalOf
  <1>3. PICK R : R = RepaymentsOf(y)
    OBVIOUS
  <1>4. /\ RepaidUnits(y) = SumFunction([row \in R |-> row.units])
        /\ RepaidUnits(y)' = SumFunction([row \in R |-> row.units])
    BY <1>1, <1>2, <1>3
  <1> QED
    BY <1>1, <1>4

\* The three things that a transaction keeps, and that it counts.
Committed ==
    /\ EntriesSound' /\ RowsNumbered' /\ OrdersExplained'
    /\ Version' \in Nat /\ Version < Version'

\* An order is placed: it had no rows before.
LEMMA PlaceCommitted ==
    ASSUME EntriesSound, RowsNumbered, OrdersExplained, clock' = clock,
           NEW x \in Sales, NEW store \in Stores, NEW at \in BeganAt, PlaceSale(x, store, at)
    PROVE  Committed
  <1> USE AnalyticsShape
  <1>1. /\ clock \in Nat /\ at \in 0..clock /\ UnitsSold \in Nat /\ x \notin Placed
        /\ IsFiniteSet(Placed) /\ IsFiniteSet(entries) /\ IsFiniteSet(repaid)
    BY BeganBefore DEF EntriesSound, PlaceSale
  <1>2. PICK a, b : /\ a = EntryOf(x, 0, "SALE_CREDIT", UnitsSold, at)
                    /\ b = EntryOf(x, 0, "COMMISSION_DEBIT", UnitsSold, at)
    OBVIOUS
  <1>3. /\ entries' = entries \cup {a, b} /\ repaid' = repaid
        /\ \A row \in entries : row.sale # x
        /\ \A row \in repaid : row.sale # x
        /\ a.sale = x /\ b.sale = x
        /\ a.at = at /\ a.type = "SALE_CREDIT" /\ a.units = UnitsSold
        /\ b.at = at /\ b.type = "COMMISSION_DEBIT" /\ b.units = UnitsSold
    <2>1. {EntryOf(x, 0, type, UnitsSold, at) : type \in {"SALE_CREDIT", "COMMISSION_DEBIT"}}
              = {a, b}
      BY <1>2
    <2>2. entries' = entries \cup
            {EntryOf(x, 0, type, UnitsSold, at) : type \in {"SALE_CREDIT", "COMMISSION_DEBIT"}}
      BY DEF PlaceSale, Post, EntryOf
    <2>3. repaid' = repaid
      BY DEF PlaceSale
    <2>4. /\ \A row \in entries : row.sale # x
          /\ \A row \in repaid : row.sale # x
      BY <1>1 DEF EntriesSound
    <2>5. /\ a.sale = x /\ b.sale = x
          /\ a.at = at /\ a.type = "SALE_CREDIT" /\ a.units = UnitsSold
          /\ b.at = at /\ b.type = "COMMISSION_DEBIT" /\ b.units = UnitsSold
      BY <1>2 DEF EntryOf
    <2> QED
      BY <2>1, <2>2, <2>3, <2>4, <2>5
  <1>4. Posting(a, b, x, 0, "SALE_CREDIT", "COMMISSION_DEBIT", UnitsSold, at)
    BY <1>2, <1>3 DEF Posting
  <1>5. /\ "SALE_CREDIT" \in EntryTypes /\ 0 \in Nat
        /\ "COMMISSION_DEBIT" \in EntryTypes \ {"SALE_CREDIT"}
    BY DEF EntryTypes
  <1>6. /\ saleRow' = [y \in Sales |-> saleRow'[y]]
        /\ \A y \in Sales : y # x => saleRow'[y] = saleRow[y]
        /\ saleRow'[x] = [status |-> "PLACED", store |-> store, at |-> at]
    BY DEF PlaceSale, EntriesSound
  <1>7. /\ saleRow'[x].status = "PLACED" /\ saleRow'[x].store = store /\ saleRow'[x].at = at
        /\ DOMAIN saleRow'[x] = {"status", "store", "at"}
        /\ saleRow'[x] # NoSale
    BY <1>6 DEF NoSale
  <1>8. Placed' = Placed \cup {x} /\ IsFiniteSet(Placed')
    <2>1. Placed' = Placed \cup {x}
      BY <1>6, <1>7 DEF Placed
    <2> QED
      BY <1>1, <2>1, FS_AddElement
  <1>9. \A y \in Placed : y \in Sales /\ y # x /\ saleRow'[y] = saleRow[y]
    BY <1>1, <1>6 DEF Placed
  <1>10. Delivered' = Delivered
    BY <1>7, <1>8, <1>9 DEF Delivered
  <1>11. /\ IsFiniteSet(entries') /\ Cardinality(entries') = Cardinality(entries) + 2
         /\ EntriesOf(x)' = EntriesOf(x) \cup {a, b}
         /\ \A y : y # x => EntriesOf(y)' = EntriesOf(y)
    BY <1>1, <1>4, <1>5, PostingSays
  <1>12. EntriesSound'
    <2>1. \A row \in entries' :
              /\ row.sale \in Placed' /\ row.at \in 0..clock'
              /\ row.nth \in Nat /\ row.units \in Nat /\ row.type \in EntryTypes
      BY <1>1, <1>4, <1>5, <1>8, PostedSound
    <2>2. \A y \in Placed' :
            /\ saleRow'[y].store \in Stores /\ saleRow'[y].status \in OrderStates
            /\ saleRow'[y].at \in 0..clock'
            /\ DOMAIN saleRow'[y] = {"status", "store", "at"}
      BY <1>1, <1>7, <1>8, <1>9 DEF EntriesSound, OrderStates
    <2>3. \A row \in repaid' :
            row.sale \in Placed' /\ row.at \in 0..clock' /\ row.nth \in Nat /\ row.units = 1
      BY <1>3, <1>8 DEF EntriesSound
    <2>4. clock' \in Nat /\ IsFiniteSet(repaid')
      BY <1>1, <1>3
    <2> QED
      BY <1>6, <1>8, <1>11, <2>1, <2>2, <2>3, <2>4 DEF EntriesSound
  <1>13. \A y : RepaymentsOf(y)' = RepaymentsOf(y) /\ RepaidUnits(y)' = RepaidUnits(y)
    BY <1>3, RepaymentsStay
  <1>14. RepaidUnits(x) = 0
    <2>1. RepaymentsOf(x) = {}
      BY <1>3 DEF RepaymentsOf
    <2>2. RepaidUnits(x) = Cardinality(RepaymentsOf(x))
      BY RepaidCount
    <2> QED
      BY <2>1, <2>2, FS_EmptySet
  <1>15. RowsNumbered'
    <2>1. \A row \in entries :
            row.type \in Reversal =>
              row.nth <= Cardinality(RepaymentsOf(row.sale)') \/ Cancelled(row.sale)'
      BY <1>3, <1>9, <1>13 DEF RowsNumbered, Cancelled, EntriesSound
    <2>2. \A row \in entries' :
            row.type \in Reversal =>
              row.nth <= Cardinality(RepaymentsOf(row.sale)') \/ Cancelled(row.sale)'
      BY <1>3, <2>1 DEF Reversal
    <2>3. \A row \in repaid' : row.nth <= Cardinality(RepaymentsOf(row.sale)')
      BY <1>3, <1>13 DEF RowsNumbered
    <2>4. \A y \in Placed' : RepaidUnits(y)' <= UnitsSold
      BY <1>1, <1>8, <1>13, <1>14 DEF RowsNumbered
    <2> QED
      BY <2>2, <2>3, <2>4 DEF RowsNumbered
  <1>16. SaleExplained(x)'
    <2>1. EntriesOf(x) = {}
      BY <1>3 DEF EntriesOf
    <2>2. Figures(EntriesOf(x)).gross = 0 /\ Figures(EntriesOf(x)).commission = 0
      <3>1. EntriesOf(x) \in SUBSET entries
        BY DEF EntriesOf
      <3>2. PICK E : E = EntriesOf(x)
        OBVIOUS
      <3>3. /\ Figures(E).gross = SumFunctionOnSet(GrossIn, E)
            /\ Figures(E).commission = SumFunctionOnSet(CommissionIn, E)
        BY <3>1, <3>2, FiguresSum
      <3>4. E = {}
        BY <2>1, <3>2
      <3> QED
        BY <3>2, <3>3, <3>4, SumEmpty, Zenon
    <2>3. UnitsLeft(x)' = UnitsSold
      BY <1>1, <1>7, <1>13, <1>14 DEF UnitsLeft, Cancelled
    <2>4. /\ GrossOf(a) + GrossOf(b) = 10 * UnitsSold
          /\ CommissionOf(a) + CommissionOf(b) = UnitsSold
      BY <1>1, <1>3, SaleFigures
    <2>5. \E row \in EntriesOf(x)' : row.at = saleRow'[x].at
      BY <1>3, <1>7, <1>11
    <2>6. PICK left \in Int : left = 0
      OBVIOUS
    <2>7. /\ Figures(EntriesOf(x)).gross = 10 * left /\ Figures(EntriesOf(x)).commission = left
          /\ UnitsLeft(x)' = left + UnitsSold /\ UnitsSold \in Int
      BY <1>1, <2>2, <2>3, <2>6
    <2> QED
      BY <1>1, <1>4, <1>5, <2>4, <2>5, <2>7, PostingExplained
  <1>17. OrdersExplained'
    <2>1. ASSUME NEW y \in Placed PROVE SaleExplained(y)'
      <3>1. UnitsLeft(y)' = UnitsLeft(y)
        BY <1>9, <1>13 DEF UnitsLeft, Cancelled
      <3>2. EntriesOf(y)' = EntriesOf(y) /\ saleRow'[y].at = saleRow[y].at /\ SaleExplained(y)
        BY <1>9, <1>11 DEF OrdersExplained
      <3> QED
        BY <3>1, <3>2, StaysExplained
    <2> QED
      BY <1>8, <1>16, <2>1 DEF OrdersExplained
  <1>18. Version' \in Nat /\ Version < Version'
    BY <1>8, <1>10, <1>11, MoreCommitted
  <1> QED
    BY <1>12, <1>15, <1>17, <1>18 DEF Committed

\* A unit is repaid: its rows have the next number.
LEMMA RepayCommitted ==
    ASSUME EntriesSound, RowsNumbered, OrdersExplained, clock' = clock,
           NEW x \in Sales, NEW at \in BeganAt, RepayUnit(x, at)
    PROVE  Committed
  <1> USE AnalyticsShape
  <1>1. /\ clock \in Nat /\ at \in 0..clock /\ UnitsSold \in Nat /\ x \in Placed
        /\ IsFiniteSet(Placed) /\ IsFiniteSet(entries) /\ IsFiniteSet(repaid)
        /\ ~Cancelled(x) /\ saleRow' = saleRow /\ RepaidUnits(x) < UnitsSold
    BY BeganBefore DEF EntriesSound, RepayUnit, Cancelled
  <1>2. PICK nth : nth = 1 + Cardinality(RepaymentsOf(x))
    OBVIOUS
  <1>3. /\ IsFiniteSet(RepaymentsOf(x)) /\ RepaidUnits(x) = Cardinality(RepaymentsOf(x))
        /\ RepaidUnits(x) \in Nat
    BY RepaidCount
  <1>4. nth \in Nat /\ nth > Cardinality(RepaymentsOf(x)) /\ nth = 1 + RepaidUnits(x)
    BY <1>2, <1>3
  <1>5. PICK a, b, new : /\ a = EntryOf(x, nth, "SELLER_EARNING_REVERSAL", 1, at)
                         /\ b = EntryOf(x, nth, "PLATFORM_COMMISSION_REVERSAL", 1, at)
                         /\ new = [sale |-> x, nth |-> nth, units |-> 1, at |-> at]
    OBVIOUS
  <1>6. /\ a.sale = x /\ a.nth = nth /\ a.type = "SELLER_EARNING_REVERSAL" /\ a.units = 1
        /\ b.sale = x /\ b.nth = nth /\ b.type = "PLATFORM_COMMISSION_REVERSAL" /\ b.units = 1
        /\ new.sale = x /\ new.nth = nth /\ new.units = 1 /\ new.at = at
    BY <1>5 DEF EntryOf
  <1>7. entries' = entries \cup {a, b} /\ repaid' = repaid \cup {new}
    <2>1. {EntryOf(x, nth, type, 1, at) : type \in Reversal} = {a, b}
      BY <1>5 DEF Reversal
    <2>2. /\ entries' = entries \cup {EntryOf(x, nth, type, 1, at) : type \in Reversal}
          /\ repaid' = repaid \cup {new}
      BY <1>2, <1>5 DEF RepayUnit, Post, EntryOf
    <2> QED
      BY <2>1, <2>2
  <1>8. a \notin entries /\ b \notin entries /\ new \notin repaid
    <2>1. \A row \in entries : row.type \in Reversal /\ row.sale = x => row.nth # nth
      BY <1>1, <1>3, <1>4 DEF RowsNumbered, EntriesSound
    <2>2. \A row \in repaid : row.sale = x => row.nth # nth
      BY <1>3, <1>4 DEF RowsNumbered, EntriesSound
    <2> QED
      BY <1>6, <2>1, <2>2 DEF Reversal
  <1>9. Posting(a, b, x, nth, "SELLER_EARNING_REVERSAL", "PLATFORM_COMMISSION_REVERSAL", 1, at)
    BY <1>5, <1>7, <1>8 DEF Posting
  <1>10. /\ "SELLER_EARNING_REVERSAL" \in EntryTypes /\ 1 \in Nat
         /\ "PLATFORM_COMMISSION_REVERSAL" \in EntryTypes \ {"SELLER_EARNING_REVERSAL"}
    BY DEF EntryTypes, Reversal
  <1>11. Placed' = Placed /\ Delivered' = Delivered /\ IsFiniteSet(Placed')
    BY <1>1 DEF Placed, Delivered
  <1>12. /\ IsFiniteSet(entries') /\ Cardinality(entries') = Cardinality(entries) + 2
         /\ EntriesOf(x)' = EntriesOf(x) \cup {a, b}
         /\ \A y : y # x => EntriesOf(y)' = EntriesOf(y)
    BY <1>9, <1>10, PostingSays
  <1>13. EntriesSound'
    <2>1. \A row \in entries' :
              /\ row.sale \in Placed' /\ row.at \in 0..clock'
              /\ row.nth \in Nat /\ row.units \in Nat /\ row.type \in EntryTypes
      BY <1>1, <1>4, <1>9, <1>10, <1>11, PostedSound
    <2>2. \A y \in Placed' :
            /\ saleRow'[y].store \in Stores /\ saleRow'[y].status \in OrderStates
            /\ saleRow'[y].at \in 0..clock'
            /\ DOMAIN saleRow'[y] = {"status", "store", "at"}
      BY <1>1, <1>11 DEF EntriesSound
    <2>3. \A row \in repaid' :
            row.sale \in Placed' /\ row.at \in 0..clock' /\ row.nth \in Nat /\ row.units = 1
      BY <1>1, <1>4, <1>6, <1>7, <1>11 DEF EntriesSound
    <2>4. clock' \in Nat /\ IsFiniteSet(repaid')
      BY <1>1, <1>7, FS_AddElement
    <2>5. saleRow' = [y \in Sales |-> saleRow'[y]]
      BY <1>1 DEF EntriesSound
    <2> QED
      BY <1>11, <1>12, <2>1, <2>2, <2>3, <2>4, <2>5 DEF EntriesSound
  <1>14. \A y : y # x => RepaymentsOf(y)' = RepaymentsOf(y)
    BY <1>6, <1>7 DEF RepaymentsOf
  <1>15. \A y : y # x => RepaidUnits(y)' = RepaidUnits(y)
    <2>1. \A y : /\ RepaidUnits(y) = SumFunction([row \in RepaymentsOf(y) |-> row.units])
                 /\ RepaidUnits(y)' = SumFunction([row \in RepaymentsOf(y)' |-> row.units])
      BY DEF RepaidUnits, TotalOf
    <2>2. ASSUME NEW y, y # x PROVE RepaidUnits(y)' = RepaidUnits(y)
      <3>1. PICK R : R = RepaymentsOf(y)
        OBVIOUS
      <3>2. RepaymentsOf(y)' = R
        BY <1>14, <2>2, <3>1
      <3> QED
        BY <2>1, <3>1, <3>2
    <2> QED
      BY <2>2
  <1>16. /\ Cardinality(RepaymentsOf(x)') = nth /\ RepaidUnits(x)' = nth
    <2>1. PICK R, T : R = RepaymentsOf(x) /\ T = RepaymentsOf(x)'
      OBVIOUS
    <2>2. T = R \cup {new} /\ new \notin R
      BY <1>6, <1>7, <1>8, <2>1 DEF RepaymentsOf
    <2>3. IsFiniteSet(T) /\ Cardinality(T) = Cardinality(R) + 1
      BY <1>3, <2>1, <2>2, FS_AddElement
    <2>4. \A row \in T : row.units = 1
      BY <1>6, <2>1, <2>2 DEF RepaymentsOf, EntriesSound
    <2>5. SumFunction([row \in T |-> row.units]) = Cardinality(T)
      BY <2>3, <2>4, UnitsCount
    <2>6. RepaidUnits(x)' = SumFunction([row \in T |-> row.units])
      BY <2>1 DEF RepaidUnits, TotalOf
    <2> QED
      BY <1>2, <1>3, <2>1, <2>3, <2>5, <2>6
  <1>17. RowsNumbered'
    <2>1. \A y : Cancelled(y)' = Cancelled(y)
      BY <1>1 DEF Cancelled
    <2>2. \A row \in entries' :
            row.type \in Reversal =>
              row.nth <= Cardinality(RepaymentsOf(row.sale)') \/ Cancelled(row.sale)'
      <3>1. ASSUME NEW row \in entries', row.type \in Reversal
            PROVE  row.nth <= Cardinality(RepaymentsOf(row.sale)') \/ Cancelled(row.sale)'
        <4>1. CASE row \in {a, b}
          BY <1>4, <1>6, <1>16, <4>1
        <4>2. CASE row \in entries /\ row.sale = x
          <5>1. row.nth <= Cardinality(RepaymentsOf(x)) \/ Cancelled(x)
            BY <3>1, <4>2 DEF RowsNumbered
          <5>2. row.nth \in Nat
            BY <4>2 DEF EntriesSound
          <5> QED
            BY <1>1, <1>3, <1>4, <1>16, <4>2, <5>1, <5>2
        <4>3. CASE row \in entries /\ row.sale # x
          <5>1. row.nth <= Cardinality(RepaymentsOf(row.sale)) \/ Cancelled(row.sale)
            BY <3>1, <4>3 DEF RowsNumbered
          <5> QED
            BY <1>14, <2>1, <4>3, <5>1
        <4> QED
          BY <1>7, <4>1, <4>2, <4>3
      <3> QED
        BY <3>1
    <2>3. \A row \in repaid' : row.nth <= Cardinality(RepaymentsOf(row.sale)')
      <3>1. ASSUME NEW row \in repaid'
            PROVE  row.nth <= Cardinality(RepaymentsOf(row.sale)')
        <4>1. CASE row = new
          BY <1>4, <1>6, <1>16, <4>1
        <4>2. CASE row \in repaid /\ row.sale = x
          <5>1. row.nth <= Cardinality(RepaymentsOf(x)) /\ row.nth \in Nat
            BY <4>2 DEF RowsNumbered, EntriesSound
          <5> QED
            BY <1>3, <1>4, <1>16, <4>2, <5>1
        <4>3. CASE row \in repaid /\ row.sale # x
          <5>1. row.nth <= Cardinality(RepaymentsOf(row.sale))
            BY <4>3 DEF RowsNumbered
          <5> QED
            BY <1>14, <4>3, <5>1
        <4> QED
          BY <1>7, <4>1, <4>2, <4>3
      <3> QED
        BY <3>1
    <2>4. \A y \in Placed' : RepaidUnits(y)' <= UnitsSold
      BY <1>1, <1>3, <1>4, <1>11, <1>15, <1>16 DEF RowsNumbered
    <2> QED
      BY <2>2, <2>3, <2>4 DEF RowsNumbered
  <1>18. SaleExplained(x)'
    <2>1. PICK left \in Int : left = UnitsSold - RepaidUnits(x)
      BY <1>1, <1>3
    <2>2. UnitsLeft(x) = left
      BY <1>1, <1>3, <2>1 DEF UnitsLeft
    <2>3. SaleExplained(x)
      BY <1>1 DEF OrdersExplained
    <2>4. Figures(EntriesOf(x)).gross = 10 * left /\ Figures(EntriesOf(x)).commission = left
      BY <2>2, <2>3 DEF SaleExplained
    <2>5. ~Cancelled(x)'
      BY <1>1 DEF Cancelled
    <2>6. UnitsLeft(x)' = left + -1
      BY <1>1, <1>3, <1>4, <1>16, <2>1, <2>5 DEF UnitsLeft
    <2>7. GrossOf(a) + GrossOf(b) = -(10 * 1) /\ CommissionOf(a) + CommissionOf(b) = -1
      BY <1>6, <1>10, ReversalFigures
    <2>8. \E row \in EntriesOf(x)' : row.at = saleRow'[x].at
      BY <1>1, <1>12, <2>3 DEF SaleExplained
    <2>9. PICK change \in Int : change = -1
      OBVIOUS
    <2>10. /\ GrossOf(a) + GrossOf(b) = 10 * change /\ CommissionOf(a) + CommissionOf(b) = change
           /\ UnitsLeft(x)' = left + change
      BY <2>6, <2>7, <2>9
    <2> QED
      BY <1>9, <1>10, <2>4, <2>8, <2>10, PostingExplained
  <1>19. OrdersExplained'
    <2>1. ASSUME NEW y \in Placed, y # x PROVE SaleExplained(y)'
      <3>1. UnitsLeft(y)' = UnitsLeft(y)
        BY <1>1, <1>15, <2>1 DEF UnitsLeft, Cancelled
      <3>2. EntriesOf(y)' = EntriesOf(y) /\ saleRow'[y].at = saleRow[y].at /\ SaleExplained(y)
        BY <1>1, <1>12, <2>1 DEF OrdersExplained
      <3> QED
        BY <3>1, <3>2, StaysExplained
    <2> QED
      BY <1>11, <1>18, <2>1 DEF OrdersExplained
  <1>20. Version' \in Nat /\ Version < Version'
    BY <1>11, <1>12, MoreCommitted
  <1> QED
    BY <1>13, <1>17, <1>19, <1>20 DEF Committed

\* An order is cancelled: its reversal has a number that no repayment has.
LEMMA CancelCommitted ==
    ASSUME EntriesSound, RowsNumbered, OrdersExplained, clock' = clock,
           NEW x \in Sales, NEW at \in BeganAt, CancelSale(x, at)
    PROVE  Committed
  <1> USE AnalyticsShape
  <1>1. /\ clock \in Nat /\ at \in 0..clock /\ UnitsSold \in Nat /\ x \in Placed
        /\ IsFiniteSet(Placed) /\ IsFiniteSet(entries) /\ IsFiniteSet(repaid)
        /\ ~Cancelled(x) /\ repaid' = repaid /\ saleRow[x].status = "PLACED"
    BY BeganBefore DEF EntriesSound, CancelSale, Cancelled
  <1>2. PICK nth \in Nat : nth = 1 + UnitsSold
    BY <1>1
  <1>3. /\ RepaidUnits(x) = Cardinality(RepaymentsOf(x)) /\ RepaidUnits(x) \in Nat
        /\ RepaidUnits(x) <= UnitsSold
    BY <1>1, RepaidCount DEF RowsNumbered
  <1>4. PICK a, b : /\ a = EntryOf(x, nth, "SELLER_EARNING_REVERSAL", UnitsSold, at)
                    /\ b = EntryOf(x, nth, "PLATFORM_COMMISSION_REVERSAL", UnitsSold, at)
    OBVIOUS
  <1>5. /\ a.sale = x /\ a.nth = nth /\ a.type = "SELLER_EARNING_REVERSAL" /\ a.units = UnitsSold
        /\ b.sale = x /\ b.nth = nth /\ b.type = "PLATFORM_COMMISSION_REVERSAL"
        /\ b.units = UnitsSold
    BY <1>4 DEF EntryOf
  <1>6. entries' = entries \cup {a, b}
    <2>1. {EntryOf(x, nth, type, UnitsSold, at) : type \in Reversal} = {a, b}
      BY <1>4 DEF Reversal
    <2>2. entries' = entries \cup {EntryOf(x, nth, type, UnitsSold, at) : type \in Reversal}
      BY <1>2 DEF CancelSale, Post, EntryOf
    <2> QED
      BY <2>1, <2>2
  <1>7. a \notin entries /\ b \notin entries
    <2>1. \A row \in entries : row.type \in Reversal /\ row.sale = x => row.nth # nth
      BY <1>1, <1>2, <1>3 DEF RowsNumbered, EntriesSound
    <2> QED
      BY <1>5, <2>1 DEF Reversal
  <1>8. Posting(a, b, x, nth, "SELLER_EARNING_REVERSAL", "PLATFORM_COMMISSION_REVERSAL",
                UnitsSold, at)
    BY <1>4, <1>6, <1>7 DEF Posting
  <1>9. /\ "SELLER_EARNING_REVERSAL" \in EntryTypes
        /\ "PLATFORM_COMMISSION_REVERSAL" \in EntryTypes \ {"SELLER_EARNING_REVERSAL"}
    BY DEF EntryTypes, Reversal
  <1>10. /\ saleRow' = [y \in Sales |-> saleRow'[y]]
         /\ \A y \in Sales : y # x => saleRow'[y] = saleRow[y]
         /\ saleRow'[x] = [saleRow[x] EXCEPT !.status = "CANCELLED"]
    BY DEF CancelSale, EntriesSound
  <1>11. /\ saleRow[x].store \in Stores /\ saleRow[x].at \in 0..clock
         /\ DOMAIN saleRow[x] = {"status", "store", "at"}
    BY <1>1 DEF EntriesSound
  <1>12. /\ saleRow'[x].status = "CANCELLED" /\ saleRow'[x].store \in Stores
         /\ saleRow'[x].at = saleRow[x].at
         /\ DOMAIN saleRow'[x] = {"status", "store", "at"}
         /\ saleRow'[x] # NoSale
    BY <1>10, <1>11 DEF NoSale
  <1>13. Placed' = Placed /\ IsFiniteSet(Placed')
    BY <1>1, <1>10, <1>12 DEF Placed
  <1>14. Delivered' = Delivered
    BY <1>1, <1>10, <1>12, <1>13 DEF Delivered, Placed
  <1>15. /\ IsFiniteSet(entries') /\ Cardinality(entries') = Cardinality(entries) + 2
         /\ EntriesOf(x)' = EntriesOf(x) \cup {a, b}
         /\ \A y : y # x => EntriesOf(y)' = EntriesOf(y)
    <2>1. UnitsSold \in Nat
      BY <1>1
    <2> QED
      BY <1>8, <1>9, <2>1, PostingSays, Zenon
  <1>16. EntriesSound'
    <2>1. \A row \in entries' :
              /\ row.sale \in Placed' /\ row.at \in 0..clock'
              /\ row.nth \in Nat /\ row.units \in Nat /\ row.type \in EntryTypes
      BY <1>1, <1>8, <1>9, <1>13, PostedSound
    <2>2. \A y \in Placed' :
            /\ saleRow'[y].store \in Stores /\ saleRow'[y].status \in OrderStates
            /\ saleRow'[y].at \in 0..clock'
            /\ DOMAIN saleRow'[y] = {"status", "store", "at"}
      BY <1>10, <1>11, <1>12, <1>13 DEF EntriesSound, OrderStates, Placed
    <2>3. \A row \in repaid' :
            row.sale \in Placed' /\ row.at \in 0..clock' /\ row.nth \in Nat /\ row.units = 1
      BY <1>1, <1>13 DEF EntriesSound
    <2>4. clock' \in Nat /\ IsFiniteSet(repaid')
      BY <1>1
    <2> QED
      BY <1>10, <1>13, <1>15, <2>1, <2>2, <2>3, <2>4 DEF EntriesSound
  <1>17. \A y : RepaymentsOf(y)' = RepaymentsOf(y) /\ RepaidUnits(y)' = RepaidUnits(y)
    BY <1>1, RepaymentsStay
  <1>18. \A y \in Placed : y # x => saleRow'[y] = saleRow[y] /\ Cancelled(y)' = Cancelled(y)
    BY <1>10 DEF Placed, Cancelled
  <1>19. Cancelled(x)'
    BY <1>12 DEF Cancelled
  <1>20. RowsNumbered'
    <2>1. ASSUME NEW row \in entries', row.type \in Reversal
          PROVE  row.nth <= Cardinality(RepaymentsOf(row.sale)') \/ Cancelled(row.sale)'
      <3>1. CASE row.sale = x
        BY <1>19, <3>1
      <3>2. CASE row.sale # x
        <4>1. row \in entries
          BY <1>5, <1>6, <3>2
        <4>2. row.sale \in Placed
          BY <4>1 DEF EntriesSound
        <4>3. row.nth <= Cardinality(RepaymentsOf(row.sale)) \/ Cancelled(row.sale)
          BY <2>1, <4>1 DEF RowsNumbered
        <4> QED
          BY <1>17, <1>18, <3>2, <4>2, <4>3
      <3> QED
        BY <3>1, <3>2
    <2>2. \A row \in repaid' : row.nth <= Cardinality(RepaymentsOf(row.sale)')
      BY <1>1, <1>17 DEF RowsNumbered
    <2>3. \A y \in Placed' : RepaidUnits(y)' <= UnitsSold
      BY <1>13, <1>17 DEF RowsNumbered
    <2> QED
      BY <2>1, <2>2, <2>3 DEF RowsNumbered
  <1>21. SaleExplained(x)'
    <2>1. PICK left \in Int : left = UnitsSold - RepaidUnits(x)
      BY <1>1, <1>3
    <2>2. UnitsLeft(x) = left
      BY <1>1, <1>3, <2>1 DEF UnitsLeft
    <2>3. SaleExplained(x)
      BY <1>1 DEF OrdersExplained
    <2>4. Figures(EntriesOf(x)).gross = 10 * left /\ Figures(EntriesOf(x)).commission = left
      BY <2>2, <2>3 DEF SaleExplained
    <2>5. PICK change \in Int : change = -UnitsSold
      BY <1>1
    <2>6. UnitsLeft(x)' = left + change
      BY <1>1, <1>3, <1>17, <1>19, <2>1, <2>5 DEF UnitsLeft
    <2>7. /\ GrossOf(a) + GrossOf(b) = -(10 * UnitsSold)
          /\ CommissionOf(a) + CommissionOf(b) = -UnitsSold
      BY <1>1, <1>5, ReversalFigures
    <2>8. \E row \in EntriesOf(x)' : row.at = saleRow'[x].at
      BY <1>12, <1>15, <2>3 DEF SaleExplained
    <2>9. GrossOf(a) + GrossOf(b) = 10 * change /\ CommissionOf(a) + CommissionOf(b) = change
      BY <1>1, <2>5, <2>7
    <2> QED
      BY <1>1, <1>8, <1>9, <2>4, <2>6, <2>8, <2>9, PostingExplained
  <1>22. OrdersExplained'
    <2>1. ASSUME NEW y \in Placed, y # x PROVE SaleExplained(y)'
      <3>1. UnitsLeft(y)' = UnitsLeft(y)
        BY <1>17, <1>18, <2>1 DEF UnitsLeft
      <3>2. EntriesOf(y)' = EntriesOf(y) /\ saleRow'[y].at = saleRow[y].at /\ SaleExplained(y)
        BY <1>15, <1>18, <2>1 DEF OrdersExplained
      <3> QED
        BY <3>1, <3>2, StaysExplained
    <2> QED
      BY <1>13, <1>21, <2>1 DEF OrdersExplained
  <1>23. Version' \in Nat /\ Version < Version'
    BY <1>13, <1>14, <1>15, MoreCommitted
  <1> QED
    BY <1>16, <1>20, <1>22, <1>23 DEF Committed

\* A delivery posts nothing.
LEMMA DeliverCommitted ==
    ASSUME EntriesSound, RowsNumbered, OrdersExplained, clock' = clock,
           NEW x \in Sales, DeliverSale(x)
    PROVE  Committed
  <1>1. /\ clock \in Nat /\ x \in Placed /\ entries' = entries /\ repaid' = repaid
        /\ IsFiniteSet(Placed) /\ IsFiniteSet(entries) /\ IsFiniteSet(repaid)
        /\ saleRow[x].status = "PLACED"
    BY DEF EntriesSound, DeliverSale
  <1>2. /\ saleRow' = [y \in Sales |-> saleRow'[y]]
        /\ \A y \in Sales : y # x => saleRow'[y] = saleRow[y]
        /\ saleRow'[x] = [saleRow[x] EXCEPT !.status = "DELIVERED"]
    BY DEF DeliverSale, EntriesSound
  <1>3. /\ saleRow[x].store \in Stores /\ saleRow[x].at \in 0..clock
        /\ DOMAIN saleRow[x] = {"status", "store", "at"}
    BY <1>1 DEF EntriesSound
  <1>4. /\ saleRow'[x].status = "DELIVERED" /\ saleRow'[x].store \in Stores
        /\ saleRow'[x].at = saleRow[x].at
        /\ DOMAIN saleRow'[x] = {"status", "store", "at"}
        /\ saleRow'[x] # NoSale
    BY <1>2, <1>3 DEF NoSale
  <1>5. Placed' = Placed /\ IsFiniteSet(Placed')
    BY <1>1, <1>2, <1>4 DEF Placed
  <1>6. x \notin Delivered /\ Delivered' = Delivered \cup {x}
    BY <1>1, <1>2, <1>4, <1>5 DEF Delivered, Placed
  <1>7. /\ \A y : RepaymentsOf(y)' = RepaymentsOf(y) /\ RepaidUnits(y)' = RepaidUnits(y)
        /\ \A y : EntriesOf(y)' = EntriesOf(y)
    BY <1>1, RepaymentsStay DEF EntriesOf
  <1>8. \A y \in Placed : saleRow'[y].at = saleRow[y].at /\ Cancelled(y)' = Cancelled(y)
    BY <1>1, <1>2, <1>4 DEF Placed, Cancelled
  <1>9. EntriesSound'
    <2>1. \A row \in entries' :
              /\ row.sale \in Placed' /\ row.at \in 0..clock'
              /\ row.nth \in Nat /\ row.units \in Nat /\ row.type \in EntryTypes
      BY <1>1, <1>5 DEF EntriesSound
    <2>2. \A y \in Placed' :
            /\ saleRow'[y].store \in Stores /\ saleRow'[y].status \in OrderStates
            /\ saleRow'[y].at \in 0..clock'
            /\ DOMAIN saleRow'[y] = {"status", "store", "at"}
      BY <1>2, <1>3, <1>4, <1>5 DEF EntriesSound, OrderStates, Placed
    <2>3. \A row \in repaid' :
            row.sale \in Placed' /\ row.at \in 0..clock' /\ row.nth \in Nat /\ row.units = 1
      BY <1>1, <1>5 DEF EntriesSound
    <2> QED
      BY <1>1, <1>2, <1>5, <2>1, <2>2, <2>3 DEF EntriesSound
  <1>10. RowsNumbered'
    <2>1. \A row \in entries :
            row.type \in Reversal =>
              row.nth <= Cardinality(RepaymentsOf(row.sale)') \/ Cancelled(row.sale)'
      BY <1>7, <1>8 DEF RowsNumbered, EntriesSound
    <2>2. \A row \in repaid : row.nth <= Cardinality(RepaymentsOf(row.sale)')
      BY <1>7 DEF RowsNumbered
    <2>3. \A y \in Placed : RepaidUnits(y)' <= UnitsSold
      BY <1>7 DEF RowsNumbered
    <2> QED
      BY <1>1, <1>5, <2>1, <2>2, <2>3 DEF RowsNumbered
  <1>11. OrdersExplained'
    <2>1. ASSUME NEW y \in Placed PROVE SaleExplained(y)'
      <3>1. UnitsLeft(y)' = UnitsLeft(y)
        BY <1>7, <1>8 DEF UnitsLeft
      <3>2. EntriesOf(y)' = EntriesOf(y) /\ saleRow'[y].at = saleRow[y].at /\ SaleExplained(y)
        BY <1>7, <1>8 DEF OrdersExplained
      <3> QED
        BY <3>1, <3>2, StaysExplained
    <2> QED
      BY <1>5, <2>1 DEF OrdersExplained
  <1>12. Version' \in Nat /\ Version < Version'
    BY <1>1, <1>5, <1>6, MoreCommitted
  <1> QED
    BY <1>9, <1>10, <1>11, <1>12 DEF Committed

---------------------------------------------------------------------------
(* The reports.                                                            *)

\* Everything but what is committed stays, and something is.
LEMMA CommittedMeanwhile ==
    ASSUME ReportSound, CacheSound, report' = report, reportCache' = reportCache,
           Version' \in Nat, Version < Version', Version \in Nat
    PROVE  ReportSound' /\ CacheSound'
  <1>1. ReportSound'
    <2>1. SUFFICES ASSUME report # NoReport
                   PROVE  /\ DOMAIN report = {"stores", "period", "began", "parts"}
                          /\ report.stores \in Viewable /\ PeriodSound(report.period)
                          /\ report.began \in Nat /\ report.began <= Version'
                          /\ report.began # Version'
      BY DEF ReportSound
    <2> QED
      BY <2>1 DEF ReportSound
  <1>2. CacheSound'
    <2>1. SUFFICES ASSUME NEW r \in reportCache
                   PROVE  /\ r.stores \in Viewable /\ PeriodSound(r.period)
                          /\ r.ended \in Nat /\ r.ended <= Version' /\ r.ended # Version'
                          /\ r.began = r.ended => PartsAgree(r)
      BY DEF CacheSound
    <2> QED
      BY DEF CacheSound
  <1> QED
    BY <1>1, <1>2

\* Each transaction keeps the invariant.
LEMMA TransactStep ==
    ASSUME ReportsInv, Transact
    PROVE  ReportsInv'
  <1>1. /\ EntriesSound /\ RowsNumbered /\ OrdersExplained /\ ReportSound /\ CacheSound
        /\ clock' = clock /\ report' = report /\ reportCache' = reportCache
    BY DEF ReportsInv, Transact
  <1>2. PICK x \in Sales :
            \/ DeliverSale(x)
            \/ \E at \in BeganAt :
                \/ RepayUnit(x, at) \/ CancelSale(x, at)
                \/ \E store \in Stores : PlaceSale(x, store, at)
    BY DEF Transact
  <1>3. Committed
    <2>1. CASE DeliverSale(x)
      BY <1>1, <2>1, DeliverCommitted
    <2>2. ASSUME NEW at \in BeganAt, RepayUnit(x, at) PROVE Committed
      BY <1>1, <2>2, RepayCommitted
    <2>3. ASSUME NEW at \in BeganAt, CancelSale(x, at) PROVE Committed
      BY <1>1, <2>3, CancelCommitted
    <2>4. ASSUME NEW at \in BeganAt, NEW store \in Stores, PlaceSale(x, store, at) PROVE Committed
      BY <1>1, <2>4, PlaceCommitted
    <2> QED
      BY <1>2, <2>1, <2>2, <2>3, <2>4
  <1>4. Version \in Nat
    <2>1. IsFiniteSet(entries) /\ IsFiniteSet(Delivered)
      BY <1>1, FS_Subset DEF EntriesSound, Delivered
    <2> QED
      BY <2>1, FS_CardinalityType DEF Version
  <1>5. ReportSound' /\ CacheSound'
    BY <1>1, <1>3, <1>4, CommittedMeanwhile DEF Committed
  <1> QED
    BY <1>3, <1>5 DEF ReportsInv, Committed

\* What a query says is about the rows alone.
LEMMA QueriesStay ==
    ASSUME saleRow' = saleRow, entries' = entries, repaid' = repaid
    PROVE  /\ Version' = Version
           /\ \A part, period, stores :
                Query(part, period, stores)' = Query(part, period, stores)
  <1>1. Placed' = Placed /\ Delivered' = Delivered /\ Version' = Version
    BY DEF Placed, Delivered, Version
  <1>2. \A x : RepaidUnits(x)' = RepaidUnits(x)
    BY RepaymentsStay
  <1>3. \A period, stores : /\ LedgerOf(period, stores)' = LedgerOf(period, stores)
                            /\ RepaidOf(period, stores)' = RepaidOf(period, stores)
    BY DEF LedgerOf, RepaidOf
  <1>4. \A period, stores : MoneyOf(period, stores)' = MoneyOf(period, stores)
    BY <1>3 DEF MoneyOf
  <1>5. \A period, stores : Daily(period, stores)' = Daily(period, stores)
    BY <1>3 DEF Daily
  <1>6. \A period : SellerBreakdown(period)' = SellerBreakdown(period)
    BY <1>3 DEF SellerBreakdown
  <1>7. \A period, stores : TopProducts(period, stores)' = TopProducts(period, stores)
    BY <1>1, <1>2 DEF TopProducts
  <1>8. \A period, stores, statuses :
            CountOrders(period, stores, statuses)' = CountOrders(period, stores, statuses)
    BY <1>1 DEF CountOrders
  <1> QED
    BY <1>1, <1>4, <1>5, <1>6, <1>7, <1>8 DEF Query

\* Nor is what is kept of the orders about anything else, the clock aside.
LEMMA SalesStay ==
    ASSUME EntriesSound, RowsNumbered, OrdersExplained,
           saleRow' = saleRow, entries' = entries, repaid' = repaid,
           clock' \in Nat, clock <= clock'
    PROVE  EntriesSound' /\ RowsNumbered' /\ OrdersExplained'
  <1>1. Placed' = Placed
    BY DEF Placed
  <1>2. \A y : /\ RepaymentsOf(y)' = RepaymentsOf(y) /\ RepaidUnits(y)' = RepaidUnits(y)
               /\ EntriesOf(y)' = EntriesOf(y) /\ Cancelled(y)' = Cancelled(y)
    BY RepaymentsStay DEF EntriesOf, Cancelled
  <1>3. EntriesSound'
    <2>1. clock \in Nat /\ \A n \in 0..clock : n \in 0..clock'
      BY DEF EntriesSound
    <2> QED
      BY <1>1, <2>1 DEF EntriesSound
  <1>4. RowsNumbered'
    BY <1>1, <1>2 DEF RowsNumbered
  <1>5. ASSUME NEW y \in Placed PROVE SaleExplained(y)'
    <2>1. UnitsLeft(y)' = UnitsLeft(y)
      BY <1>2 DEF UnitsLeft
    <2>2. EntriesOf(y)' = EntriesOf(y) /\ saleRow'[y].at = saleRow[y].at /\ SaleExplained(y)
      BY <1>2 DEF OrdersExplained
    <2> QED
      BY <2>1, <2>2, StaysExplained
  <1> QED
    BY <1>1, <1>3, <1>4, <1>5 DEF OrdersExplained

\* The report that is being computed says as much after such a step.
LEMMA ReportStays ==
    ASSUME ReportSound, report' = report, saleRow' = saleRow, entries' = entries, repaid' = repaid
    PROVE  ReportSound'
  <1>1. /\ Version' = Version
        /\ \A part, period, stores : Query(part, period, stores)' = Query(part, period, stores)
    BY QueriesStay
  <1>2. SUFFICES ASSUME report # NoReport
                 PROVE  /\ DOMAIN report = {"stores", "period", "began", "parts"}
                        /\ report.stores \in Viewable /\ PeriodSound(report.period)
                        /\ report.began \in Nat /\ report.began <= Version
                        /\ report.began = Version =>
                            \A part \in DOMAIN report.parts :
                              report.parts[part] = Query(part, report.period, report.stores)'
    BY <1>1 DEF ReportSound
  <1> QED
    BY <1>1, <1>2 DEF ReportSound

\* A kept report says as much after a step that leaves the rows.
KeptSound(r) ==
    /\ r.stores \in Viewable /\ PeriodSound(r.period)
    /\ r.ended \in Nat /\ r.ended <= Version
    /\ r.began = r.ended => PartsAgree(r) /\ (r.ended = Version => Reads(r))

\* KeptSound reads the rows alone.
LEMMA KeptStays ==
    ASSUME NEW r, KeptSound(r), saleRow' = saleRow, entries' = entries, repaid' = repaid
    PROVE  KeptSound(r)'
  <1>1. /\ Version' = Version
        /\ \A part, period, stores : Query(part, period, stores)' = Query(part, period, stores)
    BY QueriesStay
  <1>2. Reads(r)' <=> Reads(r)
    BY <1>1 DEF Reads
  <1> QED
    BY <1>1, <1>2 DEF KeptSound

\* The cache says as much, whatever is dropped from it.
LEMMA CacheStays ==
    ASSUME CacheSound, reportCache' \subseteq reportCache,
           saleRow' = saleRow, entries' = entries, repaid' = repaid
    PROVE  CacheSound'
  <1>1. ASSUME NEW r \in reportCache PROVE KeptSound(r)'
    <2>1. KeptSound(r)
      BY DEF CacheSound, KeptSound
    <2> QED
      BY <2>1, KeptStays
  <1>2. ASSUME NEW r \in reportCache' PROVE KeptSound(r)'
    BY <1>1
  <1> QED
    BY <1>2 DEF CacheSound, KeptSound

\* A report begins with no part read, over a period that is one.
LEMMA BeginStep ==
    ASSUME EntriesSound, NEW stores \in Viewable, NEW from \in Dates, NEW to \in Dates,
           BeginReport(stores, PeriodOf(from, to))
    PROVE  ReportSound'
  <1> USE AnalyticsShape
  <1>1. PICK period : period = PeriodOf(from, to)
    OBVIOUS
  <1>2. /\ report' = [stores |-> stores, period |-> period, began |-> Version,
                      parts |-> [part \in {} |-> 0]]
        /\ period.from < period.to
        /\ saleRow' = saleRow /\ entries' = entries /\ repaid' = repaid
    BY <1>1 DEF BeginReport
  <1>3. PeriodSound(period)
    <2>1. /\ \A date \in Dates : date = Undated \/ date \in Int
          /\ clock \in Int
      BY DEF Dates, EntriesSound
    <2>2. period.from \in Int /\ period.to \in Int
      BY <1>1, <2>1 DEF PeriodOf
    <2> QED
      BY <1>2, <2>2 DEF PeriodSound
  <1>4. Version \in Nat /\ Version' = Version
    <2>1. IsFiniteSet(entries) /\ IsFiniteSet(Delivered)
      BY FS_Subset DEF EntriesSound, Delivered
    <2>2. Version \in Nat
      BY <2>1, FS_CardinalityType DEF Version
    <2> QED
      BY <1>2, <2>2, QueriesStay
  <1>5. /\ report'.stores = stores /\ report'.period = period /\ report'.began = Version
        /\ DOMAIN report'.parts = {} /\ DOMAIN report' = {"stores", "period", "began", "parts"}
    BY <1>2
  <1> QED
    BY <1>3, <1>4, <1>5 DEF ReportSound

\* A query that runs reads the rows as they are.
LEMMA RunStep ==
    ASSUME ReportSound, NEW part, RunQuery(part)
    PROVE  ReportSound'
  <1>1. /\ report # NoReport /\ saleRow' = saleRow /\ entries' = entries /\ repaid' = repaid
        /\ report' = [report EXCEPT !.parts = [p \in DOMAIN report.parts \cup {part} |->
              IF p = part THEN Query(part, report.period, report.stores) ELSE report.parts[p]]]
    BY DEF RunQuery
  <1>2. /\ DOMAIN report = {"stores", "period", "began", "parts"}
        /\ report.stores \in Viewable /\ PeriodSound(report.period)
        /\ report.began \in Nat /\ report.began <= Version
    BY <1>1 DEF ReportSound
  <1>3. report.began = Version =>
          \A p \in DOMAIN report.parts :
            report.parts[p] = Query(p, report.period, report.stores)
    BY <1>1 DEF ReportSound
  <1>4. PICK period, stores, parts, began :
            /\ period = report.period /\ stores = report.stores /\ parts = report.parts
            /\ began = report.began
    OBVIOUS
  <1>5. PICK more : more = [p \in DOMAIN parts \cup {part} |->
                              IF p = part THEN Query(part, period, stores) ELSE parts[p]]
    OBVIOUS
  <1>6. report' = [report EXCEPT !.parts = more]
    BY <1>1, <1>4, <1>5
  <1>7. /\ DOMAIN report' = {"stores", "period", "began", "parts"}
        /\ report'.period = period /\ report'.stores = stores /\ report'.began = began
        /\ report'.parts = more
    BY <1>2, <1>4, <1>6
  <1>8. began = Version => \A p \in DOMAIN more : more[p] = Query(p, period, stores)
    BY <1>3, <1>4, <1>5
  <1>9. /\ Version' = Version
        /\ \A p : Query(p, period, stores)' = Query(p, period, stores)
    BY <1>1, QueriesStay
  <1>10. report'.began = Version' =>
           \A p \in DOMAIN report'.parts : report'.parts[p] = Query(p, period, stores)'
    BY <1>7, <1>8, <1>9
  <1>11. report'.began = Version' =>
           \A p \in DOMAIN report'.parts :
              report'.parts[p] = Query(p, report.period, report.stores)'
    BY <1>7, <1>10
  <1> QED
    BY <1>2, <1>4, <1>7, <1>9, <1>11 DEF ReportSound

\* A report of which nothing was committed since it was begun reads what it is
\* kept as.
LEMMA KeepStep ==
    ASSUME EntriesSound, ReportSound, CacheSound, KeepReport
    PROVE  ReportSound' /\ CacheSound'
  <1>1. /\ report # NoReport /\ report' = NoReport
        /\ saleRow' = saleRow /\ entries' = entries /\ repaid' = repaid
    BY DEF KeepReport
  <1>2. /\ report.stores \in Viewable /\ PeriodSound(report.period)
        /\ report.began \in Nat /\ report.began <= Version
        /\ report.began = Version =>
              \A p \in DOMAIN report.parts :
                report.parts[p] = Query(p, report.period, report.stores)
    BY <1>1 DEF ReportSound
  <1>3. PICK period, stores, parts, began :
            /\ period = report.period /\ stores = report.stores /\ parts = report.parts
            /\ began = report.began
    OBVIOUS
  <1>4. PICK all : all = [p \in Parts(stores) |->
                            IF p \in DOMAIN parts THEN parts[p] ELSE Query(p, period, stores)]
    OBVIOUS
  <1>5. PICK kept : kept = [stores |-> stores, period |-> period, began |-> began,
                            ended |-> Version, parts |-> all]
    OBVIOUS
  <1>6. reportCache' \subseteq reportCache \cup {kept}
    BY <1>3, <1>4, <1>5 DEF KeepReport
  <1>7. Version \in Nat
    <2>1. IsFiniteSet(entries) /\ IsFiniteSet(Delivered)
      BY FS_Subset DEF EntriesSound, Delivered
    <2> QED
      BY <2>1, FS_CardinalityType DEF Version
  <1>8. KeptSound(kept)
    <2>1. /\ kept.stores = stores /\ kept.period = period /\ kept.began = began
          /\ kept.ended = Version /\ kept.parts = all
      BY <1>5
    <2>2. stores \in Viewable /\ PeriodSound(period) /\ began \in Nat
      BY <1>2, <1>3
    <2>3. ASSUME began = Version PROVE Reads(kept) /\ PartsAgree(kept)
      <3>1. \A p \in Parts(stores) : all[p] = Query(p, period, stores)
        BY <1>2, <1>3, <1>4, <2>3
      <3>2. Reads(kept)
        BY <2>1, <3>1 DEF Reads
      <3> QED
        BY <3>2, ReadsAgree
    <2> QED
      BY <1>7, <2>1, <2>2, <2>3 DEF KeptSound
  <1>9. ASSUME NEW r \in reportCache' PROVE KeptSound(r)'
    <2>1. KeptSound(r)
      BY <1>6, <1>8 DEF CacheSound, KeptSound
    <2> QED
      BY <1>1, <2>1, KeptStays
  <1> QED
    BY <1>1, <1>9 DEF ReportSound, CacheSound, KeptSound

\* The invariant holds at first.
LEMMA ReportsInvHolds ==
    ASSUME AnalyticsInit
    PROVE  ReportsInv
  <1>1. /\ clock = 0 /\ saleRow = [x \in Sales |-> NoSale] /\ entries = {} /\ repaid = {}
        /\ report = NoReport /\ reportCache = {}
    BY DEF AnalyticsInit
  <1>2. Placed = {}
    BY <1>1 DEF Placed
  <1>3. EntriesSound
    BY <1>1, <1>2, FS_EmptySet DEF EntriesSound
  <1>4. RowsNumbered /\ OrdersExplained /\ ReportSound /\ CacheSound
    BY <1>1, <1>2 DEF RowsNumbered, OrdersExplained, ReportSound, CacheSound
  <1> QED
    BY <1>3, <1>4 DEF ReportsInv

\* Every step keeps it.
LEMMA ReportsInvKept ==
    ASSUME ReportsInv, [AnalyticsNext]_analyticsVars
    PROVE  ReportsInv'
  <1>1. EntriesSound /\ RowsNumbered /\ OrdersExplained /\ ReportSound /\ CacheSound
    BY DEF ReportsInv
  <1>2. clock \in Nat /\ clock <= clock
    BY <1>1 DEF EntriesSound
  <1> DEFINE RowsLeft == saleRow' = saleRow /\ entries' = entries /\ repaid' = repaid
  <1>3. RowsLeft /\ clock' = clock => EntriesSound' /\ RowsNumbered' /\ OrdersExplained'
    BY <1>1, <1>2, SalesStay
  <1>4. CASE Transact
    BY <1>4, TransactStep
  <1>5. CASE TickReports
    <2>1. RowsLeft /\ report' = report /\ reportCache' = reportCache /\ clock' = clock + 1
      BY <1>5 DEF TickReports
    <2>2. clock' \in Nat /\ clock <= clock'
      BY <1>2, <2>1
    <2>3. EntriesSound' /\ RowsNumbered' /\ OrdersExplained'
      BY <1>1, <2>1, <2>2, SalesStay
    <2>4. ReportSound'
      BY <1>1, <2>1, ReportStays
    <2>5. CacheSound'
      BY <1>1, <2>1, CacheStays
    <2> QED
      BY <2>3, <2>4, <2>5 DEF ReportsInv
  <1>6. ASSUME NEW stores \in Viewable, NEW from \in Dates, NEW to \in Dates,
               BeginReport(stores, PeriodOf(from, to))
        PROVE  ReportsInv'
    <2>1. RowsLeft /\ reportCache' = reportCache /\ clock' = clock
      BY <1>6 DEF BeginReport
    <2>2. ReportSound'
      BY <1>1, <1>6, BeginStep
    <2>3. CacheSound'
      BY <1>1, <2>1, CacheStays
    <2> QED
      BY <1>3, <2>1, <2>2, <2>3 DEF ReportsInv
  <1>7. ASSUME NEW part, RunQuery(part)
        PROVE  ReportsInv'
    <2>1. RowsLeft /\ reportCache' = reportCache /\ clock' = clock
      BY <1>7 DEF RunQuery
    <2>2. ReportSound'
      BY <1>1, <1>7, RunStep
    <2>3. CacheSound'
      BY <1>1, <2>1, CacheStays
    <2> QED
      BY <1>3, <2>1, <2>2, <2>3 DEF ReportsInv
  <1>8. CASE KeepReport
    <2>1. RowsLeft /\ clock' = clock
      BY <1>8 DEF KeepReport
    <2>2. ReportSound' /\ CacheSound'
      BY <1>1, <1>8, KeepStep
    <2> QED
      BY <1>3, <2>1, <2>2 DEF ReportsInv
  <1>9. CASE FailReport
    <2>1. RowsLeft /\ report' = NoReport /\ reportCache' = reportCache /\ clock' = clock
      BY <1>9 DEF FailReport
    <2>2. CacheSound'
      BY <1>1, <2>1, CacheStays
    <2> QED
      BY <1>3, <2>1, <2>2 DEF ReportsInv, ReportSound
  <1>10. CASE ExpireReport
    <2>1. RowsLeft /\ report' = report /\ reportCache' \subseteq reportCache /\ clock' = clock
      BY <1>10 DEF ExpireReport
    <2>2. ReportSound'
      BY <1>1, <2>1, ReportStays
    <2>3. CacheSound'
      BY <1>1, <2>1, CacheStays
    <2> QED
      BY <1>3, <2>1, <2>2, <2>3 DEF ReportsInv
  <1>11. CASE UNCHANGED analyticsVars
    <2>1. RowsLeft /\ report' = report /\ reportCache' = reportCache /\ clock' = clock
      BY <1>11 DEF analyticsVars
    <2>2. ReportSound'
      BY <1>1, <2>1, ReportStays
    <2>3. CacheSound'
      BY <1>1, <2>1, CacheStays
    <2> QED
      BY <1>3, <2>1, <2>2, <2>3 DEF ReportsInv
  <1> QED
    BY <1>4, <1>5, <1>6, <1>7, <1>8, <1>9, <1>10, <1>11 DEF AnalyticsNext

\* It is enough: what reads the rows agrees with them.
LEMMA ReportsInvSuffices ==
    ASSUME ReportsInv
    PROVE  ReportsAgree
  <1>1. SUFFICES ASSUME NEW r \in reportCache, r.began = r.ended
                 PROVE  PartsAgree(r) /\ (r.ended = Version => AgreesWithOrders(r))
    BY DEF ReportsAgree
  <1>2. PartsAgree(r) /\ PeriodSound(r.period) /\ (r.ended = Version => Reads(r))
    BY <1>1 DEF ReportsInv, CacheSound
  <1>3. ASSUME Reads(r) PROVE AgreesWithOrders(r)
    BY <1>2, <1>3, ReadsAgreeWithOrders DEF ReportsInv
  <1> QED
    BY <1>2, <1>3

\* A report is one story: if nothing was committed while its queries ran, its
\* days, its sellers and its totals add up to one another, and while nothing is
\* committed after it they add up to what the orders say of themselves.
THEOREM ReportsCorrect == AnalyticsSpec => []ReportsAgree
  <1>1. AnalyticsInit => ReportsInv
    BY ReportsInvHolds
  <1>2. ReportsInv /\ [AnalyticsNext]_analyticsVars => ReportsInv'
    BY ReportsInvKept
  <1>3. ReportsInv => ReportsAgree
    BY ReportsInvSuffices
  <1> QED
    BY <1>1, <1>2, <1>3, PTL DEF AnalyticsSpec
===========================================================================
