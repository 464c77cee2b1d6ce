--------------------------- MODULE AuctionsProofs ---------------------------
(***************************************************************************)
(* Theorems about Auctions, for any number of auctions, bidders and edits, *)
(* and for every clock.                                                    *)
(***************************************************************************)
EXTENDS Auctions, FiniteSetTheorems, TLAPS

-----------------------------------------------------------------------------
(* Types.                                                                  *)

\* The partial UPDATE of an edit makes a row of a row and an entity.
LEMMA MergedIsRow ==
    ASSUME NEW x \in Row, NEW y \in Row, NEW S \in SUBSET Columns
    PROVE  [f \in Columns |-> IF f \in S THEN x[f] ELSE y[f]] \in Row
<1>. DEFINE z == [f \in Columns |-> IF f \in S THEN x[f] ELSE y[f]]
<1>1. Columns = {"status", "startPrice", "currentPrice", "winner", "startsAt",
                 "endsAt", "purchaseWindowEndsAt"}
  BY DEF Columns, NoAuction
<1>2. z = [status |-> z.status, startPrice |-> z.startPrice,
           currentPrice |-> z.currentPrice, winner |-> z.winner,
           startsAt |-> z.startsAt, endsAt |-> z.endsAt,
           purchaseWindowEndsAt |-> z.purchaseWindowEndsAt]
  BY <1>1
<1>3. /\ z.status \in AuctionStatus \cup {"Absent"}
      /\ z.startPrice \in Amounts \cup {0}
      /\ z.currentPrice \in Amounts \cup {0}
      /\ z.winner \in Bidders \cup {Nobody}
      /\ z.startsAt \in Times \cup {Never}
      /\ z.endsAt \in Times \cup {Never}
      /\ z.purchaseWindowEndsAt \in Nat \cup {Never}
  BY <1>1 DEF Row
<1>. QED
  BY <1>2, <1>3 DEF Row

\* A row whose status, or also its leader, is updated is a row.
LEMMA WithStatusIsRow ==
    ASSUME NEW r \in Row, NEW s \in AuctionStatus
    PROVE  [r EXCEPT !.status = s] \in Row
  BY DEF Row

LEMMA WithLeaderIsRow ==
    ASSUME NEW r \in Row, NEW s \in AuctionStatus, NEW price \in Amounts,
           NEW b \in Bidders
    PROVE  [r EXCEPT !.status = s, !.currentPrice = price, !.winner = b] \in Row
  BY DEF Row

LEMMA InitTypeOK == Init => TypeOK
<1>. SUFFICES ASSUME Init PROVE TypeOK
  OBVIOUS
<1>1. stock \in [Auctions -> Nat]
  BY AuctionShape DEF Init
<1>2. NoAuction \in Row /\ NoEdit \in Edit
  BY DEF Row, NoAuction, Edit, NoEdit, Columns
<1>. QED
  BY <1>1, <1>2, AuctionShape DEF Init, TypeOK

LEMMA NextTypeOK == TypeOK /\ [Next]_vars => TypeOK'
<1>. SUFFICES ASSUME TypeOK, [Next]_vars PROVE TypeOK'
  OBVIOUS
<1>. USE AuctionShape DEF TypeOK
<1>1. CASE Tick
  BY <1>1 DEF Tick
<1>2. ASSUME NEW a \in Auctions, NEW price \in Amounts,
             NEW startsAt \in Times, NEW endsAt \in Times,
             Create(a, price, startsAt, endsAt)
      PROVE  TypeOK'
  BY <1>2 DEF Create, Row, StatusAt, AuctionStatus
<1>3. ASSUME NEW a \in Auctions, NEW price \in Amounts,
             NEW startsAt \in Times, NEW endsAt \in Times,
             SaveEdit(a, price, startsAt, endsAt)
      PROVE  TypeOK'
  <2>. DEFINE entity == [edit[a].entity EXCEPT
                !.startPrice = price, !.currentPrice = price,
                !.startsAt = startsAt, !.endsAt = endsAt,
                !.status = StatusAt(startsAt)]
              columns == {f \in Columns : entity[f] # auction[a][f]}
  <2>1. edit[a].entity \in Row /\ StatusAt(startsAt) \in AuctionStatus
    BY DEF Edit, StatusAt, AuctionStatus
  <2>2. entity \in Row
    BY <2>1 DEF Row
  <2>3. edit' = [edit EXCEPT ![a] = [phase |-> "saving", entity |-> entity,
                                     columns |-> columns]]
    BY <1>3 DEF SaveEdit
  <2>4. columns \in SUBSET Columns
    OBVIOUS
  <2>5. edit' \in [Auctions -> Edit]
    <3>. HIDE DEF entity, columns
    <3>. QED
      BY <2>2, <2>3, <2>4 DEF Edit
  <2>. QED
    BY <1>3, <2>5 DEF SaveEdit
<1>4. ASSUME NEW a \in Auctions, StartEdit(a) PROVE TypeOK'
  BY <1>4 DEF StartEdit, Edit
<1>5. ASSUME NEW a \in Auctions, UpdateEdited(a) PROVE TypeOK'
  <2>. DEFINE row == [f \in Columns |-> IF f \in edit[a].columns
                                        THEN edit[a].entity[f] ELSE auction[a][f]]
  <2>0. /\ edit[a].entity \in Row /\ auction[a] \in Row
        /\ edit[a].columns \in SUBSET Columns
    BY DEF Edit
  <2>1. row \in Row
    BY ONLY <2>0, MergedIsRow
  <2>2. auction' = [auction EXCEPT ![a] = row]
    BY <1>5 DEF UpdateEdited
  <2>3. auction' \in [Auctions -> Row]
    <3>. HIDE DEF row
    <3>. QED
      BY <2>1, <2>2
  <2>4. NoEdit \in Edit
    BY DEF NoEdit, Edit, NoAuction, Row
  <2>. QED
    BY <1>5, <2>3, <2>4 DEF UpdateEdited
<1>6. ASSUME NEW a \in Auctions, AbandonEdit(a) PROVE TypeOK'
  <2>1. NoEdit \in Edit
    BY DEF NoEdit, Edit, NoAuction, Row
  <2>. QED
    BY <1>6, <2>1 DEF AbandonEdit
<1>7. ASSUME NEW a \in Auctions, Cancel(a) PROVE TypeOK'
  <2>1. [auction[a] EXCEPT !.status = "CANCELLED"] \in Row
    BY WithStatusIsRow DEF AuctionStatus
  <2>. QED
    BY <1>7, <2>1 DEF Cancel
<1>14. ASSUME NEW a \in Auctions, SetStock(a) PROVE TypeOK'
  BY <1>14 DEF SetStock
<1>8. ASSUME NEW a \in Auctions, NEW b \in Bidders, NEW k \in Keys,
             NEW amount \in Amounts, PlaceBid(a, b, k, amount)
      PROVE  TypeOK'
  <2>1. [auction[a] EXCEPT !.status = "ACTIVE", !.currentPrice = amount,
                           !.winner = b] \in Row
    BY WithLeaderIsRow DEF AuctionStatus
  <2>2. auction' = [auction EXCEPT ![a] =
           [auction[a] EXCEPT !.status = "ACTIVE", !.currentPrice = amount,
                              !.winner = b]]
    BY <1>8 DEF PlaceBid
  <2>3. auction' \in [Auctions -> Row]
    BY <2>1, <2>2
  <2>4. [bidder |-> b, key |-> k, amount |-> amount] \in Bid
    BY DEF Bid
  <2>. QED
    BY <1>8, <2>3, <2>4 DEF PlaceBid
<1>9. ASSUME NEW a \in Auctions, NEW b \in Bidders, NEW k \in Keys,
             Purchase(a, b, k)
      PROVE  TypeOK'
  <2>1. [auction[a] EXCEPT !.status = "COMPLETED"] \in Row
    BY WithStatusIsRow DEF AuctionStatus
  <2>2. auction[a].currentPrice \in Amounts \cup {0}
    BY DEF Row
  <2>. QED
    BY <1>9, <2>1, <2>2 DEF Purchase, InStock
<1>10. ASSUME NEW a \in Auctions, Activate(a) PROVE TypeOK'
  <2>1. [auction[a] EXCEPT !.status = "ACTIVE"] \in Row
    BY WithStatusIsRow DEF AuctionStatus
  <2>. QED
    BY <1>10, <2>1 DEF Activate
<1>11. ASSUME NEW a \in Auctions, Finalize(a) PROVE TypeOK'
  <2>1. CASE auction' = [auction EXCEPT ![a].status = "UNSOLD"]
    <3>1. [auction[a] EXCEPT !.status = "UNSOLD"] \in Row
      BY WithStatusIsRow DEF AuctionStatus
    <3>. QED
      BY <1>11, <2>1, <3>1 DEF Finalize
  <2>2. ASSUME NEW bid \in HighestBids(a),
               auction' = [auction EXCEPT
                  ![a].status = "AWAITING_PAYMENT", ![a].winner = bid.bidder,
                  ![a].currentPrice = bid.amount,
                  ![a].purchaseWindowEndsAt = now + PurchaseWindow]
        PROVE  TypeOK'
    <3>. DEFINE row == [auction[a] EXCEPT
                  !.status = "AWAITING_PAYMENT", !.winner = bid.bidder,
                  !.currentPrice = bid.amount,
                  !.purchaseWindowEndsAt = now + PurchaseWindow]
    <3>1. bid.bidder \in Bidders /\ bid.amount \in Amounts
      BY DEF HighestBids, Bid
    <3>2. now + PurchaseWindow \in Nat
      OBVIOUS
    <3>. DEFINE row0 == [auction[a] EXCEPT !.status = "AWAITING_PAYMENT",
                            !.currentPrice = bid.amount, !.winner = bid.bidder]
    <3>3. row0 \in Row
      BY <3>1, WithLeaderIsRow DEF AuctionStatus
    <3>4. [row0 EXCEPT !.purchaseWindowEndsAt = now + PurchaseWindow] \in Row
      <4>. HIDE DEF row0
      <4>. QED
        BY <3>2, <3>3 DEF Row
    <3>5. row = [row0 EXCEPT !.purchaseWindowEndsAt = now + PurchaseWindow]
      OBVIOUS
    <3>6. row \in Row
      BY ONLY <3>4, <3>5
    <3>7. auction' = [auction EXCEPT ![a] = row]
      BY <2>2
    <3>8. auction' \in [Auctions -> Row]
      <4>. HIDE DEF row
      <4>. QED
        BY <3>6, <3>7
    <3>. QED
      BY <1>11, <3>8 DEF Finalize
  <2>. QED
    BY <1>11, <2>1, <2>2 DEF Finalize
<1>12. ASSUME NEW a \in Auctions, ExpirePurchaseWindow(a) PROVE TypeOK'
  <2>1. [auction[a] EXCEPT !.status = "EXPIRED"] \in Row
    BY WithStatusIsRow DEF AuctionStatus
  <2>. QED
    BY <1>12, <2>1 DEF ExpirePurchaseWindow
<1>13. CASE UNCHANGED vars
  BY <1>13 DEF vars
<1>. QED
  BY <1>1, <1>2, <1>3, <1>4, <1>5, <1>6, <1>7, <1>8, <1>9, <1>10, <1>11,
     <1>12, <1>13, <1>14 DEF Next

\* Every row, bid, order and edit keeps its shape.
THEOREM AuctionTypeCorrect == Spec => []TypeOK
  BY InitTypeOK, NextTypeOK, PTL DEF Spec

-----------------------------------------------------------------------------
(* The leader and the buyer.  What the two invariants need to be           *)
(* inductive: an edit in progress was counted, only an auction that exists *)
(* has bids, and only one with bids has a winner.                          *)

EditCounted(a) == Unedited(a) => edit[a] = NoEdit

BidsOfAuction(a) ==
    Unedited(a) /\ bids[a] = {} => auction[a].winner = Nobody

AbsentHasNoBids(a) ==
    Unedited(a) /\ auction[a] = NoAuction => bids[a] = {}

Leader(a) ==
    Unedited(a) /\ bids[a] # {} =>
        \E best \in bids[a] :
            /\ auction[a].winner = best.bidder
            /\ auction[a].currentPrice = best.amount
            /\ \A other \in bids[a] \ {best} :
                  other.amount + MinBidIncrement <= best.amount

SoldToHighest(a) ==
    Unedited(a) =>
        \A o \in orders[a] :
            /\ auction[a].status = "COMPLETED"
            /\ \E bid \in HighestBids(a) :
                  o.buyer = bid.bidder /\ o.amount = bid.amount

AuctionInv(a) ==
    /\ EditCounted(a)
    /\ BidsOfAuction(a)
    /\ AbsentHasNoBids(a)
    /\ Leader(a)
    /\ SoldToHighest(a)

AuctionsInv == \A a \in Auctions : AuctionInv(a)

\* The best bid, being ahead of every other by the increment, is highest,
\* and no other bid is.
LEMMA BestIsHighest ==
    ASSUME NEW a \in Auctions, bids[a] \subseteq Bid, NEW best \in bids[a],
           \A other \in bids[a] \ {best} :
              other.amount + MinBidIncrement <= best.amount
    PROVE  HighestBids(a) = {best}
<1>1. \A bid \in bids[a] : bid.amount \in Nat
  BY AuctionShape DEF Bid
<1>2. best \in HighestBids(a)
  BY <1>1, AuctionShape DEF HighestBids
<1>3. ASSUME NEW bid \in bids[a], bid # best PROVE bid \notin HighestBids(a)
  <2>1. bid.amount + MinBidIncrement <= best.amount
    BY <1>3
  <2>2. bid.amount < best.amount
    BY <1>1, <2>1, AuctionShape
  <2>. QED
    BY <1>1, <2>2 DEF HighestBids
<1>. QED
  BY <1>2, <1>3 DEF HighestBids

LEMMA InitAuctionsInv == Init => AuctionsInv
  BY DEF Init, AuctionsInv, AuctionInv, EditCounted, BidsOfAuction,
         AbsentHasNoBids, Leader, SoldToHighest, Unedited, NoAuction

\* An auction an action leaves alone keeps its invariant.
LEMMA UntouchedAuction ==
    ASSUME NEW x \in Auctions, AuctionInv(x),
           auction'[x] = auction[x], bids'[x] = bids[x],
           orders'[x] = orders[x], edit'[x] = edit[x], edits'[x] = edits[x]
    PROVE  AuctionInv(x)'
<1>1. EditCounted(x)' /\ BidsOfAuction(x)' /\ AbsentHasNoBids(x)'
  BY DEF AuctionInv, EditCounted, BidsOfAuction, AbsentHasNoBids, Unedited
<1>3. Leader(x)'
  BY DEF AuctionInv, Leader, Unedited
<1>4. HighestBids(x)' = HighestBids(x)
  BY DEF HighestBids
<1>5. SoldToHighest(x)'
  BY <1>4 DEF AuctionInv, SoldToHighest, Unedited
<1>. QED
  BY <1>1, <1>3, <1>5 DEF AuctionInv

\* A change of status alone disturbs at most the claim that what is sold is
\* completed.
LEMMA StatusChange ==
    ASSUME TypeOK, NEW a \in Auctions, AuctionInv(a), NEW s \in AuctionStatus,
           auction[a].status # "COMPLETED" ,
           auction' = [auction EXCEPT ![a].status = s],
           bids' = bids, orders' = orders, edit' = edit, edits' = edits
    PROVE  AuctionInv(a)'
<1>1. /\ auction'[a] = [auction[a] EXCEPT !.status = s]
      /\ auction[a] \in Row
  BY DEF TypeOK
<1>2. /\ auction'[a].winner = auction[a].winner
      /\ auction'[a].currentPrice = auction[a].currentPrice
      /\ auction'[a].status = s
  BY <1>1 DEF Row
<1>3. auction'[a] # NoAuction
  BY <1>2 DEF NoAuction, AuctionStatus
<1>4. Unedited(a) => orders[a] = {}
  BY DEF AuctionInv, SoldToHighest
<1>. QED
  BY <1>2, <1>3, <1>4
  DEF AuctionInv, EditCounted, BidsOfAuction, AbsentHasNoBids,
      Leader, SoldToHighest, Unedited

LEMMA NextAuctionsInv == TypeOK /\ AuctionsInv /\ [Next]_vars => AuctionsInv'
<1>. SUFFICES ASSUME TypeOK, AuctionsInv, [Next]_vars, NEW x \in Auctions
              PROVE  AuctionInv(x)'
  BY DEF AuctionsInv
<1>0. AuctionInv(x) /\ auction[x] \in Row
  BY DEF AuctionsInv, TypeOK
<1>1. CASE Tick
  BY <1>0, <1>1, UntouchedAuction DEF Tick
<1>2. ASSUME NEW a \in Auctions, NEW price \in Amounts,
             NEW startsAt \in Times, NEW endsAt \in Times,
             Create(a, price, startsAt, endsAt)
      PROVE  AuctionInv(x)'
  <2>1. CASE x # a
    BY <1>0, <1>2, <2>1, UntouchedAuction DEF Create, TypeOK
  <2>2. CASE x = a
    <3>1. /\ auction'[x].winner = Nobody
          /\ auction'[x].status \in {"ACTIVE", "SCHEDULED"}
          /\ auction[x] = NoAuction
      BY <1>2, <2>2 DEF Create, TypeOK, StatusAt
    <3>2. Unedited(x) => bids[x] = {} /\ orders[x] = {}
      BY <1>0, <3>1 DEF AuctionInv, AbsentHasNoBids, SoldToHighest, NoAuction
    <3>. QED
      BY <1>0, <1>2, <3>1, <3>2
      DEF Create, AuctionInv, EditCounted, BidsOfAuction,
          AbsentHasNoBids, Leader, SoldToHighest, Unedited
  <2>. QED
    BY <2>1, <2>2
<1>3. ASSUME NEW a \in Auctions, NEW price \in Amounts,
             NEW startsAt \in Times, NEW endsAt \in Times,
             SaveEdit(a, price, startsAt, endsAt)
      PROVE  AuctionInv(x)'
  <2>1. CASE x # a
    BY <1>0, <1>3, <2>1, UntouchedAuction DEF SaveEdit, TypeOK
  <2>2. CASE x = a
    <3>1. ~ Unedited(x)
      BY <1>0, <1>3, <2>2 DEF SaveEdit, AuctionInv, EditCounted, NoEdit
    <3>. QED
      BY <1>0, <1>3, <3>1
      DEF SaveEdit, AuctionInv, EditCounted, BidsOfAuction,
          AbsentHasNoBids, Leader, SoldToHighest, Unedited
  <2>. QED
    BY <2>1, <2>2
<1>4. ASSUME NEW a \in Auctions, StartEdit(a) PROVE AuctionInv(x)'
  <2>1. CASE x # a
    BY <1>0, <1>4, <2>1, UntouchedAuction DEF StartEdit, TypeOK
  <2>2. CASE x = a
    <3>1. ~ Unedited(x)'
      BY <1>4, <2>2 DEF StartEdit, Unedited, TypeOK
    <3>. QED
      BY <1>0, <1>4, <3>1
      DEF StartEdit, AuctionInv, EditCounted, BidsOfAuction,
          AbsentHasNoBids, Leader, SoldToHighest
  <2>. QED
    BY <2>1, <2>2
<1>5. ASSUME NEW a \in Auctions, UpdateEdited(a) PROVE AuctionInv(x)'
  <2>1. CASE x # a
    BY <1>0, <1>5, <2>1, UntouchedAuction DEF UpdateEdited, TypeOK
  <2>2. CASE x = a
    <3>1. ~ Unedited(x)
      BY <1>0, <1>5, <2>2 DEF UpdateEdited, AuctionInv, EditCounted, NoEdit
    <3>. QED
      BY <1>0, <1>5, <3>1
      DEF UpdateEdited, AuctionInv, EditCounted, BidsOfAuction,
          AbsentHasNoBids, Leader, SoldToHighest, Unedited
  <2>. QED
    BY <2>1, <2>2
<1>6. ASSUME NEW a \in Auctions, AbandonEdit(a) PROVE AuctionInv(x)'
  <2>1. CASE x # a
    BY <1>0, <1>6, <2>1, UntouchedAuction DEF AbandonEdit, TypeOK
  <2>2. CASE x = a
    <3>1. ~ Unedited(x)
      BY <1>0, <1>6, <2>2 DEF AbandonEdit, AuctionInv, EditCounted
    <3>. QED
      BY <1>0, <1>6, <3>1
      DEF AbandonEdit, AuctionInv, EditCounted, BidsOfAuction,
          AbsentHasNoBids, Leader, SoldToHighest, Unedited
  <2>. QED
    BY <2>1, <2>2
<1>7. ASSUME NEW a \in Auctions, Cancel(a) PROVE AuctionInv(x)'
  <2>1. CASE x # a
    BY <1>0, <1>7, <2>1, UntouchedAuction DEF Cancel, TypeOK
  <2>2. CASE x = a
    BY <1>0, <1>7, <2>2, StatusChange DEF Cancel, CancellableFrom, AuctionStatus
  <2>. QED
    BY <2>1, <2>2
<1>14. ASSUME NEW a \in Auctions, SetStock(a) PROVE AuctionInv(x)'
  BY <1>0, <1>14, UntouchedAuction DEF SetStock
<1>8. ASSUME NEW a \in Auctions, NEW b \in Bidders, NEW k \in Keys,
             NEW amount \in Amounts, PlaceBid(a, b, k, amount)
      PROVE  AuctionInv(x)'
  <2>1. CASE x # a
    BY <1>0, <1>8, <2>1, UntouchedAuction DEF PlaceBid, TypeOK
  <2>2. CASE x = a
    <3>. DEFINE new == [bidder |-> b, key |-> k, amount |-> amount]
    <3>1. /\ auction'[x].winner = b
          /\ auction'[x].currentPrice = amount
          /\ bids'[x] = bids[x] \cup {new}
          /\ amount >= MinNextBid(x)
          /\ auction[x].status # "COMPLETED"
      BY <1>0, <1>8, <2>2 DEF PlaceBid, TypeOK, Open, Row
    <3>2. auction'[x] # NoAuction
      BY <3>1, AuctionShape DEF NoAuction
    <3>3. new \in bids'[x] /\ new.bidder = b /\ new.amount = amount
      BY <3>1
    <3>4. ASSUME Unedited(x), NEW other \in bids[x]
          PROVE  other.amount + MinBidIncrement <= amount
      <4>1. PICK best \in bids[x] :
               /\ auction[x].winner = best.bidder
               /\ auction[x].currentPrice = best.amount
               /\ \A o \in bids[x] \ {best} :
                     o.amount + MinBidIncrement <= best.amount
        BY <1>0, <3>4 DEF AuctionInv, Leader
      <4>2. best.bidder \in Bidders /\ best.amount \in Nat /\ other.amount \in Nat
        <5>1. best \in Bid /\ other \in Bid
          BY DEF TypeOK
        <5>. QED
          BY <5>1, AuctionShape DEF Bid
      <4>3. best.amount + MinBidIncrement <= amount
        BY <3>1, <4>1, <4>2, AuctionShape DEF MinNextBid
      <4>4. other # best => other.amount + MinBidIncrement <= best.amount
        BY <4>1
      <4>. QED
        BY <4>2, <4>3, <4>4, AuctionShape
    <3>5. Leader(x)'
      <4>. SUFFICES ASSUME Unedited(x)'
                    PROVE  \A other \in bids'[x] \ {new} :
                              other.amount + MinBidIncrement <= new.amount
        BY <3>1, <3>3 DEF Leader
      <4>. QED
        BY <1>8, <3>1, <3>3, <3>4 DEF PlaceBid, Unedited
    <3>6. Unedited(x) => orders[x] = {}
      BY <1>0, <3>1 DEF AuctionInv, SoldToHighest
    <3>7. BidsOfAuction(x)' /\ AbsentHasNoBids(x)'
      BY <3>2, <3>3 DEF BidsOfAuction, AbsentHasNoBids
    <3>. QED
      BY <1>0, <1>8, <3>5, <3>6, <3>7
      DEF PlaceBid, AuctionInv, EditCounted, SoldToHighest, Unedited
  <2>. QED
    BY <2>1, <2>2
<1>9. ASSUME NEW a \in Auctions, NEW b \in Bidders, NEW k \in Keys,
             Purchase(a, b, k)
      PROVE  AuctionInv(x)'
  <2>1. CASE x # a
    BY <1>0, <1>9, <2>1, UntouchedAuction DEF Purchase, TypeOK
  <2>2. CASE x = a
    <3>. DEFINE new == [buyer |-> b, key |-> k, amount |-> auction[x].currentPrice]
    <3>1. /\ auction'[x].winner = auction[x].winner
          /\ auction'[x].currentPrice = auction[x].currentPrice
          /\ auction'[x].status = "COMPLETED"
          /\ auction[x].winner = b
          /\ orders'[x] = orders[x] \cup {new}
      BY <1>0, <1>9, <2>2 DEF Purchase, MayPurchase, TypeOK, Row
    <3>2. Unedited(x) => orders[x] = {}
      BY <1>0, <1>9, <2>2 DEF Purchase, MayPurchase, AuctionInv, SoldToHighest
    <3>4. auction'[x] # NoAuction
      BY <3>1 DEF NoAuction
    <3>5. HighestBids(x)' = HighestBids(x)
      BY <1>9 DEF Purchase, HighestBids
    <3>6. SoldToHighest(x)'
      <4>. SUFFICES ASSUME Unedited(x)
                    PROVE  \E bid \in HighestBids(x) :
                              new.buyer = bid.bidder /\ new.amount = bid.amount
        BY <1>9, <3>1, <3>2, <3>5 DEF Purchase, SoldToHighest, Unedited
      <4>1. bids[x] # {}
        BY <1>0, <3>1, AuctionShape DEF AuctionInv, BidsOfAuction
      <4>2. PICK best \in bids[x] :
               /\ auction[x].winner = best.bidder
               /\ auction[x].currentPrice = best.amount
               /\ \A o \in bids[x] \ {best} :
                     o.amount + MinBidIncrement <= best.amount
        BY <1>0, <4>1 DEF AuctionInv, Leader
      <4>3. HighestBids(x) = {best}
        BY <4>2, BestIsHighest DEF TypeOK
      <4>. QED
        BY <3>1, <4>2, <4>3
    <3>7. Leader(x)' /\ BidsOfAuction(x)' /\ AbsentHasNoBids(x)'
      BY <1>0, <1>9, <3>1, <3>4
      DEF Purchase, AuctionInv, Leader, BidsOfAuction, AbsentHasNoBids, Unedited
    <3>. QED
      BY <1>0, <1>9, <3>6, <3>7
      DEF Purchase, AuctionInv, EditCounted, Unedited
  <2>. QED
    BY <2>1, <2>2
<1>10. ASSUME NEW a \in Auctions, Activate(a) PROVE AuctionInv(x)'
  <2>1. CASE x # a
    BY <1>0, <1>10, <2>1, UntouchedAuction DEF Activate, TypeOK
  <2>2. CASE x = a
    BY <1>0, <1>10, <2>2, StatusChange DEF Activate, AuctionStatus
  <2>. QED
    BY <2>1, <2>2
<1>11. ASSUME NEW a \in Auctions, Finalize(a) PROVE AuctionInv(x)'
  <2>1. CASE x # a
    BY <1>0, <1>11, <2>1, UntouchedAuction DEF Finalize, TypeOK
  <2>2. CASE x = a /\ auction' = [auction EXCEPT ![a].status = "UNSOLD"]
    BY <1>0, <1>11, <2>2, StatusChange DEF Finalize, Finalizable, AuctionStatus
  <2>3. ASSUME x = a, NEW bid \in HighestBids(a),
               auction' = [auction EXCEPT
                  ![a].status = "AWAITING_PAYMENT", ![a].winner = bid.bidder,
                  ![a].currentPrice = bid.amount,
                  ![a].purchaseWindowEndsAt = now + PurchaseWindow]
        PROVE  AuctionInv(x)'
    <3>1. /\ auction'[x].winner = bid.bidder
          /\ auction'[x].currentPrice = bid.amount
          /\ auction[x].status # "COMPLETED"
          /\ bid \in bids[x]
      BY <1>0, <1>11, <2>3 DEF Finalize, Finalizable, HighestBids, TypeOK, Row
    <3>2. auction'[x] # NoAuction
      <4>1. bid.bidder \in Bidders
        BY <3>1 DEF TypeOK, Bid
      <4>. QED
        BY <3>1, <4>1, AuctionShape DEF NoAuction
    <3>3. ASSUME Unedited(x), NEW other \in bids[x] \ {bid}
          PROVE  other.amount + MinBidIncrement <= bid.amount
      <4>1. PICK best \in bids[x] :
               \A o \in bids[x] \ {best} :
                  o.amount + MinBidIncrement <= best.amount
        BY <1>0, <3>3 DEF AuctionInv, Leader
      <4>2. HighestBids(x) = {best}
        BY <4>1, BestIsHighest DEF TypeOK
      <4>3. bid = best
        BY <2>3, <4>2
      <4>. QED
        BY <4>1, <4>3
    <3>4. Leader(x)'
      BY <1>11, <3>1, <3>3 DEF Finalize, Leader, Unedited
    <3>5. Unedited(x) => orders[x] = {}
      BY <1>0, <3>1 DEF AuctionInv, SoldToHighest
    <3>. QED
      BY <1>0, <1>11, <3>1, <3>2, <3>4, <3>5
      DEF Finalize, AuctionInv, EditCounted, BidsOfAuction,
          AbsentHasNoBids, SoldToHighest, Unedited
  <2>. QED
    BY <1>11, <2>1, <2>2, <2>3 DEF Finalize
<1>12. ASSUME NEW a \in Auctions, ExpirePurchaseWindow(a) PROVE AuctionInv(x)'
  <2>1. CASE x # a
    BY <1>0, <1>12, <2>1, UntouchedAuction DEF ExpirePurchaseWindow, TypeOK
  <2>2. CASE x = a
    BY <1>0, <1>12, <2>2, StatusChange DEF ExpirePurchaseWindow, AuctionStatus
  <2>. QED
    BY <2>1, <2>2
<1>13. CASE UNCHANGED vars
  BY <1>0, <1>13, UntouchedAuction DEF vars
<1>. QED
  BY <1>1, <1>2, <1>3, <1>4, <1>5, <1>6, <1>7, <1>8, <1>9, <1>10, <1>11,
     <1>12, <1>13, <1>14 DEF Next

LEMMA AuctionsInvariant == Spec => [](TypeOK /\ AuctionsInv)
<1>1. Init => TypeOK /\ AuctionsInv
  BY InitTypeOK, InitAuctionsInv
<1>2. TypeOK /\ AuctionsInv /\ [Next]_vars => (TypeOK /\ AuctionsInv)'
  BY NextTypeOK, NextAuctionsInv
<1>. QED
  BY <1>1, <1>2, PTL DEF Spec

\* However many bids race, the price and the leader shown are those of the
\* one highest bid.
THEOREM LeaderCorrect == Spec => []LeaderIsHighest
<1>1. AuctionsInv => LeaderIsHighest
  BY DEF AuctionsInv, AuctionInv, Leader, LeaderIsHighest
<1>. QED
  BY <1>1, AuctionsInvariant, PTL

-----------------------------------------------------------------------------
(* The number of sales.  An auction that is not COMPLETED can be sold, and *)
(* an edit in progress can reopen one that is: with the sales made, these  *)
(* are never more than the first sale and the edits begun account for.     *)

Sellable(a) == IF auction[a].status # "COMPLETED" THEN 1 ELSE 0
Reopening(a) == IF edit[a] # NoEdit THEN 1 ELSE 0

SalesCounted(a) ==
    /\ IsFiniteSet(orders[a])
    /\ Cardinality(orders[a]) + Sellable(a) + Reopening(a) <= 1 + edits[a]

LEMMA SalesKept ==
    ASSUME NEW x \in Auctions, TypeOK, SalesCounted(x),
           orders'[x] = orders[x], edits'[x] = edits[x],
           Sellable(x)' + Reopening(x)' <= Sellable(x) + Reopening(x)
    PROVE  SalesCounted(x)'
<1>1. /\ Cardinality(orders[x]) \in Nat /\ edits[x] \in Nat
      /\ Sellable(x) \in Nat /\ Sellable(x)' \in Nat
      /\ Reopening(x) \in Nat /\ Reopening(x)' \in Nat
  BY FS_CardinalityType DEF SalesCounted, TypeOK, Sellable, Reopening
<1>. QED
  BY <1>1 DEF SalesCounted

\* A sale uses up that the auction is not COMPLETED; an edit adds a way to
\* reopen it and is counted.
LEMMA SalesStep ==
    ASSUME TypeOK, Next, NEW x \in Auctions, SalesCounted(x)
    PROVE  SalesCounted(x)'
<1>0. auction[x] \in Row /\ edits[x] \in Nat
  BY AuctionShape DEF TypeOK
<1>1. ASSUME NEW b \in Bidders, NEW k \in Keys, Purchase(x, b, k)
      PROVE  SalesCounted(x)'
  <2>1. /\ auction[x].status = "AWAITING_PAYMENT" /\ auction'[x].status = "COMPLETED"
        /\ edit'[x] = edit[x] /\ edits'[x] = edits[x]
    BY <1>0, <1>1 DEF Purchase, MayPurchase, TypeOK, Row
  <2>2. PICK o : orders'[x] = orders[x] \cup {o}
    BY <1>1 DEF Purchase, TypeOK
  <2>3. /\ IsFiniteSet(orders[x]) /\ IsFiniteSet(orders'[x])
        /\ Cardinality(orders[x]) \in Nat /\ Cardinality(orders'[x]) \in Nat
        /\ Cardinality(orders'[x]) <= Cardinality(orders[x]) + 1
    <3>1. IsFiniteSet(orders[x]) /\ Cardinality(orders[x]) \in Nat
      BY FS_CardinalityType DEF SalesCounted
    <3>2. /\ IsFiniteSet(orders[x] \cup {o})
          /\ \/ Cardinality(orders[x] \cup {o}) = Cardinality(orders[x])
             \/ Cardinality(orders[x] \cup {o}) = Cardinality(orders[x]) + 1
      BY <3>1, FS_AddElement, Zenon
    <3>. QED
      BY <2>2, <3>1, <3>2
  <2>. QED
    BY <1>0, <2>1, <2>3 DEF SalesCounted, Sellable, Reopening
<1>2. ASSUME StartEdit(x) PROVE SalesCounted(x)'
  <2>1. /\ orders'[x] = orders[x] /\ auction'[x] = auction[x]
        /\ edits'[x] = edits[x] + 1
        /\ edit[x] = NoEdit
    BY <1>2 DEF StartEdit, TypeOK
  <2>2. Cardinality(orders[x]) \in Nat
    BY FS_CardinalityType DEF SalesCounted
  <2>. QED
    BY <1>0, <2>1, <2>2 DEF SalesCounted, Sellable, Reopening
<1>3. ASSUME orders'[x] = orders[x], edits'[x] = edits[x],
             \/ auction'[x].status = auction[x].status
             \/ auction[x].status # "COMPLETED"
             \/ edit[x] # NoEdit /\ edit'[x] = NoEdit,
             edit[x] # NoEdit \/ edit'[x] = NoEdit
      PROVE  SalesCounted(x)'
  <2>1. Sellable(x)' + Reopening(x)' <= Sellable(x) + Reopening(x)
    BY <1>3 DEF Sellable, Reopening
  <2>. QED
    BY <1>3, <2>1, SalesKept
<1>4. CASE UNCHANGED <<auction[x], edit[x], orders[x], edits[x]>>
  BY <1>4 DEF SalesCounted, Sellable, Reopening
<1>5. ASSUME NEW a \in Auctions, NEW price \in Amounts,
             NEW startsAt \in Times, NEW endsAt \in Times,
             \/ Create(a, price, startsAt, endsAt)
             \/ SaveEdit(a, price, startsAt, endsAt)
      PROVE  SalesCounted(x)'
  <2>1. CASE a # x
    BY <1>4, <1>5, <2>1 DEF Create, SaveEdit, TypeOK
  <2>2. CASE a = x /\ Create(a, price, startsAt, endsAt)
    BY <1>4, <2>2, SalesKept
       DEF Create, NoAuction, TypeOK, StatusAt, Sellable, Reopening
  <2>3. CASE a = x /\ SaveEdit(a, price, startsAt, endsAt)
    BY <1>3, <2>3 DEF SaveEdit, NoEdit
  <2>. QED
    BY <1>5, <2>1, <2>2, <2>3
<1>6. ASSUME NEW a \in Auctions, UpdateEdited(a) \/ AbandonEdit(a)
      PROVE  SalesCounted(x)'
  <2>1. CASE a # x
    BY <1>4, <1>6, <2>1 DEF UpdateEdited, AbandonEdit, TypeOK
  <2>2. CASE a = x
    <3>1. edit'[x] = NoEdit
      BY <1>6, <2>2 DEF UpdateEdited, AbandonEdit, TypeOK
    <3>2. edit[x] # NoEdit
      BY <1>6, <2>2 DEF UpdateEdited, AbandonEdit, NoEdit
    <3>3. orders' = orders /\ edits' = edits
      BY <1>6 DEF UpdateEdited, AbandonEdit
    <3>. QED
      BY <1>3, <3>1, <3>2, <3>3
  <2>. QED
    BY <2>1, <2>2
<1>7. ASSUME NEW a \in Auctions, NEW b \in Bidders, NEW k \in Keys,
             NEW amount \in Amounts, PlaceBid(a, b, k, amount)
      PROVE  SalesCounted(x)'
  BY <1>3, <1>7 DEF PlaceBid, Open, TypeOK
<1>8. ASSUME NEW a \in Auctions,
             Cancel(a) \/ Activate(a) \/ Finalize(a) \/ ExpirePurchaseWindow(a)
      PROVE  SalesCounted(x)'
  <2>1. CASE a # x
    BY <1>4, <1>8, <2>1
       DEF Cancel, Activate, Finalize, ExpirePurchaseWindow, TypeOK
  <2>2. CASE a = x
    <3>1. /\ auction[x].status # "COMPLETED"
          /\ UNCHANGED <<orders, edit, edits>>
      BY <1>8, <2>2 DEF Cancel, CancellableFrom, Activate, Finalize, Finalizable,
                        ExpirePurchaseWindow
    <3>. QED
      BY <1>3, <3>1
  <2>. QED
    BY <2>1, <2>2
<1>9. ASSUME NEW a \in Auctions, NEW b \in Bidders, NEW k \in Keys,
             Purchase(a, b, k), a # x
      PROVE  SalesCounted(x)'
  BY <1>4, <1>9 DEF Purchase, TypeOK
<1>10. ASSUME NEW a \in Auctions, StartEdit(a), a # x PROVE SalesCounted(x)'
  BY <1>4, <1>10 DEF StartEdit, TypeOK
<1>11. CASE Tick \/ \E a \in Auctions : SetStock(a)
  BY <1>4, <1>11 DEF Tick, SetStock
<1>. QED
  BY <1>1, <1>2, <1>5, <1>6, <1>7, <1>8, <1>9, <1>10, <1>11 DEF Next

\* However bids, deadlines, edits and purchases interleave and whatever the
\* stock, a further sale takes an edit; unless the seller edited, the one sale
\* is to the highest bidder at that bid.
THEOREM SaleCorrect == Spec => []SaleSound
<1>1. Init => \A a \in Auctions : SalesCounted(a)
  BY FS_EmptySet DEF Init, SalesCounted, Sellable, Reopening, NoAuction, NoEdit
<1>2. TypeOK /\ (\A a \in Auctions : SalesCounted(a)) /\ [Next]_vars
        => (\A a \in Auctions : SalesCounted(a))'
  <2> SUFFICES ASSUME TypeOK, \A a \in Auctions : SalesCounted(a), [Next]_vars,
                      NEW x \in Auctions
               PROVE  SalesCounted(x)'
    OBVIOUS
  <2>1. CASE UNCHANGED vars
    <3>1. SalesCounted(x)
      OBVIOUS
    <3>. QED
      BY <2>1, <3>1 DEF vars, SalesCounted, Sellable, Reopening
  <2>. QED
    BY <2>1, SalesStep
<1>3. TypeOK /\ AuctionsInv /\ (\A a \in Auctions : SalesCounted(a)) => SaleSound
  <2> SUFFICES ASSUME TypeOK, AuctionsInv, NEW a \in Auctions, SalesCounted(a)
               PROVE  /\ Cardinality(orders[a]) <= 1 + edits[a]
                      /\ SoldToHighest(a)
    BY DEF SaleSound, SoldToHighest
  <2>1. /\ Cardinality(orders[a]) \in Nat /\ edits[a] \in Nat
        /\ Sellable(a) \in Nat /\ Reopening(a) \in Nat
    BY FS_CardinalityType, AuctionShape DEF SalesCounted, TypeOK, Sellable, Reopening
  <2>. QED
    BY <2>1 DEF SalesCounted, AuctionsInv, AuctionInv
<1>. QED
  BY <1>1, <1>2, <1>3, AuctionTypeCorrect, AuctionsInvariant, PTL DEF Spec

-----------------------------------------------------------------------------
(* The transition policy.                                                  *)

\* A step that leaves an unedited auction unedited moves it as the policy says.
LEMMA StepFollowsPolicy ==
    ASSUME TypeOK, AuctionsInv, Next, NEW x \in Auctions, edits'[x] = 0,
           auction[x].status # "Absent",
           auction[x].status # auction'[x].status
    PROVE  \/ auction'[x].status \in ForwardTransitions[auction[x].status]
           \/ /\ auction[x].status = "SCHEDULED"
              /\ auction'[x].status \in ForwardTransitions["ACTIVE"]
<1>. USE DEF ForwardTransitions, AuctionStatus, TypeOK
<1>. DEFINE from == auction[x].status
            to == auction'[x].status
            Legal == \/ to \in ForwardTransitions[from]
                     \/ from = "SCHEDULED" /\ to \in ForwardTransitions["ACTIVE"]
<1>0. auction[x] \in Row /\ EditCounted(x)
  BY DEF AuctionsInv, AuctionInv
<1>1. ASSUME NEW a \in Auctions, NEW price \in Amounts,
             NEW startsAt \in Times, NEW endsAt \in Times,
             Create(a, price, startsAt, endsAt)
      PROVE  Legal
  BY <1>1 DEF Create, NoAuction
<1>2. ASSUME NEW a \in Auctions, UpdateEdited(a) PROVE Legal
  <2>1. CASE x # a
    BY <1>2, <2>1 DEF UpdateEdited
  <2>2. CASE x = a
    BY <1>0, <1>2, <2>2 DEF UpdateEdited, EditCounted, Unedited, NoEdit
  <2>. QED
    BY <2>1, <2>2
<1>3. ASSUME NEW a \in Auctions, Cancel(a) PROVE Legal
  BY <1>0, <1>3 DEF Cancel, CancellableFrom, Row
<1>4. ASSUME NEW a \in Auctions, NEW b \in Bidders, NEW k \in Keys,
             NEW amount \in Amounts, PlaceBid(a, b, k, amount)
      PROVE  Legal
  BY <1>0, <1>4 DEF PlaceBid, Open, Row
<1>5. ASSUME NEW a \in Auctions, NEW b \in Bidders, NEW k \in Keys,
             Purchase(a, b, k)
      PROVE  Legal
  <2>1. auction'[x] = IF x = a THEN [auction[x] EXCEPT !.status = "COMPLETED"]
                               ELSE auction[x]
    BY <1>5 DEF Purchase
  <2>2. x = a /\ from = "AWAITING_PAYMENT" /\ to = "COMPLETED"
    BY <1>0, <1>5, <2>1 DEF Purchase, MayPurchase, Row
  <2>. QED
    BY <2>2
<1>6. ASSUME NEW a \in Auctions, Activate(a) PROVE Legal
  BY <1>0, <1>6 DEF Activate, Row
<1>7. ASSUME NEW a \in Auctions, Finalize(a) PROVE Legal
  <2>1. x = a /\ from \in {"ACTIVE", "SCHEDULED"}
    BY <1>0, <1>7 DEF Finalize, Finalizable, Row
  <2>2. to \in {"UNSOLD", "AWAITING_PAYMENT"}
    <3>1. CASE auction' = [auction EXCEPT ![x].status = "UNSOLD"]
      BY <1>0, <3>1 DEF Row
    <3>2. ASSUME NEW bid \in HighestBids(x),
                 auction' = [auction EXCEPT
                    ![x].status = "AWAITING_PAYMENT", ![x].winner = bid.bidder,
                    ![x].currentPrice = bid.amount,
                    ![x].purchaseWindowEndsAt = now + PurchaseWindow]
          PROVE  to = "AWAITING_PAYMENT"
      BY <1>0, <3>2 DEF Row
    <3>. QED
      BY <1>7, <2>1, <3>1, <3>2 DEF Finalize
  <2>. QED
    BY <2>1, <2>2
<1>8. ASSUME NEW a \in Auctions, ExpirePurchaseWindow(a) PROVE Legal
  BY <1>0, <1>8 DEF ExpirePurchaseWindow, Row
<1>. QED
  BY <1>1, <1>2, <1>3, <1>4, <1>5, <1>6, <1>7, <1>8
  DEF Next, Tick, StartEdit, SaveEdit, AbandonEdit, SetStock

\* Whichever trigger comes late, early or twice, an auction the seller did
\* not edit moves only along the policy.
THEOREM PolicyFollowed == Spec => UneditedFollowsPolicy
<1>1. TypeOK /\ AuctionsInv /\ [Next]_vars =>
        [\A a \in Auctions :
          LET from == auction[a].status
              to == auction'[a].status
          IN  /\ edits'[a] = 0
              /\ from # "Absent"
              /\ from # to
              => \/ to \in ForwardTransitions[from]
                 \/ /\ from = "SCHEDULED"
                    /\ to \in ForwardTransitions["ACTIVE"]]_vars
  BY StepFollowsPolicy
<1>. QED
  BY <1>1, AuctionsInvariant, PTL DEF Spec, UneditedFollowsPolicy
=============================================================================
