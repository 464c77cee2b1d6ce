CONSTANTS
    a1 = a1
    ann = ann
    ben = ben
    k1 = k1
    k2 = k2
    Auctions = {a1}
    Bidders = {ann, ben}
    Keys = {k1, k2}
    Amounts = {1, 2, 3}
    MinBidIncrement = 1
    PurchaseWindow = 1
    Stocks = {0, 2}
    Times = {0, 1, 2}
    MaxTime = 4
    MaxEdits = 1
SPECIFICATION FairSpec
CHECK_DEADLOCK FALSE
INVARIANTS
    LeaderIsHighest
    SaleSound
PROPERTIES
    UneditedFollowsPolicy
    AuctionsSettle
