CONSTANTS
    RowWriters = {x1, x2}
    RtWorkers = {w1, w2}
    MaxChanges = 2
    MaxDrops = 1
    None = None
    Lots = {l1, l2}
    Sweepers = {s1}
    BatchSize = 1
    MaxMoves = 1
    MaxFailures = 1
SPECIFICATION BackgroundSpec
INVARIANT QuietPageIsCurrent
PROPERTIES AuctionPanelCatchesUp OverdueLotsClose
CHECK_DEADLOCK FALSE
