CONSTANTS
    None = None
    ann = ann
    tab1 = tab1
    tab2 = tab2
    Users = {ann}
    Tabs = {tab1, tab2}
    Tokens <- MCTokens
    Applications = {1, 2}
    MaxIncidents = 3
    MaxLosses = 1
SPECIFICATION AccountsFairSpec
CHECK_DEADLOCK FALSE
INVARIANTS
    RotatedOnce
    ShownHoldsToken
    ApplicationsSound
PROPERTIES
    SellerActivated
