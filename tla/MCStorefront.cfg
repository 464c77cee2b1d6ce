CONSTANTS
    MaxCents = 130
    Rates = {0, 250, 1000, 1234, 10000}
    Sold = 2
    Fetching = Fetching
    Blank = Blank
    Goods = {p1}
    Shelves = {s1}
    SyncWorkers = {x1, x2}
    MaxWrites = 4
    MaxScripts = 1
    Unborn = Unborn
    Gone = Gone
    CacheKeys = {camera}
    Readers = {x1, x2}
    Ttl <- MCTtl
    SearchTtl = 2
    MaxLag = 1
    MaxCommits = 3
    Empty = Empty
    Reviewers = {y1, y2}
    ReviewCalls = {x1, x2}
    Stars = {2, 5}
    Unrated = Unrated
    Nobody = Nobody
    Parcels = {o1}
    Ordered = 2
    DisputeIds = {d1, d2}
    Admins = {x1, x2}
    RefundKeys = {y1, y2}
    Null = Null
    Wares = {item}
    Tabs = {t1}
    Clicks = {x1, x2, c3}
    TabOf <- MCTabOf
    MaxQuantity = 2
    Hideable = {item}
    Elsewhere = Elsewhere
    Asked = Asked
    Guess = Guess
    Unknown = Unknown
    Sales = {y1, y2}
    Stores = {x1, x2}
    UnitsSold = 2
    DayLength = 2
    LastInstant = 2
    Window = 3
    MaxChanges = 6
    MaxReports = 1
    MaxEarly = 1
    SellersListed = 2
    ProductsListed = 2
    Undated = Undated
    NoReport = NoReport
    NoticeWorkers = {x1, x2}
    MaxEvents <- MCMaxEvents
    MaxLosses = 1
    NoNotice = NoNotice
    Shown = {"lamp", "vase", "lot"}
    Traits <- MCTraits
    Links <- MCLinks
    PageSize = 2
    Unset = Unset
    NoAnswer = NoAnswer
    t1 = t1
    x1 = x1
    x2 = x2
    y1 = y1
    y2 = y2
    c3 = c3
SPECIFICATION StorefrontSpec
SYMMETRY MCSymmetry
CHECK_DEADLOCK FALSE
INVARIANTS
    MoneyExact
    SettledPageIsCurrent
    IndexExplained
    CachedForATimeOnly
    RatingOfReviews
    DecidedOnce
    LinesExplained
    QuietTabIsCurrent
    ReportsAgree
    EveryoneIsTold
    CatalogMatchesUrl
