--------------------------- MODULE MCStorefront ---------------------------
(* One instance of each of the components behind the shop's pages that do  *)
(* not call one another: the money, the pages of an order, the index, the  *)
(* cache, the reviews, the disputes, the cart, the reports, the notices    *)
(* and the catalog page. A behaviour is one of them at work, the others    *)
(* idle.                                                                   *)
EXTENDS MCMoney, OrderPages, SearchSync, CatalogCache, Reviews, Disputes, Carts, Analytics,
        Notifications, Browsing, TLC

CONSTANTS
    x1, x2,     \* requests, workers, administrators, changes of a cart, sellers
    y1, y2,     \* customers who review, keys of refunds, seller orders
    t1, c3      \* a tab, and the change made on another device

VARIABLE part

MCTtl == [k \in CacheKeys |-> 2]

MCTabOf == [c \in Clicks |-> IF c = c3 THEN Elsewhere ELSE t1]

\* Something in stock, something sold out and an auction.
Good(type, price, currentPrice, stock, relevance, newest) ==
    [type |-> type, price |-> price, currentPrice |-> currentPrice, stock |-> stock,
     relevance |-> relevance, newest |-> newest]
MCTraits ==
    ("lamp" :> Good("FIXED_PRICE", 1, Unset, 1, 1, 3))
    @@ ("vase" :> Good("FIXED_PRICE", 2, Unset, 0, 2, 1))
    @@ ("lot" :> Good("AUCTION", Unset, 1, 1, 3, 2))

MCLinks ==
    {Address(NoFilters, 1), Address(NoFilters, 2),
     Address([NoFilters EXCEPT !.available = "true"], 1),
     Address([NoFilters EXCEPT !.available = "false", !.maxPrice = 1], 3)}

\* An auction has three events when it is won, and one more when it is over.
MCMaxEvents ==
    [k \in AggregateTypes |-> IF k = "Auction" THEN 5 ELSE IF k = "Dispute" THEN 4 ELSE 3]

\* The components share their model values, so that one permutation serves all.
MCSymmetry == Permutations({x1, x2}) \cup Permutations({y1, y2})

StorefrontInit ==
    /\ MoneyInit /\ OrderPagesInit
    /\ SearchSyncInit /\ CatalogCacheInit /\ ReviewsInit /\ DisputesInit /\ CartsInit
    /\ AnalyticsInit /\ NotificationsInit /\ BrowsingInit
    /\ part \in {"money", "pages", "search", "cache", "reviews", "disputes", "carts",
                "reports", "notices", "browsing"}
    /\ part # "money" => rate = 0
    /\ part # "pages" => viewer = "customer"
    /\ part # "notices" => kind = "Order"

StorefrontNext ==
    \/ part = "money" /\ MoneyNext
       /\ UNCHANGED <<orderPagesVars, searchSyncVars, catalogCacheVars, reviewsVars,
                      disputesVars, cartsVars, analyticsVars, notificationsVars, browsingVars,
                      part>>
    \/ part = "pages" /\ OrderPagesNext
       /\ UNCHANGED <<moneyVars, searchSyncVars, catalogCacheVars, reviewsVars,
                      disputesVars, cartsVars, analyticsVars, notificationsVars, browsingVars,
                      part>>
    \/ part = "search" /\ SearchSyncNext
       /\ UNCHANGED <<moneyVars, orderPagesVars, catalogCacheVars, reviewsVars,
                      disputesVars, cartsVars, analyticsVars, notificationsVars, browsingVars,
                      part>>
    \/ part = "cache" /\ CatalogCacheNext
       /\ UNCHANGED <<moneyVars, orderPagesVars, searchSyncVars, reviewsVars,
                      disputesVars, cartsVars, analyticsVars, notificationsVars, browsingVars,
                      part>>
    \/ part = "reviews" /\ ReviewsNext
       /\ UNCHANGED <<moneyVars, orderPagesVars, searchSyncVars, catalogCacheVars,
                      disputesVars, cartsVars, analyticsVars, notificationsVars, browsingVars,
                      part>>
    \/ part = "disputes" /\ DisputesNext
       /\ UNCHANGED <<moneyVars, orderPagesVars, searchSyncVars, catalogCacheVars,
                      reviewsVars, cartsVars, analyticsVars, notificationsVars, browsingVars,
                      part>>
    \/ part = "carts" /\ CartsNext
       /\ UNCHANGED <<moneyVars, orderPagesVars, searchSyncVars, catalogCacheVars,
                      reviewsVars, disputesVars, analyticsVars, notificationsVars, browsingVars,
                      part>>
    \/ part = "reports" /\ AnalyticsNext
       /\ UNCHANGED <<moneyVars, orderPagesVars, searchSyncVars, catalogCacheVars,
                      reviewsVars, disputesVars, cartsVars, notificationsVars, browsingVars,
                      part>>
    \/ part = "notices" /\ NotificationsNext
       /\ UNCHANGED <<moneyVars, orderPagesVars, searchSyncVars, catalogCacheVars,
                      reviewsVars, disputesVars, cartsVars, analyticsVars, browsingVars, part>>
    \/ part = "browsing" /\ BrowsingNext
       /\ UNCHANGED <<moneyVars, orderPagesVars, searchSyncVars, catalogCacheVars,
                      reviewsVars, disputesVars, cartsVars, analyticsVars, notificationsVars,
                      part>>

StorefrontSpec ==
    StorefrontInit /\ [][StorefrontNext]_<<moneyVars, orderPagesVars, searchSyncVars,
        catalogCacheVars, reviewsVars, disputesVars, cartsVars, analyticsVars,
        notificationsVars, browsingVars, part>>

===========================================================================
