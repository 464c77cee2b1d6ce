------------------------------ MODULE Browsing ------------------------------
(***************************************************************************)
(* The catalog page: the filters in its address, the query made of them,   *)
(* the answer of the search index or, while it is not available, of        *)
(* PostgreSQL, and what the page shows and offers meanwhile                *)
(* (CatalogPage, useCatalog, ProductsService.searchCatalog).               *)
(*                                                                         *)
(* The buttons of the page change the address as it was when they were     *)
(* rendered, and the router renders a new address as a transition, so that *)
(* a second click may come before. While an answer is awaited the page     *)
(* shows the previous one, with its pager. Which of the two engines wrote  *)
(* the answer that is served from the cache nobody can tell.               *)
(***************************************************************************)
EXTENDS Integers, FiniteSets, FiniteSetsExt

CONSTANTS
    Shown,          \* the published products
    Traits,         \* type, price, currentPrice, stock and places of a product
    PageSize,
    Links,          \* addresses that are visited by a link, by hand or by going back
    Unset,          \* a filter that is not set, a price that is not known
    NoAnswer        \* nothing to show

VARIABLES
    url,            \* the address
    rendered,       \* the address of the page that is on the screen
    onScreen,       \* the answer on the screen
    awaited,        \* the answer for the address on the screen is awaited
    wanted,         \* the filters that were chosen
    strayed         \* the address is not what the buttons make of an answer

browsingVars == <<url, rendered, onScreen, awaited, wanted, strayed>>

Filters == [type : {Unset, "AUCTION", "FIXED_PRICE"}, available : {Unset, "true", "false"},
            maxPrice : {Unset, 1}]
NoFilters == [type |-> Unset, available |-> Unset, maxPrice |-> Unset]

Address(filters, page) == [filters |-> filters, page |-> page]

ASSUME BrowsingShape ==
    /\ PageSize \in Nat \ {0} /\ Unset \notin Int \cup {"true", "false"}
    /\ Links \subseteq [filters : Filters, page : Nat \ {0}]

\* The row of an auction has no price of its own, and an engine puts the
\* products one after the other.
ASSUME TraitsShape ==
    /\ IsFiniteSet(Shown)
    /\ \A g \in Shown :
        /\ Traits[g].type \in {"AUCTION", "FIXED_PRICE"}
        /\ Traits[g].type = "AUCTION" => Traits[g].price = Unset
        /\ {Traits[g].stock, Traits[g].relevance, Traits[g].newest} \subseteq Nat
    /\ \A g, h \in Shown :
        Traits[g].relevance = Traits[h].relevance \/ Traits[g].newest = Traits[h].newest => g = h

Pages == 1..(2 + Cardinality(Shown) \div PageSize)

\* What the page asks for: only available=true is passed on.
QueryOf(address) ==
    [address EXCEPT !.filters.available = IF @ = "true" THEN @ ELSE Unset]

---------------------------------------------------------------------------
(* The answers.                                                            *)

Below(price, maxPrice) == maxPrice = Unset \/ (price # Unset /\ price <= maxPrice)

\* The document of an auction has its current price.
DocumentPrice(g) == IF Traits[g].type = "AUCTION" THEN Traits[g].currentPrice ELSE Traits[g].price

BuildFilter(filters) ==
    {g \in Shown : /\ filters.type \in {Unset, Traits[g].type}
                   /\ filters.available = Unset \/ Traits[g].stock > 0
                   /\ Below(DocumentPrice(g), filters.maxPrice)}

\* The row of an auction has no price of its own.
FallbackWhere(filters) ==
    {g \in Shown : /\ filters.type \in {Unset, Traits[g].type}
                   /\ filters.available = Unset \/ Traits[g].stock > 0
                   /\ Below(Traits[g].price, filters.maxPrice)}

TotalPages(total) == IF total = 0 THEN 1 ELSE (total + PageSize - 1) \div PageSize

\* The products of a page, by the place that each has in the engine's order.
Slice(matches, page, order) ==
    {g \in matches :
        LET before == {h \in matches : Traits[h][order] < Traits[g][order]}
        IN  Cardinality(before) \div PageSize + 1 = page}

AnswerFor(query, matches, order, facets) ==
    [query |-> query, products |-> Slice(matches, query.page, order),
     total |-> Cardinality(matches), totalPages |-> TotalPages(Cardinality(matches)),
     facets |-> facets]

FacetsOf(matches) ==
    {<<"type", Traits[g].type>> : g \in matches}
    \cup {<<"available", IF Traits[g].stock > 0 THEN "true" ELSE "false">> : g \in matches}

SearchMeilisearch(query) ==
    LET matches == BuildFilter(query.filters)
    IN  AnswerFor(query, matches, "relevance", FacetsOf(matches))

\* Newest first, and no facets.
SearchFallback(query) ==
    AnswerFor(query, FallbackWhere(query.filters), "newest", {})

\* searchCatalog: of the index, or of PostgreSQL when the index fails; or what
\* was cached of either.
SearchCatalog(query) == {SearchMeilisearch(query), SearchFallback(query)}

---------------------------------------------------------------------------
(* The page.                                                               *)

BrowsingTypeOK ==
    /\ \A address \in {url, rendered} : address.filters \in Filters /\ address.page \in Pages
    /\ onScreen = NoAnswer \/ onScreen.total \in 0..Cardinality(Shown)
    /\ awaited \in BOOLEAN /\ strayed \in BOOLEAN
    /\ wanted \in Filters

BrowsingInit ==
    /\ url = Address(NoFilters, 1)
    /\ rendered = url
    /\ onScreen = NoAnswer
    /\ awaited = TRUE
    /\ wanted = NoFilters
    /\ strayed = FALSE

Rerendering == url # rendered

\* Mutant: the page number stays when a filter changes.
SetParam_KeepsPage(key, value) ==
    /\ url' = [rendered EXCEPT !.filters[key] = value]
    /\ wanted' = [wanted EXCEPT ![key] = value]
    /\ strayed' = (strayed \/ Rerendering)
    /\ UNCHANGED <<rendered, onScreen, awaited>>

SetParam(key, value) ==
    /\ url' = Address([rendered.filters EXCEPT ![key] = value], 1)
    /\ wanted' = [wanted EXCEPT ![key] = value]
    /\ strayed' = (strayed \/ Rerendering)
    /\ UNCHANGED <<rendered, onScreen, awaited>>

\* FacetGroup: the values that the answer counts, to set or to unset.
ClickFacet ==
    /\ onScreen # NoAnswer
    /\ \E facet \in onScreen.facets :
        SetParam(facet[1], IF rendered.filters[facet[1]] = facet[2] THEN Unset ELSE facet[2])

\* FilterPanel: the input is left with a number or empty.
LeavePrice == \E price \in {Unset, 1} : SetParam("maxPrice", price)

ClearFilters ==
    /\ rendered.filters # NoFilters
    /\ url' = Address(NoFilters, 1)
    /\ wanted' = NoFilters
    /\ strayed' = FALSE
    /\ UNCHANGED <<rendered, onScreen, awaited>>

\* The pager is of the answer on the screen, which may be the previous one.
SetPage ==
    /\ onScreen # NoAnswer /\ onScreen.totalPages > 1
    /\ \E page \in Pages \cap {rendered.page - 1, rendered.page + 1} :
        /\ page > rendered.page => rendered.page # onScreen.totalPages
        /\ url' = Address(rendered.filters, page)
    /\ strayed' = (strayed \/ Rerendering \/ onScreen.query # QueryOf(rendered))
    /\ UNCHANGED <<rendered, onScreen, awaited, wanted>>

Visit(address) ==
    /\ url' = address
    /\ wanted' = address.filters
    /\ strayed' = (address.page # 1)
    /\ UNCHANGED <<rendered, onScreen, awaited>>

\* useCatalog: the answer for the new key is in the query cache, or awaited
\* with the previous one in its place.
Render ==
    /\ Rerendering
    /\ rendered' = url
    /\ \/ /\ QueryOf(url) = QueryOf(rendered)
          /\ UNCHANGED <<onScreen, awaited>>
       \/ /\ QueryOf(url) # QueryOf(rendered)
          /\ \/ onScreen' \in SearchCatalog(QueryOf(url)) /\ awaited' = FALSE
             \/ awaited' = TRUE /\ UNCHANGED onScreen
    /\ UNCHANGED <<url, wanted, strayed>>

ReceiveAnswer ==
    /\ awaited
    /\ onScreen' \in SearchCatalog(QueryOf(rendered))
    /\ awaited' = FALSE
    /\ UNCHANGED <<url, rendered, wanted, strayed>>

\* ProductGrid shows an error, and a button to ask again.
FailAnswer ==
    /\ awaited
    /\ onScreen' = NoAnswer
    /\ awaited' = FALSE
    /\ UNCHANGED <<url, rendered, wanted, strayed>>

AskAgain ==
    /\ onScreen = NoAnswer /\ ~awaited
    /\ awaited' = TRUE
    /\ UNCHANGED <<url, rendered, onScreen, wanted, strayed>>

BrowsingNext ==
    \/ ClickFacet \/ LeavePrice \/ ClearFilters \/ SetPage
    \/ \E address \in Links : Visit(address)
    \/ Render \/ ReceiveAnswer \/ FailAnswer \/ AskAgain

BrowsingSpec == BrowsingInit /\ [][BrowsingNext]_browsingVars

---------------------------------------------------------------------------
(* Properties.                                                             *)

\* What the shopper reads in the filters, against the price on the card.
Satisfies(g, filters) ==
    /\ filters.type \in {Unset, Traits[g].type}
    /\ filters.available = "true" => Traits[g].stock > 0
    /\ Below(DocumentPrice(g), filters.maxPrice)

\* PostgreSQL does not see an auction when a price is asked for.
Unseen(matching) ==
    url.filters.maxPrice # Unset /\ \E g \in matching : Traits[g].type = "AUCTION"

\* A catalog page that awaits nothing shows products of its address, as many as
\* there are but for auctions that PostgreSQL does not see. If the shopper waited
\* for each answer before turning the page, and for each rendering before
\* clicking again, the filters are the chosen ones and the page is one of the
\* answer's, unless it was turned in an answer that saw more of the auctions.
CatalogMatchesUrl ==
    ~Rerendering /\ ~awaited /\ onScreen # NoAnswer =>
        LET matching == {g \in Shown : Satisfies(g, url.filters)}
        IN  /\ onScreen.query = QueryOf(url)
            /\ onScreen.products \subseteq matching
            /\ onScreen.total <= Cardinality(matching)
            /\ onScreen.total < Cardinality(matching) => Unseen(matching)
            /\ ~strayed =>
                /\ url.filters = wanted
                /\ onScreen.products = {} => onScreen.total = 0 \/ Unseen(matching)
=============================================================================
