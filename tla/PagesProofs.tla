---------------------------- MODULE PagesProofs ----------------------------
(***************************************************************************)
(* Theorems about the parts of the program that show a reader something:   *)
(* the catalog that follows the address, the amounts on a page, the page   *)
(* of an order, the search index, the catalog's cache and the pages that   *)
(* are told of changes. MCStorefront and MCBackground run them side by     *)
(* side; each has a specification and an inductive invariant of its own.   *)
(***************************************************************************)
EXTENDS MCMoney, Browsing, OrderPages, SearchSync, CatalogCache, Realtime,
        MoneyProofs

---------------------------------------------------------------------------
(* The last of finitely many rows, and the row at a place of an order.     *)

\* A finite set of rows that are ordered by a number has a last one.
LEMMA LastOne ==
    ASSUME NEW S, IsFiniteSet(S), S # {}, NEW f, \A x \in S : f[x] \in Int
    PROVE  \E x \in S : \A y \in S : f[y] <= f[x]
<1> DEFINE Bad == {T \in SUBSET S : T # {} /\ ~\E x \in T : \A y \in T : f[y] <= f[x]}
<1> SUFFICES ASSUME Bad # {} PROVE FALSE
  OBVIOUS
<1>0. Bad \subseteq SUBSET S
  OBVIOUS
<1> HIDE DEF Bad
<1>1. PICK T \in Bad : \A U \in Bad : U \subseteq T => U = T
  BY <1>0, SmallestSubset
<1>2. T \in SUBSET S /\ T # {} /\ ~\E x \in T : \A y \in T : f[y] <= f[x]
  BY <1>1 DEF Bad
<1>3. PICK m \in T : TRUE
  BY <1>2
<1>4. T \ {m} \notin Bad
  BY <1>1, <1>3
<1>5. CASE T \ {m} = {}
  BY <1>2, <1>3, <1>5
<1>6. CASE T \ {m} # {}
  <2>1. PICK x \in T \ {m} : \A y \in T \ {m} : f[y] <= f[x]
    BY <1>2, <1>4, <1>6 DEF Bad
  <2>2. f[x] \in Int /\ f[m] \in Int
    BY <1>2, <1>3, <2>1
  <2>3. CASE f[m] <= f[x]
    BY <1>2, <2>1, <2>3
  <2>4. CASE f[x] < f[m]
    <3>1. \A y \in T : f[y] <= f[m]
      <4> SUFFICES ASSUME NEW y \in T PROVE f[y] <= f[m]
        OBVIOUS
      <4>1. f[y] \in Int
        BY <1>2
      <4>. QED
        BY <2>1, <2>2, <2>4, <4>1
    <3>. QED
      BY <1>2, <1>3, <3>1
  <2>. QED
    BY <2>2, <2>3, <2>4
<1>. QED
  BY <1>5, <1>6

\* The rows that come before x.
RowsBefore(S, f, x) == {y \in S : f[y] < f[x]}

\* In an order without ties, every place up to the number of rows is taken.
LEMMA PlaceTaken ==
    ASSUME NEW S, IsFiniteSet(S), NEW f, \A x \in S : f[x] \in Int,
           \A x, y \in S : f[x] = f[y] => x = y,
           NEW n \in 0..(Cardinality(S) - 1)
    PROVE  \E x \in S : Cardinality(RowsBefore(S, f, x)) = n
<1> DEFINE Taken(T, k) == \E x \in T : Cardinality(RowsBefore(T, f, x)) = k
           Bad == {T \in SUBSET S : \E k \in 0..(Cardinality(T) - 1) : ~Taken(T, k)}
<1> SUFFICES ASSUME Bad # {} PROVE FALSE
  <2>1. S \notin Bad
    OBVIOUS
  <2>. QED
    BY <2>1
<1>0. Bad \subseteq SUBSET S
  OBVIOUS
<1> HIDE DEF Bad
<1>1. PICK T \in Bad : \A U \in Bad : U \subseteq T => U = T
  BY <1>0, SmallestSubset
<1>2. PICK k \in 0..(Cardinality(T) - 1) : ~Taken(T, k)
  BY <1>1 DEF Bad
<1>3. T \in SUBSET S /\ IsFiniteSet(T) /\ Cardinality(T) \in Nat
  BY <1>0, <1>1, FS_Subset, FS_CardinalityType
<1>4. T # {}
  BY <1>2, FS_EmptySet
<1>5. PICK m \in T : \A y \in T : f[y] <= f[m]
  BY <1>3, <1>4, LastOne
<1>6. /\ T \ {m} \in SUBSET S /\ IsFiniteSet(T \ {m})
      /\ Cardinality(T \ {m}) = Cardinality(T) - 1
  BY <1>3, FS_RemoveElement
<1>7. CASE k = Cardinality(T) - 1
  <2>1. RowsBefore(T, f, m) = T \ {m}
    <3>1. \A y \in T \ {m} : f[y] # f[m] /\ f[y] <= f[m] /\ f[y] \in Int /\ f[m] \in Int
      BY <1>3, <1>5
    <3>2. ~(f[m] < f[m])
      BY <1>3
    <3>. QED
      BY <3>1, <3>2 DEF RowsBefore
  <2>2. Cardinality(RowsBefore(T, f, m)) = k
    BY <1>6, <1>7, <2>1, Zenon
  <2>. QED
    BY <1>2, <2>2
<1>8. CASE k # Cardinality(T) - 1
  <2>1. T \ {m} \notin Bad
    BY <1>1, <1>5
  <2>2. k \in 0..(Cardinality(T \ {m}) - 1)
    BY <1>2, <1>3, <1>6, <1>8
  <2>3. PICK x \in T \ {m} : Cardinality(RowsBefore(T \ {m}, f, x)) = k
    BY <1>6, <2>1, <2>2 DEF Bad
  <2>4. RowsBefore(T \ {m}, f, x) = RowsBefore(T, f, x)
    <3>1. f[m] \in Int /\ f[x] \in Int /\ f[x] <= f[m]
      BY <1>3, <1>5
    <3>. QED
      BY <3>1 DEF RowsBefore
  <2>5. Cardinality(RowsBefore(T, f, x)) = k
    BY <2>3, <2>4, Zenon
  <2>. QED
    BY <1>2, <2>5
<1>. QED
  BY <1>7, <1>8

---------------------------------------------------------------------------
(* CatalogMatchesUrl, for any products, addresses and answers of the two   *)
(* engines.                                                                *)

AddressShape == [filters : Filters, page : Nat \ {0}]

\* What the shopper asks for, and whether PostgreSQL overlooks some of it.
Matching(filters) == {g \in Shown : Satisfies(g, filters)}

Overlooked(filters) ==
    filters.maxPrice # Unset /\ \E g \in Matching(filters) : Traits[g].type = "AUCTION"

\* The pages that the number of matching products makes.
PageReached(a) ==
    a.page <= TotalPages(Cardinality(Matching(a.filters))) \/ Overlooked(a.filters)

\* Division with a remainder.
LEMMA Division ==
    ASSUME NEW m \in Nat, NEW d \in Nat \ {0}
    PROVE  m \div d \in Nat /\ m = d * (m \div d) + (m % d) /\ m % d \in 0..(d - 1)
<1> DEFINE q == m \div d
           r == m % d
<1>1. q \in Nat /\ r \in 0..(d - 1) /\ m = d * q + r
  BY SMT
<1>. QED
  BY <1>1, Zenon

\* A number of products makes one page at least, and on each of the pages the
\* first product is one of them.
LEMMA PagesOfTotal ==
    ASSUME NEW n \in Nat
    PROVE  /\ TotalPages(n) \in Nat \ {0}
           /\ \A p \in 1..TotalPages(n) :
                n # 0 => /\ (p - 1) * PageSize \in 0..(n - 1)
                         /\ ((p - 1) * PageSize) \div PageSize + 1 = p
<1>0. PageSize \in Nat \ {0}
  BY BrowsingShape
<1> DEFINE q == (n + PageSize - 1) \div PageSize
<1>1. CASE n = 0
  BY <1>1 DEF TotalPages
<1>2. CASE n # 0
  <2>1. TotalPages(n) = q
    BY <1>2 DEF TotalPages
  <2>2. PICK r \in 0..(PageSize - 1) : n + PageSize - 1 = PageSize * q + r /\ q \in Nat
    <3>0. n + PageSize - 1 \in Nat
      BY <1>0
    <3>1. \A m \in Nat : /\ m \div PageSize \in Nat
                          /\ m = PageSize * (m \div PageSize) + (m % PageSize)
                          /\ m % PageSize \in 0..(PageSize - 1)
      BY <1>0, Division
    <3>2. PICK m \in Nat : m = n + PageSize - 1
      BY <3>0
    <3>3. q = m \div PageSize
      BY <3>2
    <3> HIDE DEF q
    <3>. QED
      BY <3>1, <3>2, <3>3
  <2> HIDE DEF q
  <2>3. q # 0
    BY <1>0, <1>2, <2>2
  <2>4. ASSUME NEW p \in 1..q
        PROVE  (p - 1) * PageSize \in 0..(n - 1) /\ ((p - 1) * PageSize) \div PageSize + 1 = p
    <3>0. p - 1 \in Nat /\ q - 1 \in Nat /\ p - 1 <= q - 1
      BY <2>2, <2>4
    <3>1. (p - 1) * PageSize <= (q - 1) * PageSize
      BY <1>0, <3>0, ProductMonotone
    <3>2. (q - 1) * PageSize = PageSize * q - PageSize
      BY <1>0, <2>2, SMT
    <3>3. (p - 1) * PageSize \in Nat
      BY <1>0, <3>0, SMT
    <3>4. ((p - 1) * PageSize) \div PageSize = p - 1
      BY <1>0, <3>0, SMT
    <3>. QED
      BY <1>0, <2>2, <3>0, <3>1, <3>2, <3>3, <3>4
  <2>. QED
    BY <2>1, <2>2, <2>3, <2>4
<1>. QED
  BY <1>1, <1>2

\* The page of an answer that is not past its last one shows a product.
LEMMA PageNotEmpty ==
    ASSUME NEW matches, matches \subseteq Shown, NEW order \in {"relevance", "newest"},
           NEW p \in 1..TotalPages(Cardinality(matches)), matches # {}
    PROVE  Slice(matches, p, order) # {}
<1> DEFINE f == [g \in Shown |-> Traits[g][order]]
<1>1. IsFiniteSet(matches) /\ Cardinality(matches) \in Nat \ {0}
  BY TraitsShape, FS_Subset, FS_CardinalityType, FS_EmptySet
<1>2. /\ \A g \in matches : f[g] \in Int
      /\ \A g, h \in matches : f[g] = f[h] => g = h
  BY TraitsShape
<1>3. /\ (p - 1) * PageSize \in 0..(Cardinality(matches) - 1)
      /\ ((p - 1) * PageSize) \div PageSize + 1 = p
  BY <1>1, PagesOfTotal
<1> HIDE DEF f
<1>4. PICK n \in 0..(Cardinality(matches) - 1) : n \div PageSize + 1 = p
  <2> USE <1>3
  <2> WITNESS (p - 1) * PageSize \in 0..(Cardinality(matches) - 1)
  <2>. QED
    OBVIOUS
<1>5. PICK g \in matches : Cardinality(RowsBefore(matches, f, g)) = n
  BY <1>1, <1>2, <1>4, PlaceTaken
<1>6. RowsBefore(matches, f, g) = {h \in matches : Traits[h][order] < Traits[g][order]}
  BY DEF f, RowsBefore
<1>7. Cardinality({h \in matches : Traits[h][order] < Traits[g][order]}) = n
  BY <1>5, <1>6, Zenon
<1>8. g \in Slice(matches, p, order)
  BY <1>4, <1>7, Zenon DEF Slice
<1>. QED
  BY <1>8

\* What is passed on of an address asks for the same products.
LEMMA QueryAsksTheSame ==
    ASSUME NEW a \in AddressShape
    PROVE  /\ QueryOf(a) \in AddressShape /\ QueryOf(a).page = a.page
           /\ QueryOf(a).filters.available \in {Unset, "true"}
           /\ QueryOf(a).filters.maxPrice = a.filters.maxPrice
           /\ Matching(QueryOf(a).filters) = Matching(a.filters)
<1> DEFINE q == QueryOf(a)
<1>1. a.filters \in Filters /\ a.page \in Nat \ {0}
  BY DEF AddressShape
<1>2. /\ q = [a EXCEPT !.filters = [a.filters EXCEPT !.available =
                    IF a.filters.available = "true" THEN "true" ELSE Unset]]
  BY DEF QueryOf, AddressShape, Filters
<1> HIDE DEF q
<1>3. /\ q.page = a.page
      /\ q.filters = [a.filters EXCEPT !.available =
                    IF a.filters.available = "true" THEN "true" ELSE Unset]
      /\ q = [filters |-> q.filters, page |-> q.page]
  BY <1>2 DEF AddressShape
<1>4. /\ q.filters \in Filters
      /\ q.filters.available = IF a.filters.available = "true" THEN "true" ELSE Unset
      /\ q.filters.type = a.filters.type /\ q.filters.maxPrice = a.filters.maxPrice
  BY <1>1, <1>3 DEF Filters
<1>5. \A g : Satisfies(g, q.filters) <=> Satisfies(g, a.filters)
  BY <1>4, BrowsingShape DEF Satisfies
<1>6. Matching(q.filters) = Matching(a.filters)
  BY <1>5 DEF Matching
<1>7. q \in AddressShape
  BY <1>1, <1>3, <1>4 DEF AddressShape
<1>. QED
  BY <1>3, <1>4, <1>6, <1>7 DEF q

\* The index finds what is asked for; PostgreSQL finds nothing else, and all of
\* it unless it overlooks an auction.
LEMMA EnginesFind ==
    ASSUME NEW a \in AddressShape
    PROVE  LET filters == QueryOf(a).filters
           IN  /\ BuildFilter(filters) = Matching(a.filters)
               /\ FallbackWhere(filters) \subseteq Matching(a.filters)
               /\ FallbackWhere(filters) = Matching(a.filters) \/ Overlooked(a.filters)
<1> DEFINE filters == QueryOf(a).filters
<1>1. /\ filters.available \in {Unset, "true"} /\ filters.maxPrice = a.filters.maxPrice
      /\ Matching(filters) = Matching(a.filters)
  BY QueryAsksTheSame
<1> HIDE DEF filters
<1>2. BuildFilter(filters) = Matching(filters)
  BY <1>1, BrowsingShape DEF BuildFilter, Matching, Satisfies
<1>3. FallbackWhere(filters) \subseteq BuildFilter(filters)
  BY TraitsShape DEF FallbackWhere, BuildFilter, Below, DocumentPrice
<1>4. ASSUME ~Overlooked(a.filters) PROVE BuildFilter(filters) \subseteq FallbackWhere(filters)
  <2> SUFFICES ASSUME NEW g \in BuildFilter(filters) PROVE g \in FallbackWhere(filters)
    OBVIOUS
  <2>1. filters.maxPrice = Unset \/ Traits[g].type # "AUCTION"
    BY <1>1, <1>2, <1>4 DEF Overlooked
  <2>. QED
    BY <2>1, TraitsShape DEF FallbackWhere, BuildFilter, Below, DocumentPrice
<1>. QED
  BY <1>1, <1>2, <1>3, <1>4 DEF filters

\* What the answer of an engine says of the address it was asked for.
LEMMA EngineSays ==
    ASSUME NEW a \in AddressShape,
           NEW matches \in {BuildFilter(QueryOf(a).filters), FallbackWhere(QueryOf(a).filters)},
           NEW order \in {"relevance", "newest"},
           NEW facets \in {FacetsOf(matches), {}},
           NEW answer, answer = AnswerFor(QueryOf(a), matches, order, facets)
    PROVE  LET n == Cardinality(Matching(a.filters))
           IN  /\ answer.query = QueryOf(a)
               /\ answer.products \subseteq Matching(a.filters)
               /\ n \in Nat /\ answer.total \in 0..n
               /\ answer.total < n => Overlooked(a.filters)
               /\ answer.totalPages = TotalPages(answer.total)
               /\ answer.products = {} /\ answer.total # 0
                    => ~(a.page <= TotalPages(answer.total))
               /\ \A facet \in answer.facets :
                    \/ facet[1] = "type" /\ facet[2] \in {"AUCTION", "FIXED_PRICE"}
                    \/ facet[1] = "available" /\ facet[2] \in {"true", "false"}
<1> DEFINE q == QueryOf(a)
<1>1. /\ answer = AnswerFor(q, matches, order, facets)
      /\ facets \in {FacetsOf(matches), {}}
      /\ matches \in {BuildFilter(q.filters), FallbackWhere(q.filters)}
  OBVIOUS
<1>2. /\ q.page = a.page /\ a.page \in Nat \ {0}
      /\ matches \subseteq Matching(a.filters)
      /\ matches = Matching(a.filters) \/ Overlooked(a.filters)
  BY <1>1, QueryAsksTheSame, EnginesFind DEF AddressShape
<1> HIDE DEF q
<1>3. /\ answer.query = q /\ answer.products = Slice(matches, q.page, order)
      /\ answer.total = Cardinality(matches)
      /\ answer.totalPages = TotalPages(Cardinality(matches))
      /\ answer.facets = facets
  BY <1>1 DEF AnswerFor
<1>4. Matching(a.filters) \subseteq Shown
  BY DEF Matching
<1>5. /\ IsFiniteSet(Matching(a.filters)) /\ IsFiniteSet(matches)
      /\ Cardinality(Matching(a.filters)) \in Nat /\ Cardinality(matches) \in Nat
      /\ Cardinality(matches) <= Cardinality(Matching(a.filters))
  BY <1>2, <1>4, TraitsShape, FS_Subset, FS_CardinalityType
<1>6. Cardinality(matches) < Cardinality(Matching(a.filters)) => Overlooked(a.filters)
  BY <1>2, <1>5
<1>7. answer.products \subseteq Matching(a.filters)
  BY <1>2, <1>3 DEF Slice
<1>8. ASSUME answer.products = {}, answer.total # 0, a.page <= TotalPages(answer.total)
      PROVE  FALSE
  <2>1. matches # {}
    BY <1>3, <1>8, FS_EmptySet
  <2>2. a.page \in 1..TotalPages(Cardinality(matches))
    BY <1>2, <1>3, <1>5, <1>8, PagesOfTotal
  <2>. QED
    BY <1>2, <1>3, <1>4, <1>8, <2>1, <2>2, PageNotEmpty
<1>9. ASSUME NEW facet \in answer.facets
      PROVE  \/ facet[1] = "type" /\ facet[2] \in {"AUCTION", "FIXED_PRICE"}
             \/ facet[1] = "available" /\ facet[2] \in {"true", "false"}
  <2>1. facet \in FacetsOf(matches)
    BY <1>1, <1>3
  <2>2. matches \subseteq Shown
    BY <1>2, <1>4
  <2>. QED
    BY <2>1, <2>2, TraitsShape DEF FacetsOf
<1>. QED
  BY <1>3, <1>5, <1>6, <1>7, <1>8, <1>9 DEF q

\* searchCatalog answers with either.
LEMMA AnswerSays ==
    ASSUME NEW a \in AddressShape, NEW answer \in SearchCatalog(QueryOf(a))
    PROVE  LET n == Cardinality(Matching(a.filters))
           IN  /\ answer.query = QueryOf(a)
               /\ answer.products \subseteq Matching(a.filters)
               /\ n \in Nat /\ answer.total \in 0..n
               /\ answer.total < n => Overlooked(a.filters)
               /\ answer.totalPages = TotalPages(answer.total)
               /\ answer.products = {} /\ answer.total # 0
                    => ~(a.page <= TotalPages(answer.total))
               /\ \A facet \in answer.facets :
                    \/ facet[1] = "type" /\ facet[2] \in {"AUCTION", "FIXED_PRICE"}
                    \/ facet[1] = "available" /\ facet[2] \in {"true", "false"}
<1> DEFINE q == QueryOf(a)
           found == BuildFilter(q.filters)
           rows == FallbackWhere(q.filters)
<1>1. CASE answer = SearchMeilisearch(q)
  <2>1. answer = AnswerFor(q, found, "relevance", FacetsOf(found))
    BY <1>1, Zenon DEF SearchMeilisearch
  <2>. QED
    BY <2>1, EngineSays
<1>2. CASE answer = SearchFallback(q)
  <2>1. answer = AnswerFor(q, rows, "newest", {})
    BY <1>2, Zenon DEF SearchFallback
  <2>. QED
    BY <2>1, EngineSays
<1>. QED
  BY <1>1, <1>2 DEF SearchCatalog

\* The answer on the screen was asked for by an address; unless one is awaited,
\* by the one on the screen. While the shopper keeps to what the buttons make
\* of an answer, the address has the filters that were chosen, and a page that
\* the number of products reaches.
AnswerKnown ==
    onScreen # NoAnswer =>
        \E a \in AddressShape :
            /\ onScreen \in SearchCatalog(QueryOf(a))
            /\ ~awaited => QueryOf(a) = QueryOf(rendered)

AddressChosen == ~strayed => url.filters = wanted /\ PageReached(url)

BrowsingInv ==
    /\ url \in AddressShape /\ rendered \in AddressShape /\ wanted \in Filters
    /\ AnswerKnown /\ AddressChosen

\* The first page is always reached.
LEMMA FirstPageReached ==
    ASSUME NEW filters
    PROVE  PageReached(Address(filters, 1))
<1> DEFINE S == Matching(filters)
<1>1. Cardinality(S) \in Nat
  BY TraitsShape, FS_Subset, FS_CardinalityType DEF Matching
<1>2. 1 <= TotalPages(Cardinality(S))
  BY <1>1, PagesOfTotal
<1>. QED
  BY <1>2 DEF PageReached, Address

LEMMA BrowsingInvHolds == BrowsingInit => BrowsingInv
<1> SUFFICES ASSUME BrowsingInit PROVE BrowsingInv
  OBVIOUS
<1>1. NoFilters \in Filters /\ Address(NoFilters, 1) \in AddressShape
  BY DEF NoFilters, Filters, Address, AddressShape
<1>2. AnswerKnown
  BY DEF BrowsingInit, AnswerKnown
<1>3. AddressChosen
  BY FirstPageReached DEF BrowsingInit, AddressChosen, Address
<1>. QED
  BY <1>1, <1>2, <1>3 DEF BrowsingInit, BrowsingInv

LEMMA SetParamKeeps ==
    ASSUME BrowsingInv, NEW key, NEW value, SetParam(key, value),
           [rendered.filters EXCEPT ![key] = value] \in Filters,
           [wanted EXCEPT ![key] = value] \in Filters
    PROVE  BrowsingInv'
<1> DEFINE filters == [rendered.filters EXCEPT ![key] = value]
<1>1. url' = Address(filters, 1) /\ wanted' = [wanted EXCEPT ![key] = value]
  BY DEF SetParam
<1>2. url' \in AddressShape /\ rendered' \in AddressShape /\ wanted' \in Filters
  BY <1>1 DEF SetParam, BrowsingInv, Address, AddressShape
<1>3. AnswerKnown'
  BY DEF BrowsingInv, AnswerKnown, SetParam
<1>4. AddressChosen'
  <2> SUFFICES ASSUME ~strayed' PROVE url'.filters = wanted' /\ PageReached(url')
    BY DEF AddressChosen, PageReached, Matching, Overlooked
  <2>1. ~strayed /\ url = rendered
    BY DEF SetParam, Rerendering
  <2>2. url.filters = wanted
    BY <2>1 DEF BrowsingInv, AddressChosen
  <2>. QED
    BY <1>1, <2>1, <2>2, FirstPageReached DEF Address
<1>. QED
  BY <1>2, <1>3, <1>4 DEF BrowsingInv

LEMMA BrowsingStep == BrowsingInv /\ [BrowsingNext]_browsingVars => BrowsingInv'
<1> SUFFICES ASSUME BrowsingInv, [BrowsingNext]_browsingVars PROVE BrowsingInv'
  OBVIOUS
<1>0. /\ url \in AddressShape /\ rendered \in AddressShape /\ wanted \in Filters
      /\ rendered.filters \in Filters /\ rendered.page \in Nat \ {0}
      /\ AnswerKnown /\ AddressChosen
  BY DEF BrowsingInv, AddressShape
<1>1. CASE ClickFacet
  <2>1. PICK facet \in onScreen.facets :
          SetParam(facet[1], IF rendered.filters[facet[1]] = facet[2] THEN Unset ELSE facet[2])
    BY <1>1 DEF ClickFacet
  <2>2. \/ facet[1] = "type" /\ facet[2] \in {"AUCTION", "FIXED_PRICE"}
        \/ facet[1] = "available" /\ facet[2] \in {"true", "false"}
    BY <1>0, <1>1, AnswerSays DEF ClickFacet, AnswerKnown
  <2> DEFINE value == IF rendered.filters[facet[1]] = facet[2] THEN Unset ELSE facet[2]
  <2>3. \/ facet[1] = "type" /\ value \in {Unset, "AUCTION", "FIXED_PRICE"}
        \/ facet[1] = "available" /\ value \in {Unset, "true", "false"}
    BY <2>2
  <2> HIDE DEF value
  <2>4. \A filters \in Filters : [filters EXCEPT ![facet[1]] = value] \in Filters
    BY <2>3 DEF Filters
  <2>. QED
    BY <1>0, <2>1, <2>4, SetParamKeeps DEF value
<1>2. CASE LeavePrice
  <2>1. PICK price \in {Unset, 1} : SetParam("maxPrice", price)
    BY <1>2 DEF LeavePrice
  <2>2. \A filters \in Filters : [filters EXCEPT !["maxPrice"] = price] \in Filters
    BY DEF Filters
  <2>. QED
    BY <1>0, <2>1, <2>2, SetParamKeeps
<1>3. CASE ClearFilters
  <2>1. NoFilters \in Filters /\ url' = Address(NoFilters, 1) /\ wanted' = NoFilters
    BY <1>3 DEF ClearFilters, NoFilters, Filters
  <2>2. url' \in AddressShape /\ url'.filters = NoFilters
    BY <2>1 DEF Address, AddressShape
  <2>3. AnswerKnown'
    BY <1>0, <1>3 DEF AnswerKnown, ClearFilters
  <2>4. AddressChosen'
    BY <2>1, <2>2, FirstPageReached DEF AddressChosen, PageReached, Matching, Overlooked
  <2>. QED
    BY <1>0, <1>3, <2>1, <2>2, <2>3, <2>4 DEF BrowsingInv, ClearFilters
<1>4. CASE SetPage
  <2>1. PICK chosen \in Pages \cap {rendered.page - 1, rendered.page + 1} :
          /\ chosen > rendered.page => rendered.page # onScreen.totalPages
          /\ url' = Address(rendered.filters, chosen)
    BY <1>4 DEF SetPage
  <2>2. /\ chosen \in Nat \ {0} /\ url' \in AddressShape
        /\ url'.filters = rendered.filters /\ url'.page = chosen
    BY <1>0, <2>1 DEF Pages, Address, AddressShape
  <2>3. AnswerKnown'
    BY <1>0, <1>4 DEF AnswerKnown, SetPage
  <2>4. AddressChosen'
    <3> SUFFICES ASSUME ~strayed', ~Overlooked(rendered.filters)
                 PROVE  /\ rendered.filters = wanted
                        /\ chosen <= TotalPages(Cardinality(Matching(rendered.filters)))
      <4>1. CASE ~strayed'
        <5>1. rendered.filters = wanted
          BY <1>0, <1>4, <4>1 DEF SetPage, Rerendering, AddressChosen
        <5>2. wanted' = wanted
          BY <1>4 DEF SetPage
        <5>. QED
          BY <2>2, <4>1, <5>1, <5>2 DEF AddressChosen, PageReached, Matching, Overlooked
      <4>. QED
        BY <4>1 DEF AddressChosen
    <3>1. /\ ~strayed /\ url = rendered /\ onScreen.query = QueryOf(rendered)
          /\ onScreen # NoAnswer
      BY <1>4 DEF SetPage, Rerendering
    <3>2. rendered.filters = wanted /\ PageReached(rendered)
      BY <1>0, <3>1 DEF AddressChosen
    <3> DEFINE n == Cardinality(Matching(rendered.filters))
    <3>3. PICK a \in AddressShape : onScreen \in SearchCatalog(QueryOf(a))
      BY <1>0, <3>1 DEF AnswerKnown
    <3>4. QueryOf(a) = QueryOf(rendered)
      BY <3>1, <3>3, AnswerSays
    <3>5. onScreen \in SearchCatalog(QueryOf(rendered))
      BY <3>3, <3>4
    <3>6. n \in Nat /\ onScreen.total = n /\ onScreen.totalPages = TotalPages(n)
      BY <1>0, <3>5, AnswerSays
    <3>7. rendered.page <= TotalPages(n) /\ TotalPages(n) \in Nat
      BY <3>2, <3>6, PagesOfTotal DEF PageReached
    <3> HIDE DEF n
    <3>8. chosen <= TotalPages(n)
      BY <1>0, <2>1, <2>2, <3>6, <3>7
    <3>. QED
      BY <3>2, <3>8 DEF n
  <2>. QED
    BY <1>0, <1>4, <2>2, <2>3, <2>4 DEF BrowsingInv, SetPage
<1>5. ASSUME NEW address \in Links, Visit(address) PROVE BrowsingInv'
  <2>1. address \in AddressShape /\ address.filters \in Filters
    BY BrowsingShape DEF AddressShape
  <2>2. AnswerKnown'
    BY <1>0, <1>5 DEF AnswerKnown, Visit
  <2>3. AddressChosen'
    <3> SUFFICES ASSUME address.page = 1 PROVE PageReached(address)
      BY <1>5 DEF Visit, AddressChosen, PageReached, Matching, Overlooked
    <3>1. address = Address(address.filters, 1)
      BY <2>1 DEF AddressShape, Address
    <3>. QED
      BY <3>1, FirstPageReached
  <2>. QED
    BY <1>0, <1>5, <2>1, <2>2, <2>3 DEF BrowsingInv, Visit
<1>6. CASE Render
  <2>1. rendered' = url /\ url' = url /\ wanted' = wanted /\ strayed' = strayed
    BY <1>6 DEF Render
  <2>2. AddressChosen'
    BY <1>0, <2>1 DEF AddressChosen, PageReached, Matching, Overlooked
  <2>3. AnswerKnown'
    BY <1>0, <1>6, <2>1 DEF AnswerKnown, Render
  <2>. QED
    BY <1>0, <2>1, <2>2, <2>3 DEF BrowsingInv
<1>7. CASE ReceiveAnswer
  <2>1. AnswerKnown'
    BY <1>0, <1>7 DEF AnswerKnown, ReceiveAnswer
  <2>. QED
    BY <1>0, <1>7, <2>1
       DEF BrowsingInv, ReceiveAnswer, AddressChosen, PageReached, Matching, Overlooked
<1>8. CASE FailAnswer
  BY <1>0, <1>8
     DEF BrowsingInv, FailAnswer, AnswerKnown, AddressChosen, PageReached, Matching, Overlooked
<1>9. CASE AskAgain
  BY <1>0, <1>9
     DEF BrowsingInv, AskAgain, AnswerKnown, AddressChosen, PageReached, Matching, Overlooked
<1>10. CASE UNCHANGED browsingVars
  BY <1>0, <1>10
     DEF BrowsingInv, browsingVars, AnswerKnown, AddressChosen, PageReached, Matching,
         Overlooked
<1>. QED
  BY <1>1, <1>2, <1>3, <1>4, <1>5, <1>6, <1>7, <1>8, <1>9, <1>10 DEF BrowsingNext

LEMMA BrowsingSuffices == BrowsingInv => CatalogMatchesUrl
<1> SUFFICES ASSUME BrowsingInv, ~Rerendering, ~awaited, onScreen # NoAnswer
             PROVE  LET matching == Matching(url.filters)
                    IN  /\ onScreen.query = QueryOf(url)
                        /\ onScreen.products \subseteq matching
                        /\ onScreen.total <= Cardinality(matching)
                        /\ onScreen.total < Cardinality(matching) => Unseen(matching)
                        /\ ~strayed =>
                            /\ url.filters = wanted
                            /\ onScreen.products = {} => onScreen.total = 0 \/ Unseen(matching)
  BY DEF CatalogMatchesUrl, Matching
<1>1. url \in AddressShape /\ url = rendered /\ AddressChosen
  BY DEF BrowsingInv, Rerendering
<1>2. onScreen \in SearchCatalog(QueryOf(url))
  BY <1>1 DEF BrowsingInv, AnswerKnown
<1> DEFINE n == Cardinality(Matching(url.filters))
<1>3. /\ onScreen.query = QueryOf(url)
      /\ onScreen.products \subseteq Matching(url.filters)
      /\ n \in Nat /\ onScreen.total \in 0..n
      /\ onScreen.total < n => Overlooked(url.filters)
      /\ onScreen.products = {} /\ onScreen.total # 0
           => ~(url.page <= TotalPages(onScreen.total))
  BY <1>1, <1>2, AnswerSays
<1> HIDE DEF n
<1>4. Overlooked(url.filters) <=> Unseen(Matching(url.filters))
  BY DEF Overlooked, Unseen
<1>5. ASSUME ~strayed, onScreen.products = {}, onScreen.total # 0
      PROVE  Overlooked(url.filters)
  <2>1. url.page <= TotalPages(n) \/ Overlooked(url.filters)
    BY <1>1, <1>5 DEF AddressChosen, PageReached, n
  <2>2. onScreen.total = n \/ Overlooked(url.filters)
    BY <1>3
  <2>. QED
    BY <1>3, <1>5, <2>1, <2>2
<1>. QED
  BY <1>1, <1>3, <1>4, <1>5 DEF AddressChosen, n

\* A catalog page shows products of its address, and the address is the one
\* that was chosen, whatever is clicked while an answer or a rendering is due.
THEOREM CatalogMatchesUrlCorrect == BrowsingSpec => []CatalogMatchesUrl
<1>1. BrowsingInv /\ [BrowsingNext]_browsingVars => BrowsingInv'
  BY BrowsingStep
<1>. QED
  BY BrowsingInvHolds, <1>1, BrowsingSuffices, PTL DEF BrowsingSpec

---------------------------------------------------------------------------
(* MoneyExact, for every amount, share and rate.                           *)

\* An amount, a part of it and a rate.
MoneyInv ==
    /\ cents \in Nat /\ total \in Nat /\ cents <= total
    /\ rate \in 0..10000

LEMMA MoneyInvHolds == MoneyInit => MoneyInv
  BY MoneyShape DEF MoneyInit, MoneyInv

LEMMA MoneyStep == MoneyInv /\ [MoneyNext]_moneyVars => MoneyInv'
<1> SUFFICES ASSUME MoneyInv, [MoneyNext]_moneyVars PROVE MoneyInv'
  OBVIOUS
<1>1. CASE total' = total + 1 /\ UNCHANGED <<cents, rate>>
  BY <1>1 DEF MoneyInv
<1>2. CASE cents < total /\ cents' = cents + 1 /\ UNCHANGED <<total, rate>>
  BY <1>2 DEF MoneyInv
<1>3. CASE UNCHANGED moneyVars
  BY <1>3 DEF MoneyInv, moneyVars
<1>. QED
  BY <1>1, <1>2, <1>3 DEF MoneyNext

\* formatCentsToMoney writes the whole amount and both digits.
LEMMA FormatThenParse ==
    ASSUME NEW c \in Int
    PROVE  ParseMoneyToCents(FormatCentsToMoney(c)) = c
<1> DEFINE abs == IF c < 0 THEN -c ELSE c
           tens == (abs % 100) \div 10
           d == FormatCentsToMoney(c)
<1>1. abs \in Nat
  OBVIOUS
<1>2. /\ d.negative = (c < 0) /\ d.whole = abs \div 100
      /\ Len(d.fraction) = 2 /\ d.fraction[1] = tens /\ d.fraction[2] = abs % 10
  BY DEF FormatCentsToMoney
<1> HIDE DEF d
<1>3. abs = 100 * (abs \div 100) + 10 * tens + (abs % 10)
  <2> HIDE DEF abs
  <2>. QED
    BY <1>1
<1> HIDE DEF tens
<1>4. FractionCents(d.fraction) = 10 * tens + (abs % 10)
  BY <1>2 DEF FractionCents
<1>5. ParseMoneyToCents(d) = IF c < 0 THEN -abs ELSE abs
  <2>1. 100 * d.whole + FractionCents(d.fraction) = abs
    <3>1. tens \in Int /\ abs % 10 \in Int /\ abs \div 100 \in Int
      BY <1>1 DEF tens
    <3> HIDE DEF abs
    <3>. QED
      BY <1>1, <1>2, <1>3, <1>4, <3>1
  <2>2. ParseMoneyToCents(d) = IF d.negative THEN -abs ELSE abs
    <3> HIDE DEF abs
    <3>1. ~(Len(d.fraction) > 2)
      BY <1>2
    <3>. QED
      BY <2>1, <3>1, Zenon DEF ParseMoneyToCents
  <2>. QED
    BY <1>2, <2>2, Zenon
<1>. QED
  BY <1>5 DEF d

\* roundHalfUpDivide returns the nearest whole, a tie upwards.
LEMMA RoundedIsNearest ==
    ASSUME NEW n \in Nat, NEW d \in Nat \ {0}
    PROVE  /\ RoundHalfUpDivide(n, d) \in Nat
           /\ IsNearest(RoundHalfUpDivide(n, d), n, d)
<1> DEFINE q == n \div d
           r == n % d
<1>1. q \in Nat /\ r \in 0..(d - 1) /\ n = d * q + r
  BY SMT
<1>2. RoundHalfUpDivide(n, d) = IF r * 2 >= d THEN q + 1 ELSE q
  BY DEF RoundHalfUpDivide
<1> HIDE DEF q, r
<1>3. q * d = d * q /\ (q + 1) * d = d * q + d /\ d * q \in Nat
  BY <1>1, SMT
<1> DEFINE p == d * q
<1> HIDE DEF p
<1>4. CASE r * 2 >= d
  <2>1. RoundHalfUpDivide(n, d) = q + 1 /\ (q + 1) * d = p + d /\ n = p + r /\ p \in Nat
    BY <1>1, <1>2, <1>3, <1>4 DEF p
  <2>. QED
    BY <1>1, <1>4, <2>1 DEF IsNearest
<1>5. CASE ~(r * 2 >= d)
  <2>1. RoundHalfUpDivide(n, d) = q /\ q * d = p /\ n = p + r /\ p \in Nat
    BY <1>1, <1>2, <1>3, <1>5 DEF p
  <2>. QED
    BY <1>1, <1>5, <2>1 DEF IsNearest
<1>. QED
  BY <1>4, <1>5

\* A share and the rest of it, each rounded, make the whole up to a cent more.
LEMMA SharesMakeTheWhole ==
    ASSUME NEW a \in Nat, NEW b \in Nat, NEW whole \in Nat, NEW t \in Nat \ {0},
           NEW c \in 0..t, IsNearest(a, c * whole, t), IsNearest(b, (t - c) * whole, t)
    PROVE  a + b - whole \in 0..1
<1> DEFINE e == a + b - whole
           p == c * whole
           q == (t - c) * whole
           w == t * whole
<1>1. p \in Nat /\ q \in Nat /\ w \in Nat /\ p + q = w
  <2>1. t - c \in Nat /\ c \in Nat
    OBVIOUS
  <2>2. c * whole \in Nat /\ (t - c) * whole \in Nat /\ t * whole \in Nat
    BY <2>1, SMT
  <2>3. c * whole + (t - c) * whole = t * whole
    BY <2>1, SMT
  <2>. QED
    BY <2>2, <2>3
<1>2. a * t \in Nat /\ b * t \in Nat /\ e * t = a * t + b * t - w /\ e \in Int
  BY SMT
<1>3. /\ 2 * (a * t - p) <= t /\ 2 * (p - a * t) < t
      /\ 2 * (b * t - q) <= t /\ 2 * (q - b * t) < t
  BY DEF IsNearest
<1> DEFINE x == a * t
           y == b * t
           z == e * t
<1> HIDE DEF p, q, w, x, y, z
<1>4. x \in Nat /\ y \in Nat /\ z = x + y - w
  BY <1>2 DEF x, y, z
<1>5. /\ 2 * (x - p) <= t /\ 2 * (p - x) < t
      /\ 2 * (y - q) <= t /\ 2 * (q - y) < t
  BY <1>3 DEF x, y
<1>6. z <= t /\ -t < z
  BY <1>1, <1>4, <1>5
<1>7. ASSUME e >= 2 PROVE FALSE
  <2>1. e \in Nat /\ 2 * t <= e * t
    BY <1>2, <1>7, ProductMonotone
  <2> HIDE DEF e
  <2>. QED
    BY <1>6, <2>1 DEF z
<1>8. ASSUME e <= -1 PROVE FALSE
  <2>1. -e \in Nat /\ 1 <= -e
    BY <1>2, <1>8
  <2> HIDE DEF e
  <2>2. 1 * t <= (-e) * t
    BY <2>1, ProductMonotone
  <2>3. (-e) * t = -(e * t)
    BY <1>2, SMT
  <2>4. z \in Int
    BY <1>1, <1>4
  <2>. QED
    BY <1>6, <2>2, <2>3, <2>4 DEF z
<1>. QED
  BY <1>2, <1>7, <1>8

LEMMA MoneySuffices == MoneyInv => MoneyExact
<1> SUFFICES ASSUME MoneyInv PROVE MoneyExact
  OBVIOUS
<1>1. FormatParses
  <2>1. cents \in Int /\ cents - total \in Int
    BY DEF MoneyInv
  <2>. QED
    BY <2>1, FormatThenParse DEF FormatParses
<1> DEFINE commission == ApplyPercent(total, rate)
<1>2. commission \in Nat /\ IsNearest(commission, total * rate, 10000)
  <2>1. total * rate \in Nat
    BY SMT DEF MoneyInv
  <2>. QED
    BY <2>1, RoundedIsNearest DEF ApplyPercent
<1> HIDE DEF commission
<1>3. ASSUME NEW c \in 0..total, total > 0
      PROVE  /\ ApplyRatio(c, commission, total) \in Nat
             /\ IsNearest(ApplyRatio(c, commission, total), c * commission, total)
  <2>1. c * commission \in Nat
    BY <1>2, <1>3, SMT
  <2>2. ApplyRatio(c, commission, total) = RoundHalfUpDivide(c * commission, total)
    BY <1>3 DEF ApplyRatio
  <2>3. total \in Nat \ {0}
    BY <1>3 DEF MoneyInv
  <2>. QED
    BY <2>1, <2>2, <2>3, RoundedIsNearest
<1>4. SplitIsNearest
  BY <1>2, <1>3 DEF SplitIsNearest, MoneyInv, commission
<1>5. TwoRefundsDriftOneCent
  <2> SUFFICES ASSUME total > 0
               PROVE  ApplyRatio(cents, commission, total)
                        + ApplyRatio(total - cents, commission, total) - commission \in 0..1
    BY DEF TwoRefundsDriftOneCent, commission
  <2>1. cents \in 0..total /\ total - cents \in 0..total /\ total \in Nat \ {0}
    BY DEF MoneyInv
  <2> DEFINE a == ApplyRatio(cents, commission, total)
             b == ApplyRatio(total - cents, commission, total)
  <2>2. a \in Nat /\ IsNearest(a, cents * commission, total)
    BY <1>3, <2>1
  <2>3. b \in Nat /\ IsNearest(b, (total - cents) * commission, total)
    BY <1>3, <2>1
  <2> HIDE DEF a, b
  <2>4. a + b - commission \in 0..1
    <3>1. PICK t \in Nat \ {0} : t = total
      BY <2>1
    <3>2. PICK c \in 0..t : c = cents
      BY <2>1, <3>1
    <3>3. PICK w \in Nat : w = commission
      BY <1>2
    <3>4. IsNearest(a, c * w, t) /\ IsNearest(b, (t - c) * w, t)
      BY <2>2, <2>3, <3>1, <3>2, <3>3, Zenon
    <3>5. a + b - w \in 0..1
      BY <2>2, <2>3, <3>4, SharesMakeTheWhole
    <3>. QED
      BY <3>3, <3>5
  <2>. QED
    BY <2>4 DEF a, b
<1>. QED
  BY <1>1, <1>4, <1>5 DEF MoneyExact

\* The cents that are computed are the cents that are stored and given back,
\* for every amount, part and rate.
THEOREM MoneyExactCorrect == MoneySpec => []MoneyExact
  BY MoneyInvHolds, MoneyStep, MoneySuffices, PTL DEF MoneySpec

---------------------------------------------------------------------------
(* SettledPageIsCurrent, for any number of units, buttons, announcements   *)
(* and fetches.                                                            *)

\* Time goes up with every change that the services accept.
LEMMA ChangesAge ==
    ASSUME OrderPagesTypeOK, NEW asked \in Accepted, NEW o,
           o = [status |-> IF asked.units = 0 THEN asked.to ELSE sellerOrder.status,
                refunded |-> sellerOrder.refunded + asked.units]
    PROVE  /\ asked \in Asks /\ o \in OrderRows
           /\ Age(o) \in Nat /\ Age(sellerOrder) < Age(o)
<1>0. sellerOrder \in OrderRows /\ Sold \in Nat
  BY OrderPagesShape DEF OrderPagesTypeOK
<1>1. CASE asked \in Changes(sellerOrder)
  <2>1. /\ asked \in Asks /\ asked.units = 0
        /\ \/ sellerOrder.status = "AWAITING_FULFILLMENT" /\ asked.to \in {"PROCESSING", "CANCELLED"}
           \/ sellerOrder.status = "PROCESSING" /\ asked.to \in {"SHIPPED", "CANCELLED"}
           \/ sellerOrder.status = "SHIPPED" /\ asked.to = "DELIVERED"
    BY <1>0, <1>1 DEF Changes, StatusChange, NextStatus, IsCancellable, OrderRows, PageStatuses, Asks
  <2>2. o.status = asked.to /\ o.refunded = sellerOrder.refunded /\ o \in OrderRows
    BY <1>0, <2>1 DEF OrderRows, PageStatuses
  <2>. QED
    BY <1>0, <2>1, <2>2 DEF Age, OrderRows
<1>2. CASE asked \in [to : {"refunded"}, units : 1..(Sold - sellerOrder.refunded)]
  <2>1. /\ asked \in Asks /\ asked.units \in Nat \ {0}
        /\ o.status = sellerOrder.status /\ o.refunded = sellerOrder.refunded + asked.units
        /\ o \in OrderRows
    BY <1>0, <1>2 DEF Asks, OrderRows
  <2>. QED
    BY <1>0, <2>1 DEF Age, OrderRows, PageStatuses
<1>. QED
  BY <1>1, <1>2 DEF Accepted

\* A view is of the age of its order, and is neither a request nor nothing.
LEMMA ViewsAge ==
    ASSUME OrderPagesTypeOK
    PROVE  /\ View(sellerOrder) \in Views /\ Age(View(sellerOrder)) = Age(sellerOrder)
           /\ Blank \notin Views /\ Fetching \notin Views
           /\ Age(sellerOrder) \in Nat
           /\ \A v \in Views : Age(v) \in Nat
<1>0. sellerOrder \in OrderRows /\ Sold \in Nat /\ viewer \in Viewers
  BY OrderPagesShape DEF OrderPagesTypeOK
<1>1. /\ DeriveSellerOrderFinancialSummary(sellerOrder) \in Summaries
      /\ DeriveOrderFinancialSummary(sellerOrder) \in OrderSummaries
  BY <1>0 DEF OrderRows, Summaries, OrderSummaries, DeriveSellerOrderFinancialSummary,
              DeriveOrderFinancialSummary
<1>2. /\ View(sellerOrder) \in Views /\ View(sellerOrder).status = sellerOrder.status
      /\ View(sellerOrder).refunded = sellerOrder.refunded
  BY <1>0, <1>1 DEF Viewers, View, Views, OrderRows, CustomerOrderDetailView,
                    BuildSellerOrderDetailView, AdminOrderDetailView
<1>3. Age(View(sellerOrder)) = Age(sellerOrder)
  BY <1>2 DEF Age
<1>4. \A v : v.status \in PageStatuses /\ v.refunded \in 0..Sold => Age(v) \in Nat
  BY <1>0 DEF Age, PageStatuses
<1>5. \A v \in Views : v.status \in PageStatuses /\ v.refunded \in 0..Sold
  BY DEF Views
<1>6. Age(sellerOrder) \in Nat
  BY <1>0, <1>4 DEF OrderRows
<1>. QED
  BY <1>2, <1>3, <1>4, <1>5, <1>6, OrderPagesShape

\* A view of the order as it is or as it was.
Seen(v) == v \in Views /\ (v = View(sellerOrder) \/ Age(v) < Age(sellerOrder))

\* What waits for a button waits for one of the page's, and the page showed
\* something to ask it of; on the seller's page it is a change of status. An
\* answer is of a time that was.
FormSound(f) ==
    /\ f \in FormsOf(viewer) /\ copyOf # Blank
    /\ \/ /\ form[f] \in [stage : {"sent", "committed"}, asked : Asks]
          /\ f = "status" => form[f].asked.units = 0
       \/ form[f] \in [stage : {"answered"}, view : Views] /\ Seen(form[f].view)

\* A change is owed to the page: it is announced, or the administrator's page
\* is to be told by its own button to fetch again.
Owed ==
    \/ news > 0
    \/ viewer = "admin" /\ \E f \in Forms : form[f] # Blank /\ form[f].stage # "sent"

\* Unless the page has missed something, it has the order as it is, is about to
\* have it, or is owed the change.
Followed ==
    \/ unheard \/ Owed \/ load = Fetching
    \/ load = View(sellerOrder)
    \/ load = Blank /\ copyOf \in {Blank, View(sellerOrder)}

PageInv ==
    /\ OrderPagesTypeOK
    /\ \A f \in Forms : form[f] = Blank \/ FormSound(f)
    /\ Followed

LEMMA PageInvHolds == OrderPagesInit => PageInv
<1> SUFFICES ASSUME OrderPagesInit PROVE PageInv
  OBVIOUS
<1>1. sellerOrder \in OrderRows
  BY OrderPagesShape DEF OrderPagesInit, OrderRows, PageStatuses
<1>. QED
  BY <1>1 DEF OrderPagesInit, PageInv, OrderPagesTypeOK, Followed

LEMMA PageSuffices == PageInv => SettledPageIsCurrent
<1> SUFFICES ASSUME PageInv, PageSettled, ~unheard, copyOf # Blank
             PROVE  copyOf = View(sellerOrder)
  BY DEF SettledPageIsCurrent
<1>1. ~Owed /\ load # Fetching
  BY OrderPagesShape DEF Owed, PageSettled
<1>2. load # View(sellerOrder)
  BY ViewsAge DEF PageInv, PageSettled
<1>. QED
  BY <1>1, <1>2 DEF PageInv, Followed

\* A change of the order makes every view one of the past.
LEMMA ChangeKeeps ==
    ASSUME PageInv, NEW asked, NEW answered \in BOOLEAN, Change(asked, answered),
           form' \in [Forms -> FormStates \cup {Blank}],
           \A f \in Forms : \/ form'[f] = form[f]
                            \/ /\ FormSound(f) /\ form'[f].stage = "committed"
                               /\ form'[f] \in [stage : {"sent", "committed"}, asked : Asks]
                               /\ f = "status" => form'[f].asked.units = 0,
           \/ asked.units = 0 /\ Listens
           \/ ~answered
           \/ viewer = "admin" /\ \E f \in Forms : form'[f] # Blank /\ form'[f].stage # "sent"
    PROVE  PageInv'
<1> DEFINE announced == asked.units = 0 /\ Listens
<1>0. OrderPagesTypeOK /\ viewer' = viewer /\ copyOf' = copyOf /\ load' = load
  BY DEF PageInv, Change
<1>1. /\ sellerOrder' \in OrderRows
      /\ Age(sellerOrder') \in Nat /\ Age(sellerOrder) < Age(sellerOrder')
  BY <1>0, ChangesAge DEF Change
<1>2. news' = (IF announced THEN news + 1 ELSE news) /\ unheard' = (unheard \/ ~(announced \/ answered))
  BY DEF Change
<1>3. news \in Nat /\ news' \in Nat /\ unheard' \in BOOLEAN
  BY <1>0, <1>2 DEF OrderPagesTypeOK
<1>4. OrderPagesTypeOK'
  BY <1>0, <1>1, <1>3 DEF OrderPagesTypeOK
<1>5. \A v : Seen(v) => Seen(v)'
  <2> SUFFICES ASSUME NEW v, Seen(v) PROVE v \in Views /\ Age(v) < Age(sellerOrder')
    BY DEF Seen, Age
  <2>1. Age(v) <= Age(sellerOrder) /\ Age(v) \in Nat /\ Age(sellerOrder) \in Nat
    BY <1>0, ViewsAge DEF Seen
  <2>. QED
    BY <1>1, <2>1 DEF Seen
<1>6. \A f \in Forms : form'[f] = Blank \/ FormSound(f)'
  BY <1>0, <1>5 DEF PageInv, FormSound
<1>7. Followed'
  <2>1. CASE announced
    BY <1>2, <1>3, <2>1 DEF Followed, Owed
  <2>2. CASE ~announced
    BY <1>0, <1>2, <2>2 DEF Followed, Owed
  <2>. QED
    BY <2>1, <2>2
<1>. QED
  BY <1>4, <1>6, <1>7 DEF PageInv

LEMMA PageStep == PageInv /\ [OrderPagesNext]_orderPagesVars => PageInv'
<1> SUFFICES ASSUME PageInv, [OrderPagesNext]_orderPagesVars PROVE PageInv'
  OBVIOUS
<1>0. /\ OrderPagesTypeOK /\ Followed
      /\ form \in [Forms -> FormStates \cup {Blank}]
      /\ \A f \in Forms : form[f] = Blank \/ FormSound(f)
      /\ View(sellerOrder) \in Views /\ Blank \notin Views /\ Fetching \notin Views
      /\ Blank \notin FormStates /\ Fetching # Blank
  BY ViewsAge, OrderPagesShape DEF PageInv, OrderPagesTypeOK
<1> DEFINE Same == UNCHANGED <<viewer, sellerOrder>>
<1>1. ASSUME Same PROVE View(sellerOrder)' = View(sellerOrder) /\ \A v : Seen(v) <=> Seen(v)'
  BY <1>1 DEF Seen, Age, View, CustomerOrderDetailView, BuildSellerOrderDetailView,
              AdminOrderDetailView, DeriveSellerOrderFinancialSummary,
              DeriveOrderFinancialSummary
\* What is asked for is something that the page's copy allows.
<1>2. ASSUME NEW f \in Forms, NEW asked \in Offered(f), Click(f, asked) PROVE PageInv'
  <2>1. /\ f \in FormsOf(viewer) /\ copyOf \in Views /\ copyOf # Blank
    BY <1>0, <1>2 DEF Offered, OrderPagesTypeOK
  <2>2. copyOf.status \in PageStatuses /\ copyOf.refunded \in 0..Sold
    BY <2>1 DEF Views
  <2>3. asked \in Asks /\ (f = "status" => asked.units = 0)
    <3>1. \A change \in Changes(copyOf) : change \in Asks /\ change.units = 0
      BY <2>2, OrderPagesShape DEF Changes, StatusChange, NextStatus, PageStatuses, Asks
    <3>2. \A change \in RefundOffered : change \in Asks
      BY <2>2, OrderPagesShape DEF RefundOffered, Asks
    <3>. QED
      BY <1>2, <2>1, <3>1, <3>2 DEF Offered, StatusOffered, CancelOffered, Forms
  <2>4. /\ form' = [form EXCEPT ![f] = [stage |-> "sent", asked |-> asked]]
        /\ [stage |-> "sent", asked |-> asked] \in FormStates
        /\ Same /\ UNCHANGED <<copyOf, load, news, unheard>>
    BY <1>2, <2>3 DEF Click, FormStates
  <2>5. OrderPagesTypeOK'
    BY <1>0, <2>4 DEF OrderPagesTypeOK
  <2>6. \A g \in Forms : form'[g] = Blank \/ FormSound(g)'
    BY <1>0, <1>1, <2>1, <2>3, <2>4 DEF FormSound
  <2>7. Followed'
    BY <1>0, <1>1, <1>2, <2>4 DEF Followed, Owed, Click
  <2>. QED
    BY <2>5, <2>6, <2>7 DEF PageInv
<1>3. ASSUME NEW f \in Forms, Commit(f) PROVE PageInv'
  <2>1. PICK asked \in Asks : form[f] = [stage |-> "sent", asked |-> asked]
    BY <1>0, <1>3 DEF Commit, FormStates
  <2>2. /\ FormSound(f) /\ (f = "status" => asked.units = 0)
        /\ form' = [form EXCEPT ![f] = [stage |-> "committed", asked |-> asked]]
        /\ [stage |-> "committed", asked |-> asked] \in FormStates
    <3> DEFINE sent == [stage |-> "sent", asked |-> asked]
               committed == [stage |-> "committed", asked |-> asked]
    <3>1. form[f] # Blank /\ form' = [form EXCEPT ![f].stage = "committed"]
      BY <1>3 DEF Commit
    <3>2. FormSound(f) /\ sent.asked = asked /\ sent.stage = "sent"
      BY <1>0, <3>1
    <3>3. f = "status" => asked.units = 0
      BY <2>1, <3>2 DEF FormSound
    <3>4. [sent EXCEPT !.stage = "committed"] = committed
      OBVIOUS
    <3>5. form' = [form EXCEPT ![f] = [sent EXCEPT !.stage = "committed"]]
      BY <2>1, <3>1
    <3>6. committed \in FormStates
      BY DEF FormStates
    <3>. QED
      BY <3>2, <3>3, <3>4, <3>5, <3>6, Zenon
  <2>3. (asked.units = 0 /\ Listens) \/ viewer = "admin"
    BY <1>0, <2>2 DEF FormSound, FormsOf, Listens, OrderPagesTypeOK, Viewers, Forms
  <2>4. Change(asked, TRUE)
    BY <1>3, <2>1 DEF Commit, Change
  <2> DEFINE committed == [stage |-> "committed", asked |-> asked]
  <2>5. /\ committed \in [stage : {"sent", "committed"}, asked : Asks] /\ committed # Blank
        /\ committed.asked = asked /\ committed.stage = "committed" /\ committed \in FormStates
    BY <1>0, <2>2
  <2> HIDE DEF committed
  <2>6. /\ form' \in [Forms -> FormStates \cup {Blank}] /\ form'[f] = committed
        /\ \A g \in Forms \ {f} : form'[g] = form[g]
    BY <1>0, <2>2, <2>5 DEF committed
  <2>7. /\ FormSound(f) /\ form'[f].stage = "committed"
        /\ form'[f] \in [stage : {"sent", "committed"}, asked : Asks]
        /\ f = "status" => form'[f].asked.units = 0
    BY <2>2, <2>5, <2>6
  <2>8. viewer = "admin" => \E g \in Forms : form'[g] # Blank /\ form'[g].stage # "sent"
    BY <2>5, <2>6
  <2>. QED
    BY <2>3, <2>4, <2>6, <2>7, <2>8, ChangeKeeps
<1>4. ASSUME NEW asked \in Accepted, ChangeElsewhere(asked) PROVE PageInv'
  BY <1>0, <1>4, ChangeKeeps DEF ChangeElsewhere
<1>5. ASSUME NEW f \in Forms, Answer(f) PROVE PageInv'
  <2>1. /\ FormSound(f) /\ form[f] # Blank /\ form[f].stage = "committed"
        /\ form' = [form EXCEPT ![f] = [stage |-> "answered", view |-> View(sellerOrder)]]
        /\ [stage |-> "answered", view |-> View(sellerOrder)] \in FormStates
        /\ Same /\ UNCHANGED <<copyOf, load, news, unheard>>
    BY <1>0, <1>5 DEF Answer, FormStates
  <2>2. OrderPagesTypeOK'
    BY <1>0, <2>1 DEF OrderPagesTypeOK
  <2>3. Seen(View(sellerOrder))
    BY <1>0 DEF Seen
  <2>4. \A g \in Forms : form'[g] = Blank \/ FormSound(g)'
    BY <1>0, <1>1, <2>1, <2>3 DEF FormSound
  <2>5. Followed'
    BY <1>0, <1>1, <2>1 DEF Followed, Owed
  <2>. QED
    BY <2>2, <2>4, <2>5 DEF PageInv
<1>6. ASSUME NEW f \in Forms, Succeed(f) PROVE PageInv'
  <2>1. /\ FormSound(f) /\ form[f] # Blank
        /\ form' = [form EXCEPT ![f] = Blank] /\ Same /\ news' = news
        /\ form[f].view \in Views /\ Seen(form[f].view)
    BY <1>0, <1>6 DEF Succeed, FormSound
  <2>2. CASE f = "status"
    <3>1. /\ copyOf' = form[f].view /\ load' = load /\ viewer # "admin" /\ copyOf # Blank
          /\ unheard' = (unheard \/ (copyOf # Blank /\ Age(form[f].view) < Age(copyOf)))
      BY <1>0, <1>6, <2>1, <2>2
         DEF Succeed, OnSuccess, SetQueryData, FormSound, FormsOf, OrderPagesTypeOK, Viewers
    <3>2. OrderPagesTypeOK'
      BY <1>0, <2>1, <3>1 DEF OrderPagesTypeOK
    <3>3. \A g \in Forms : form'[g] = Blank \/ FormSound(g)'
      BY <1>0, <1>1, <2>1, <3>1 DEF FormSound
    <3>4. CASE copyOf = View(sellerOrder) /\ form[f].view # View(sellerOrder)
      <4>1. Age(form[f].view) < Age(copyOf)
        BY <1>0, <2>1, <3>4, ViewsAge DEF Seen
      <4>. QED
        BY <3>1, <3>2, <3>3, <4>1 DEF PageInv, Followed
    <3>5. CASE copyOf # View(sellerOrder) \/ form[f].view = View(sellerOrder)
      BY <1>0, <1>1, <2>1, <3>1, <3>2, <3>3, <3>5 DEF PageInv, Followed, Owed
    <3>. QED
      BY <3>4, <3>5
  <2>3. CASE f # "status"
    <3>1. load' = Fetching /\ UNCHANGED <<copyOf, unheard>>
      BY <1>6, <2>3 DEF Succeed, OnSuccess
    <3>2. OrderPagesTypeOK'
      BY <1>0, <2>1, <3>1 DEF OrderPagesTypeOK
    <3>3. \A g \in Forms : form'[g] = Blank \/ FormSound(g)'
      BY <1>0, <1>1, <2>1, <3>1 DEF FormSound
    <3>. QED
      BY <3>1, <3>2, <3>3 DEF PageInv, Followed
  <2>. QED
    BY <2>2, <2>3
<1>7. ASSUME NEW f \in Forms, Refuse(f) \/ LoseAnswer(f) PROVE PageInv'
  <2>1. /\ form' = [form EXCEPT ![f] = Blank] /\ Same /\ UNCHANGED <<copyOf, load, news>>
        /\ \/ unheard' = unheard /\ form[f].stage = "sent"
           \/ unheard' = TRUE
    BY <1>0, <1>7 DEF Refuse, LoseAnswer, OrderPagesTypeOK
  <2>2. OrderPagesTypeOK'
    BY <1>0, <2>1 DEF OrderPagesTypeOK
  <2>3. \A g \in Forms : form'[g] = Blank \/ FormSound(g)'
    BY <1>0, <1>1, <2>1 DEF FormSound
  <2>4. Followed'
    BY <1>0, <1>1, <2>1 DEF Followed, Owed
  <2>. QED
    BY <2>2, <2>3, <2>4 DEF PageInv
<1>8. CASE OnOrderStatus \/ MissNews \/ Reload \/ ServeLoad \/ FailLoad
  <2>1. /\ Same /\ UNCHANGED <<copyOf, form>> /\ news' \in Nat /\ unheard' \in BOOLEAN
        /\ load' \in Views \cup {Fetching, Blank}
        /\ unheard' \/ load' = Fetching \/ load' = View(sellerOrder)
    <3>0. news \in Nat /\ unheard \in BOOLEAN /\ load \in Views \cup {Fetching, Blank}
      BY <1>0 DEF OrderPagesTypeOK
    <3>1. CASE OnOrderStatus
      <4>1. /\ Same /\ UNCHANGED <<copyOf, form>> /\ news' \in Nat
            /\ \/ load' = Fetching /\ UNCHANGED unheard
               \/ /\ UNCHANGED load
                  /\ unheard' = (unheard \/ load \notin {Fetching, View(sellerOrder)})
        BY <3>0, <3>1 DEF OnOrderStatus
      <4>2. CASE load' = Fetching /\ UNCHANGED unheard
        BY <3>0, <4>1, <4>2
      <4>3. CASE /\ UNCHANGED load
                 /\ unheard' = (unheard \/ load \notin {Fetching, View(sellerOrder)})
        <5>1. View(sellerOrder)' = View(sellerOrder)
          BY <4>1 DEF View
        <5>2. unheard' \in BOOLEAN /\ (unheard' \/ load \in {Fetching, View(sellerOrder)})
          BY <3>0, <4>3, Zenon
        <5>. QED
          BY <3>0, <4>1, <4>3, <5>1, <5>2
      <4>. QED
        BY <4>1, <4>2, <4>3
    <3>2. CASE MissNews
      BY <3>0, <3>2 DEF MissNews
    <3>3. CASE Reload
      BY <3>0, <3>3 DEF Reload
    <3>4. CASE ServeLoad
      BY <1>0, <3>0, <3>4 DEF ServeLoad
    <3>5. CASE FailLoad
      BY <3>0, <3>5 DEF FailLoad
    <3>. QED
      BY <1>8, <3>1, <3>2, <3>3, <3>4, <3>5
  <2>2. OrderPagesTypeOK'
    BY <1>0, <2>1 DEF OrderPagesTypeOK
  <2>3. \A g \in Forms : form'[g] = Blank \/ FormSound(g)'
    BY <1>0, <1>1, <2>1 DEF FormSound
  <2>. QED
    BY <1>1, <2>1, <2>2, <2>3 DEF PageInv, Followed
<1>9. CASE ReceiveLoad
  <2>1. /\ Same /\ UNCHANGED <<form, news, unheard>> /\ copyOf' = load /\ load' = Blank
        /\ load \in Views /\ load # Fetching
    BY <1>0, <1>9 DEF ReceiveLoad, OrderPagesTypeOK
  <2>2. OrderPagesTypeOK'
    BY <1>0, <2>1 DEF OrderPagesTypeOK
  <2>3. \A g \in Forms : form'[g] = Blank \/ FormSound(g)'
    BY <1>0, <1>1, <2>1 DEF FormSound
  <2>4. Followed'
    BY <1>0, <1>1, <2>1 DEF Followed, Owed
  <2>. QED
    BY <2>2, <2>3, <2>4 DEF PageInv
<1>10. CASE UNCHANGED orderPagesVars
  <2>1. Same /\ UNCHANGED <<copyOf, load, news, form, unheard>>
    BY <1>10 DEF orderPagesVars
  <2>. QED
    BY <1>0, <1>1, <2>1 DEF PageInv, Followed, Owed, FormSound, OrderPagesTypeOK
<1>. QED
  BY <1>2, <1>3, <1>4, <1>5, <1>6, <1>7, <1>8, <1>9, <1>10 DEF OrderPagesNext

\* A page that waits for nothing shows the order as it is, whichever of its own
\* answers, of the fetches and of the announcements came first.
THEOREM SettledPageCorrect == OrderPagesSpec => []SettledPageIsCurrent
  BY PageInvHolds, PageStep, PageSuffices, PTL DEF OrderPagesSpec

---------------------------------------------------------------------------
(* IndexExplained, for any products, categories, workers and runs of the   *)
(* scripts.                                                                *)

\* A job that every worker who has it still has to write the product for, with
\* the product as it is now.
WillIndex(job, p) ==
    /\ job \in syncJobs /\ p \in Concerned(job)
    /\ \A w \in SyncWorkers : syncWorker[w].job = job =>
        /\ p \in syncWorker[w].todo
        /\ Holds(w, p) => syncWorker[w].document = LoadSearchDocument(p)

Coming(p) == \E job \in syncJobs : WillIndex(job, p)

\* Products are on shelves that stand, jobs are of the past, and what was
\* deleted is not written again.
EventsSound ==
    /\ \A p \in Goods : Stocked(p) => Standing(good[p].shelf)
    /\ \A job \in syncJobs : /\ job.at <= writes
                             /\ job.type = "PRODUCT_DELETED" => good[job.id] = Gone
    /\ \A w \in SyncWorkers :
        /\ ~Idle(w) => syncWorker[w].job.at <= writes
        /\ \A p \in syncWorker[w].todo :
            syncWorker[w].job.type = "PRODUCT_DELETED" => good[p] = Gone

\* Who is alone with a product is the only one who has read it.
AloneSound ==
    /\ \A v, w \in SyncWorkers, p \in Goods :
        syncWorker[w].alone /\ Holds(w, p) /\ Holds(v, p) => v = w
    /\ \A w \in SyncWorkers, p \in script.alone : ~Holds(w, p)

\* What was written last, and what is about to be written by someone who is
\* alone, is the product as it is, or one that is coming.
IndexFollows ==
    /\ \A p \in Goods \ crossed : indexed[p] = LoadSearchDocument(p) \/ Coming(p)
    /\ \A w \in SyncWorkers, p \in Goods :
        syncWorker[w].alone /\ Holds(w, p) =>
            syncWorker[w].document = LoadSearchDocument(p) \/ Coming(p)
    /\ \A p \in script.alone : script.document[p] = LoadSearchDocument(p) \/ Coming(p)

\* What a worker is doing.
Turns ==
    [job : SyncEvents \cup {Gone}, todo : SUBSET Goods, good : Goods \cup {Gone},
     document : Documents \cup {Gone}, alone : BOOLEAN]

IndexInv == SearchSyncTypeOK /\ EventsSound /\ AloneSound /\ IndexFollows

LEMMA TurnFields ==
    ASSUME SearchSyncTypeOK, NEW w \in SyncWorkers
    PROVE  /\ syncWorker[w] \in Turns
           /\ syncWorker[w].job \in SyncEvents \cup {Gone}
           /\ syncWorker[w].todo \subseteq Goods
           /\ syncWorker[w].good \in Goods \cup {Gone}
           /\ syncWorker[w].document \in Documents \cup {Gone}
           /\ syncWorker[w].alone \in BOOLEAN
<1>1. syncWorker[w] \in Turns
  BY DEF SearchSyncTypeOK, Turns
<1>. QED
  BY <1>1 DEF Turns

LEMMA NoJobIsATurn == NoJob \in Turns
  BY DEF NoJob, Turns

LEMMA ScriptFields ==
    ASSUME SearchSyncTypeOK
    PROVE  /\ script.todo \subseteq Goods /\ script.alone \subseteq Goods
           /\ script.document \in [Goods -> Documents \cup {Gone}]
           /\ script = [todo |-> script.todo, document |-> script.document,
                        alone |-> script.alone]
  BY DEF SearchSyncTypeOK

LEMMA ADocument ==
    ASSUME SearchSyncTypeOK, EventsSound, NEW p \in Goods
    PROVE  LoadSearchDocument(p) \in Documents \cup {Gone}
<1> SUFFICES ASSUME Stocked(p)
             PROVE  BuildProductSearchDocument(p) \in Documents
  BY DEF LoadSearchDocument
<1>1. good[p] \in Rows
  BY DEF Stocked, SearchSyncTypeOK
<1>2. good[p].content \in Nat /\ good[p].shelf \in Shelves
  BY <1>1 DEF Rows
<1>3. shelf[good[p].shelf] \in Nat
  BY <1>2 DEF EventsSound, Standing, SearchSyncTypeOK
<1>. QED
  BY <1>2, <1>3 DEF BuildProductSearchDocument, Documents

---------------------------------------------------------------------------
(* What the steps of a worker leave, field by field.                       *)

\* A worker takes up other fields.
Taking(f, w, a, b, d, e) ==
    [f EXCEPT ![w].todo = a, ![w].good = b, ![w].document = d, ![w].alone = e]

LEMMA TurnTaken ==
    ASSUME NEW f \in [SyncWorkers -> Turns], NEW w \in SyncWorkers,
           NEW a, NEW b, NEW d, NEW e
    PROVE  Taking(f, w, a, b, d, e) =
               [v \in SyncWorkers |-> IF v # w THEN f[v] ELSE
                   [job |-> f[v].job, todo |-> a, good |-> b, document |-> d, alone |-> e]]
<1>0. PICK t : t = f[w]
  OBVIOUS
<1>1. PICK u : u = [t EXCEPT !.todo = a]
  OBVIOUS
<1>2. PICK h : h = [f EXCEPT ![w] = u]
  OBVIOUS
<1>3. PICK i : i = [h EXCEPT ![w].good = b]
  OBVIOUS
<1>4. PICK j : j = [i EXCEPT ![w].document = d]
  OBVIOUS
<1>5. Taking(f, w, a, b, d, e) = [j EXCEPT ![w].alone = e]
  BY <1>0, <1>1, <1>2, <1>3, <1>4, Zenon DEF Taking
<1>6. DOMAIN t = {"job", "todo", "good", "document", "alone"} /\ DOMAIN f = SyncWorkers
  BY <1>0 DEF Turns
<1>7. u = [job |-> t.job, todo |-> a, good |-> t.good, document |-> t.document, alone |-> t.alone]
  BY <1>1, <1>6
<1>8. h = [v \in SyncWorkers |-> IF v # w THEN f[v] ELSE
              [job |-> t.job, todo |-> a, good |-> t.good, document |-> t.document,
               alone |-> t.alone]]
  BY <1>2, <1>6, <1>7
<1>9. i = [v \in SyncWorkers |-> IF v # w THEN f[v] ELSE
              [job |-> t.job, todo |-> a, good |-> b, document |-> t.document, alone |-> t.alone]]
  BY <1>3, <1>8
<1>10. j = [v \in SyncWorkers |-> IF v # w THEN f[v] ELSE
               [job |-> t.job, todo |-> a, good |-> b, document |-> d, alone |-> t.alone]]
  BY <1>4, <1>9
<1>. QED
  BY <1>0, <1>5, <1>10

LEMMA StartLeaves ==
    ASSUME NEW w \in SyncWorkers, NEW job, StartSync(w, job), SearchSyncTypeOK
    PROVE  /\ syncWorker' = [v \in SyncWorkers |-> syncWorker'[v]]
           /\ \A v \in SyncWorkers \ {w} : syncWorker'[v] = syncWorker[v]
           /\ syncWorker'[w] = [job |-> job, todo |-> Concerned(job), good |-> Gone,
                                document |-> Gone, alone |-> FALSE]
<1> DEFINE t == [job |-> job, todo |-> Concerned(job), good |-> Gone, document |-> Gone,
                 alone |-> FALSE]
<1>1. [NoJob EXCEPT !.job = job, !.todo = Concerned(job)] = t
  <2>1. PICK none : none = NoJob
    OBVIOUS
  <2>2. PICK j : j = [none EXCEPT !.job = job, !.todo = Concerned(job)]
    OBVIOUS
  <2>3. j = t
    BY <2>1, <2>2 DEF NoJob
  <2>. QED
    BY <2>1, <2>2, <2>3, Zenon
<1>2. syncWorker' = [syncWorker EXCEPT ![w] = t]
  BY <1>1, Zenon DEF StartSync
<1> HIDE DEF t
<1>3. syncWorker = [v \in SyncWorkers |-> syncWorker[v]]
  BY DEF SearchSyncTypeOK
<1>4. /\ syncWorker' = [v \in SyncWorkers |-> syncWorker'[v]]
      /\ \A v \in SyncWorkers \ {w} : syncWorker'[v] = syncWorker[v]
      /\ syncWorker'[w] = t
  BY <1>2, <1>3
<1>. QED
  BY <1>4 DEF t

\* Who reads a product takes it from being the only one who has.
LEMMA CrossedTurn ==
    ASSUME SearchSyncTypeOK, NEW v \in SyncWorkers, NEW p
    PROVE  Cross(p)[v] =
               [job |-> syncWorker[v].job, todo |-> syncWorker[v].todo,
                good |-> syncWorker[v].good, document |-> syncWorker[v].document,
                alone |-> IF Holds(v, p) THEN FALSE ELSE syncWorker[v].alone]
<1>1. PICK t : t = syncWorker[v]
  OBVIOUS
<1>2. t \in Turns
  BY <1>1, TurnFields
<1>3. PICK u : u = [t EXCEPT !.alone = FALSE]
  OBVIOUS
<1>4. u = [job |-> t.job, todo |-> t.todo, good |-> t.good, document |-> t.document,
           alone |-> FALSE]
  BY <1>2, <1>3 DEF Turns
<1>6. Cross(p)[v] = IF Holds(v, p) THEN u ELSE t
  BY <1>1, <1>3 DEF Cross
<1>5. t = [job |-> t.job, todo |-> t.todo, good |-> t.good, document |-> t.document,
           alone |-> t.alone]
  BY <1>2 DEF Turns
<1>. QED
  BY <1>1, <1>4, <1>5, <1>6

LEMMA ReadLeaves ==
    ASSUME NEW w \in SyncWorkers, NEW p \in Goods, ReadGood(w, p), SearchSyncTypeOK
    PROVE  /\ syncWorker' = [v \in SyncWorkers |-> syncWorker'[v]]
           /\ \A v \in SyncWorkers \ {w} : syncWorker'[v] = Cross(p)[v]
           /\ syncWorker'[w] =
                  [job |-> syncWorker[w].job, todo |-> syncWorker[w].todo, good |-> p,
                   document |-> IF syncWorker[w].job.type = "PRODUCT_DELETED" THEN Gone
                                ELSE LoadSearchDocument(p),
                   alone |-> AloneWith(p)]
<1>1. PICK f : f = Cross(p)
  OBVIOUS
<1>2. /\ f \in [SyncWorkers -> Turns] /\ f[w].job = syncWorker[w].job
      /\ f[w].todo = syncWorker[w].todo
  <2>1. ASSUME NEW v \in SyncWorkers
        PROVE  /\ f[v] \in Turns /\ f[v].job = syncWorker[v].job
               /\ f[v].todo = syncWorker[v].todo
    <3>1. PICK t : t = syncWorker[v]
      OBVIOUS
    <3>2. PICK a : a = IF Holds(v, p) THEN FALSE ELSE t.alone
      OBVIOUS
    <3>3. t \in Turns /\ t.alone \in BOOLEAN
      BY <3>1, TurnFields
    <3>4. f[v] = [job |-> t.job, todo |-> t.todo, good |-> t.good,
                  document |-> t.document, alone |-> a]
      BY <1>1, <3>1, <3>2, CrossedTurn, Zenon
    <3>. QED
      <4>1. PICK job, todo, of, document :
                /\ job \in SyncEvents \cup {Gone} /\ todo \in SUBSET Goods
                /\ of \in Goods \cup {Gone} /\ document \in Documents \cup {Gone}
                /\ job = t.job /\ todo = t.todo /\ of = t.good /\ document = t.document
        BY <3>3 DEF Turns
      <4>2. a \in BOOLEAN
        BY <3>2, <3>3
      <4>3. f[v] = [job |-> job, todo |-> todo, good |-> of, document |-> document, alone |-> a]
        BY <3>4, <4>1
      <4>. QED
        BY <3>1, <4>1, <4>2, <4>3 DEF Turns
  <2>. QED
    BY <1>1, <2>1 DEF Cross
<1>3. PICK a : a = syncWorker[w].todo
  OBVIOUS
<1>4. PICK d : d = IF syncWorker[w].job.type = "PRODUCT_DELETED" THEN Gone
                   ELSE LoadSearchDocument(p)
  OBVIOUS
<1>5. PICK e : e = AloneWith(p)
  OBVIOUS
<1>7. syncWorker' = Taking(f, w, a, p, d, e)
  <2>1. PICK t : t = f[w]
    OBVIOUS
  <2>2. [t EXCEPT !.todo = a] = t
    BY <1>2, <1>3, <2>1 DEF Turns
  <2>3. [f EXCEPT ![w].todo = a] = f
    BY <1>2, <2>1, <2>2
  <2>. QED
    BY <1>1, <1>4, <1>5, <2>3, Zenon DEF ReadGood, Taking
<1>8. syncWorker' = [v \in SyncWorkers |-> IF v # w THEN f[v] ELSE
                        [job |-> f[v].job, todo |-> a, good |-> p, document |-> d, alone |-> e]]
  BY <1>2, <1>7, TurnTaken
<1>9. /\ syncWorker' = [v \in SyncWorkers |-> syncWorker'[v]]
      /\ \A v \in SyncWorkers \ {w} : syncWorker'[v] = f[v]
      /\ syncWorker'[w] = [job |-> f[w].job, todo |-> a, good |-> p, document |-> d, alone |-> e]
  BY <1>8
<1>10. \A v \in SyncWorkers \ {w} : syncWorker'[v] = Cross(p)[v]
  BY <1>1, <1>9, Zenon
<1>11. syncWorker'[w] =
           [job |-> syncWorker[w].job, todo |-> syncWorker[w].todo, good |-> p,
            document |-> IF syncWorker[w].job.type = "PRODUCT_DELETED" THEN Gone
                         ELSE LoadSearchDocument(p),
            alone |-> AloneWith(p)]
  BY <1>2, <1>3, <1>4, <1>5, <1>9, Zenon
<1>. QED
  BY <1>9, <1>10, <1>11, Zenon

LEMMA IndexLeaves ==
    ASSUME NEW w \in SyncWorkers, IndexGood(w), SearchSyncTypeOK
    PROVE  /\ syncWorker' = [v \in SyncWorkers |-> syncWorker'[v]]
           /\ \A v \in SyncWorkers \ {w} : syncWorker'[v] = syncWorker[v]
           /\ syncWorker'[w] =
                  [job |-> syncWorker[w].job, todo |-> syncWorker[w].todo \ {syncWorker[w].good},
                   good |-> Gone, document |-> Gone, alone |-> FALSE]
<1>1. PICK f : f = syncWorker
  OBVIOUS
<1>2. f \in [SyncWorkers -> Turns]
  BY <1>1 DEF SearchSyncTypeOK, Turns
<1>3. PICK a : a = syncWorker[w].todo \ {syncWorker[w].good}
  OBVIOUS
<1>4. PICK e : e = FALSE
  OBVIOUS
<1>5. syncWorker' = Taking(f, w, a, Gone, Gone, e)
  BY <1>1, <1>3, <1>4, Zenon DEF IndexGood, Taking
<1>6. syncWorker' = [v \in SyncWorkers |-> IF v # w THEN f[v] ELSE
              [job |-> f[v].job, todo |-> a, good |-> Gone, document |-> Gone, alone |-> e]]
  BY <1>2, <1>5, TurnTaken
<1>7. /\ syncWorker' = [v \in SyncWorkers |-> syncWorker'[v]]
      /\ \A v \in SyncWorkers \ {w} : syncWorker'[v] = f[v]
      /\ syncWorker'[w] = [job |-> f[w].job, todo |-> a, good |-> Gone, document |-> Gone,
                           alone |-> e]
  BY <1>6
<1>8. \A v \in SyncWorkers \ {w} : syncWorker'[v] = syncWorker[v]
  BY <1>1, <1>7, Zenon
<1>9. syncWorker'[w] =
          [job |-> syncWorker[w].job, todo |-> syncWorker[w].todo \ {syncWorker[w].good},
           good |-> Gone, document |-> Gone, alone |-> FALSE]
  BY <1>1, <1>3, <1>4, <1>7, Zenon
<1>. QED
  BY <1>7, <1>8, <1>9, Zenon

---------------------------------------------------------------------------
LEMMA IndexInvHolds == SearchSyncInit => IndexInv
<1> SUFFICES ASSUME SearchSyncInit PROVE IndexInv
  OBVIOUS
<1>1. SearchSyncTypeOK
  BY SearchSyncShape, NoJobIsATurn
  DEF SearchSyncInit, SearchSyncTypeOK, Turns, NoScript, catalogTables
<1>2. EventsSound /\ AloneSound
  BY SearchSyncShape DEF SearchSyncInit, EventsSound, AloneSound, NoJob, NoScript, Stocked, Idle,
                         Holds
<1>3. IndexFollows
  BY DEF SearchSyncInit, IndexFollows, NoJob, NoScript, Stocked, LoadSearchDocument
<1>. QED
  BY <1>1, <1>2, <1>3 DEF IndexInv

\* When everything is handled nothing is coming, so what is not crossed is there.
LEMMA IndexSuffices == IndexInv => IndexExplained
  BY DEF IndexInv, IndexFollows, IndexExplained, Synced, Coming, WillIndex

\* What is untouched about a product.
SameGood(p) ==
    good'[p] = good[p] /\ (Stocked(p) => shelf'[good[p].shelf] = shelf[good[p].shelf])

LEMMA SameGoodIs ==
    ASSUME NEW p \in Goods, SameGood(p)
    PROVE  /\ LoadSearchDocument(p)' = LoadSearchDocument(p)
           /\ \A job \in SyncEvents : p \in Concerned(job) <=> p \in Concerned(job)'
<1>1. LoadSearchDocument(p)' = LoadSearchDocument(p)
  BY DEF SameGood, LoadSearchDocument, BuildProductSearchDocument, Stocked
<1>2. ASSUME NEW job \in SyncEvents
      PROVE  p \in Concerned(job) <=> p \in Concerned(job)'
  <2>1. job.type \in ProductEvents \cup CategoryEvents
    BY DEF SyncEvents
  <2>2. CASE job.type \in ProductEvents
    BY <2>2 DEF ProductEvents, Concerned
  <2>3. CASE job.type = "CATEGORY_UPDATED"
    BY <2>3 DEF Concerned, SameGood, Stocked
  <2>4. CASE job.type = "CATEGORY_DELETED"
    BY <2>4 DEF Concerned
  <2>. QED
    BY <2>1, <2>2, <2>3, <2>4 DEF CategoryEvents
<1>. QED
  BY <1>1, <1>2

LEMMA SameTables == UNCHANGED catalogTables => \A p \in Goods : SameGood(p)
  BY DEF catalogTables, SameGood

\* A write: what it does not touch is as before, and a job is coming for what it
\* does.
LEMMA WriteKeeps ==
    ASSUME IndexInv, Write, UNCHANGED <<syncWorker, script, indexed, crossed, scripts>>,
           good' \in [Goods -> Rows \cup {Unborn, Gone}],
           shelf' \in [Shelves -> Nat \cup {Unborn, Gone}],
           syncJobs \subseteq syncJobs',
           \A job \in syncJobs' \ syncJobs :
               /\ job \in SyncEvents /\ job.at = writes'
               /\ job.type = "PRODUCT_DELETED" => good'[job.id] = Gone,
           \A p \in Goods : good[p] = Gone => good'[p] = Gone,
           \A p \in Goods : (Stocked(p) => Standing(good[p].shelf))',
           \A p \in Goods : \/ SameGood(p)
                           \/ \E job \in syncJobs' : job.at = writes' /\ p \in Concerned(job)'
    PROVE  IndexInv'
<1>0. /\ SearchSyncTypeOK /\ EventsSound /\ AloneSound /\ IndexFollows
      /\ writes \in Nat /\ writes' = writes + 1 /\ writes' \in 0..MaxWrites
  BY SearchSyncShape DEF IndexInv, SearchSyncTypeOK, Write
<1>1. SearchSyncTypeOK'
  BY <1>0 DEF SearchSyncTypeOK
<1>2. EventsSound'
  <2>1. ASSUME NEW job \in syncJobs'
        PROVE  job.at <= writes' /\ (job.type = "PRODUCT_DELETED" => good'[job.id] = Gone)
    <3>1. CASE job \in syncJobs
      <4>1. job \in SyncEvents
        BY <1>0, <3>1 DEF SearchSyncTypeOK
      <4>2. job.at \in Nat /\ (job.type = "PRODUCT_DELETED" => job.id \in Goods)
        BY <4>1 DEF SyncEvents, ProductEvents, CategoryEvents
      <4>. QED
        BY <1>0, <3>1, <4>2 DEF EventsSound
    <3>2. CASE job \notin syncJobs
      BY <1>0, <3>2
    <3>. QED
      BY <3>1, <3>2
  <2>2. ASSUME NEW w \in SyncWorkers
        PROVE  /\ ~Idle(w) => syncWorker[w].job.at <= writes'
               /\ \A p \in syncWorker[w].todo :
                      syncWorker[w].job.type = "PRODUCT_DELETED" => good'[p] = Gone
    <3>1. ~Idle(w) => syncWorker[w].job.at \in Nat
      BY <1>0, TurnFields DEF Idle, SyncEvents
    <3>. QED
      BY <1>0, <3>1, TurnFields DEF EventsSound
  <2>. QED
    BY <2>1, <2>2 DEF EventsSound, Idle
<1>3. AloneSound'
  BY <1>0 DEF AloneSound, Holds
<1>4. ASSUME NEW p \in Goods
      PROVE  \/ Coming(p)'
             \/ LoadSearchDocument(p)' = LoadSearchDocument(p) /\ ~Coming(p)
  <2>1. CASE SameGood(p)
    <3>1. ASSUME NEW job \in syncJobs, WillIndex(job, p) PROVE WillIndex(job, p)'
      BY <1>0, <2>1, <3>1, SameGoodIs DEF WillIndex, Holds, SearchSyncTypeOK
    <3>. QED
      BY <2>1, <3>1, SameGoodIs DEF Coming
  <2>2. ASSUME NEW job \in syncJobs', job.at = writes', p \in Concerned(job)'
        PROVE  Coming(p)'
    <3>1. ASSUME NEW w \in SyncWorkers PROVE syncWorker[w].job # job
      <4>1. job \in SyncEvents
        BY <1>1 DEF SearchSyncTypeOK
      <4>2. job # Gone
        BY <4>1, SearchSyncShape
      <4>3. ~Idle(w) => syncWorker[w].job.at # job.at
        <5>1. ~Idle(w) => syncWorker[w].job.at <= writes
          BY <1>0 DEF EventsSound
        <5>. QED
          BY <1>0, <2>2, <5>1
      <4>. QED
        BY <4>2, <4>3 DEF Idle
    <3>2. WillIndex(job, p)'
      BY <2>2, <3>1 DEF WillIndex
    <3>. QED
      BY <3>2 DEF Coming
  <2>. QED
    BY <2>1, <2>2
<1>5. IndexFollows'
  <2>1. \A p \in Goods \ crossed : indexed[p] = LoadSearchDocument(p)' \/ Coming(p)'
    BY <1>0, <1>4 DEF IndexFollows
  <2>2. \A w \in SyncWorkers, p \in Goods :
            syncWorker[w].alone /\ Holds(w, p) =>
                syncWorker[w].document = LoadSearchDocument(p)' \/ Coming(p)'
    BY <1>0, <1>4 DEF IndexFollows
  <2>3. \A p \in script.alone : script.document[p] = LoadSearchDocument(p)' \/ Coming(p)'
    BY <1>0, <1>4, ScriptFields DEF IndexFollows
  <2>. QED
    BY <2>1, <2>2, <2>3 DEF IndexFollows, Holds
<1>. QED
  BY <1>1, <1>2, <1>3, <1>5 DEF IndexInv

LEMMA WriteGoodKeeps ==
    ASSUME IndexInv, NEW p \in Goods, NEW kept \in Rows \cup {Gone}, NEW type \in ProductEvents,
           WriteGood(p, kept, type), good[p] # Gone,
           kept # Gone => Standing(kept.shelf),
           type = "PRODUCT_DELETED" => kept = Gone
    PROVE  IndexInv'
<1>j. PICK job : job = [at |-> writes', type |-> type, id |-> p]
  OBVIOUS
<1>0. /\ SearchSyncTypeOK /\ EventsSound /\ writes' = writes + 1 /\ writes' \in Nat
      /\ Write /\ UNCHANGED <<shelf, syncWorker, script, indexed, crossed, scripts>>
      /\ good \in [Goods -> Rows \cup {Unborn, Gone}]
  BY SearchSyncShape DEF IndexInv, SearchSyncTypeOK, Write, WriteGood
<1>1. good' \in [Goods -> Rows \cup {Unborn, Gone}] /\ good'[p] = kept
      /\ \A q \in Goods \ {p} : good'[q] = good[q]
  BY <1>0 DEF WriteGood
<1>2. syncJobs' = syncJobs \cup {job}
  BY <1>j DEF WriteGood, RecordEvent
<1>3. job \in SyncEvents /\ p \in Concerned(job)'
  BY <1>0, <1>j DEF SyncEvents, ProductEvents, Concerned
<1>4. \A q \in Goods : good[q] = Gone => good'[q] = Gone
  BY <1>1
<1>5. \A q \in Goods : (Stocked(q) => Standing(good[q].shelf))'
  BY <1>0, <1>1 DEF EventsSound, Stocked, Standing
<1>6. \A q \in Goods : SameGood(q) \/ (job.at = writes' /\ q \in Concerned(job)')
  BY <1>0, <1>1, <1>3, <1>j DEF SameGood
<1>7. /\ job.at = writes' /\ job.type = type /\ job.id = p
      /\ syncJobs \subseteq syncJobs' /\ \A j \in syncJobs' \ syncJobs : j = job
      /\ job \in syncJobs'
  BY <1>j, <1>2
<1>8. \A j \in syncJobs' \ syncJobs :
          /\ j \in SyncEvents /\ j.at = writes'
          /\ j.type = "PRODUCT_DELETED" => good'[j.id] = Gone
  BY <1>1, <1>3, <1>7
<1>9. \A q \in Goods :
          SameGood(q) \/ \E j \in syncJobs' : j.at = writes' /\ q \in Concerned(j)'
  BY <1>6, <1>7
<1>10. shelf' \in [Shelves -> Nat \cup {Unborn, Gone}]
  BY <1>0 DEF SearchSyncTypeOK
<1>. QED
  BY <1>0, <1>1, <1>4, <1>5, <1>7, <1>8, <1>9, <1>10, WriteKeeps

\* A category that changes its name, begins or ends.
LEMMA WriteShelfKeeps ==
    ASSUME IndexInv, NEW c \in Shelves, NEW name \in Nat \cup {Gone}, NEW type \in CategoryEvents,
           Write, shelf' = [shelf EXCEPT ![c] = name],
           UNCHANGED <<good, syncWorker, script, indexed, crossed, scripts>>,
           \/ RecordEvent(type, c)
           \/ syncJobs' = syncJobs /\ ~\E p \in Goods : Stocked(p) /\ good[p].shelf = c,
           \/ type = "CATEGORY_UPDATED" /\ name # Gone
           \/ ~\E p \in Goods : Stocked(p) /\ good[p].shelf = c
    PROVE  IndexInv'
<1>j. PICK job : job = [at |-> writes', type |-> type, id |-> c]
  OBVIOUS
<1>0. /\ SearchSyncTypeOK /\ EventsSound /\ writes' = writes + 1 /\ writes' \in Nat
      /\ good \in [Goods -> Rows \cup {Unborn, Gone}]
      /\ \A p \in Goods : Stocked(p) => good[p] \in Rows /\ good[p].shelf \in Shelves
  BY SearchSyncShape DEF IndexInv, SearchSyncTypeOK, Write, Stocked, Rows
<1>1. /\ shelf' \in [Shelves -> Nat \cup {Unborn, Gone}] /\ shelf'[c] = name
      /\ \A d \in Shelves \ {c} : shelf'[d] = shelf[d]
  BY <1>0 DEF SearchSyncTypeOK
<1>2. syncJobs' = syncJobs \/ syncJobs' = syncJobs \cup {job}
  BY <1>j DEF RecordEvent
<1>3. job \in SyncEvents /\ job.at = writes' /\ job.type = type /\ job.id = c
  BY <1>0, <1>j DEF SyncEvents
<1>4. \A p \in Goods : (Stocked(p) => Standing(good[p].shelf))'
  BY <1>0, <1>1, SearchSyncShape DEF EventsSound, Stocked, Standing
<1>5. ASSUME NEW p \in Goods
      PROVE  SameGood(p) \/ \E j \in syncJobs' : j.at = writes' /\ p \in Concerned(j)'
  <2>1. CASE Stocked(p) /\ good[p].shelf = c
    <3>1. syncJobs' = syncJobs \cup {job} /\ type = "CATEGORY_UPDATED"
      BY <1>j, <2>1 DEF RecordEvent
    <3>2. p \in Concerned(job)'
      BY <1>3, <2>1, <3>1 DEF Concerned, Stocked
    <3>. QED
      BY <1>3, <3>1, <3>2
  <2>2. CASE ~(Stocked(p) /\ good[p].shelf = c)
    BY <1>0, <1>1, <2>2 DEF SameGood
  <2>. QED
    BY <2>1, <2>2
<1>6. \A j \in syncJobs' \ syncJobs : j = job
  BY <1>j, <1>2
<1>7. syncJobs \subseteq syncJobs'
  BY <1>j, <1>2
<1>8. \A j \in syncJobs' \ syncJobs :
          /\ j \in SyncEvents /\ j.at = writes'
          /\ j.type = "PRODUCT_DELETED" => good'[j.id] = Gone
  BY <1>3, <1>6 DEF CategoryEvents
<1>9. good' \in [Goods -> Rows \cup {Unborn, Gone}] /\ \A p \in Goods : good[p] = Gone => good'[p] = Gone
  BY <1>0
<1>. QED
  BY <1>1, <1>4, <1>5, <1>7, <1>8, <1>9, WriteKeeps

\* Every write to the catalog.
LEMMA CatalogStep ==
    ASSUME IndexInv,
           \/ \E p \in Goods : UpdateOwned(p) \/ DeleteOwned(p)
                                \/ \E c \in Shelves : CreateForSeller(p, c)
           \/ \E c \in Shelves : CreateCategory(c) \/ UpdateCategory(c) \/ DeleteCategory(c)
    PROVE  IndexInv'
<1>0. /\ SearchSyncTypeOK /\ EventsSound /\ Unborn # Gone /\ (Write => writes' \in Nat)
      /\ Gone \notin Rows /\ Unborn \notin Rows /\ Gone \notin Nat /\ Unborn \notin Nat
  BY SearchSyncShape DEF IndexInv, SearchSyncTypeOK, Write
<1>1. ASSUME NEW p \in Goods, UpdateOwned(p) PROVE IndexInv'
  <2>1. PICK published \in BOOLEAN, c \in {s \in Shelves : Standing(s)} :
            WriteGood(p, [content |-> writes', published |-> published, shelf |-> c],
                      "PRODUCT_UPDATED")
    BY <1>1 DEF UpdateOwned
  <2>2. [content |-> writes', published |-> published, shelf |-> c] \in Rows
    BY <1>0, <2>1 DEF Rows, WriteGood
  <2>. QED
    BY <1>0, <1>1, <2>1, <2>2, WriteGoodKeeps DEF ProductEvents, UpdateOwned, Stocked
<1>2. ASSUME NEW p \in Goods, NEW c \in Shelves, CreateForSeller(p, c) PROVE IndexInv'
  <2>1. PICK published \in BOOLEAN :
            WriteGood(p, [content |-> writes', published |-> published, shelf |-> c],
                      "PRODUCT_CREATED")
    BY <1>2 DEF CreateForSeller
  <2>2. [content |-> writes', published |-> published, shelf |-> c] \in Rows
    BY <1>0, <2>1 DEF Rows, WriteGood
  <2>. QED
    BY <1>0, <1>2, <2>1, <2>2, WriteGoodKeeps DEF ProductEvents, CreateForSeller
<1>3. ASSUME NEW p \in Goods, DeleteOwned(p) PROVE IndexInv'
  BY <1>0, <1>3, WriteGoodKeeps DEF ProductEvents, DeleteOwned, Stocked
<1>4. ASSUME NEW c \in Shelves, CreateCategory(c) PROVE IndexInv'
  <2>1. ~\E p \in Goods : Stocked(p) /\ good[p].shelf = c
    BY <1>0, <1>4 DEF EventsSound, CreateCategory, Standing
  <2>. QED
    BY <1>0, <1>4, <2>1, WriteShelfKeeps DEF CreateCategory, CategoryEvents
<1>5. ASSUME NEW c \in Shelves, UpdateCategory(c) PROVE IndexInv'
  BY <1>0, <1>5, WriteShelfKeeps DEF UpdateCategory, CategoryEvents
<1>6. ASSUME NEW c \in Shelves, DeleteCategory(c) PROVE IndexInv'
  BY <1>0, <1>6, WriteShelfKeeps DEF DeleteCategory, CategoryEvents
<1>. QED
  BY <1>1, <1>2, <1>3, <1>4, <1>5, <1>6

---------------------------------------------------------------------------
(* The steps of the workers and of the scripts leave the products alone.   *)

\* A job that is still there is still coming when what its workers have to write
\* and have read is.
LEMMA WillStays ==
    ASSUME SearchSyncTypeOK, UNCHANGED catalogTables, NEW p \in Goods, NEW job \in syncJobs,
           WillIndex(job, p), job \in syncJobs',
           \A w \in SyncWorkers : syncWorker'[w].job = job =>
               /\ p \in syncWorker'[w].todo
               /\ syncWorker'[w].good = p => syncWorker'[w].document = LoadSearchDocument(p)
    PROVE  WillIndex(job, p)'
<1>1. job \in SyncEvents
  BY DEF SearchSyncTypeOK
<1>2. LoadSearchDocument(p)' = LoadSearchDocument(p) /\ p \in Concerned(job)'
  BY <1>1, SameTables, SameGoodIs DEF WillIndex
<1>. QED
  BY <1>2 DEF WillIndex, Holds

\* What is known before a step that leaves the tables alone.
LEMMA WorkFacts ==
    ASSUME IndexInv, UNCHANGED catalogTables
    PROVE  /\ SearchSyncTypeOK /\ EventsSound /\ AloneSound /\ IndexFollows
           /\ UNCHANGED <<good, shelf, writes>>
           /\ \A p \in Goods : LoadSearchDocument(p)' = LoadSearchDocument(p)
           /\ \A p \in Goods : Stocked(p)' = Stocked(p)
           /\ Gone \notin Goods /\ Gone \notin SyncEvents
  BY SameTables, SameGoodIs, SearchSyncShape DEF IndexInv, catalogTables, Stocked

LEMMA StartKeeps ==
    ASSUME IndexInv, NEW w \in SyncWorkers, NEW job \in syncJobs, StartSync(w, job)
    PROVE  IndexInv'
<1>0. /\ SearchSyncTypeOK /\ EventsSound /\ AloneSound /\ IndexFollows
      /\ UNCHANGED <<good, shelf, writes, syncJobs, script, indexed, crossed, scripts>>
      /\ \A p \in Goods : LoadSearchDocument(p)' = LoadSearchDocument(p)
      /\ \A p \in Goods : Stocked(p)' = Stocked(p)
      /\ UNCHANGED catalogTables /\ Gone \notin Goods /\ Gone \notin SyncEvents
  BY WorkFacts DEF StartSync
<1>1. /\ syncWorker' = [v \in SyncWorkers |-> syncWorker'[v]]
      /\ \A v \in SyncWorkers \ {w} : syncWorker'[v] = syncWorker[v]
      /\ syncWorker'[w] = [job |-> job, todo |-> Concerned(job), good |-> Gone,
                           document |-> Gone, alone |-> FALSE]
  BY <1>0, StartLeaves, Zenon
<1>2. job \in SyncEvents /\ Concerned(job) \subseteq Goods
  <2>1. job \in SyncEvents /\ job.type \in ProductEvents \cup CategoryEvents
        /\ (job.type \in ProductEvents => job.id \in Goods)
    BY <1>0 DEF SearchSyncTypeOK, SyncEvents, ProductEvents, CategoryEvents
  <2>. QED
    BY <2>1 DEF Concerned, ProductEvents, CategoryEvents
<1>3. SearchSyncTypeOK'
  <2>1. syncWorker'[w] \in Turns
    BY <1>1, <1>2 DEF Turns
  <2>2. \A v \in SyncWorkers : syncWorker'[v] \in Turns
    BY <1>0, <1>1, <2>1, TurnFields
  <2>. QED
    BY <1>0, <1>1, <2>2 DEF SearchSyncTypeOK, Turns
<1>4. EventsSound'
  <2>1. job.at <= writes /\ (job.type = "PRODUCT_DELETED" => good[job.id] = Gone)
    BY <1>0 DEF EventsSound
  <2>2. ASSUME NEW p \in Concerned(job), job.type = "PRODUCT_DELETED" PROVE good[p] = Gone
    BY <2>1, <2>2 DEF Concerned
  <2>. QED
    BY <1>0, <1>1, <2>1, <2>2 DEF EventsSound, Idle, Standing
<1>5. AloneSound'
  BY <1>0, <1>1, ScriptFields DEF AloneSound, Holds
<1>6. \A p \in Goods : Coming(p) => Coming(p)'
  <2> SUFFICES ASSUME NEW p \in Goods, NEW j \in syncJobs, WillIndex(j, p)
               PROVE  WillIndex(j, p)'
    BY <1>0 DEF Coming
  <2>. QED
    BY <1>0, <1>1, WillStays DEF WillIndex, Holds
<1>7. IndexFollows'
  BY <1>0, <1>1, <1>6, ScriptFields DEF IndexFollows, Holds
<1>. QED
  BY <1>3, <1>4, <1>5, <1>7 DEF IndexInv

LEMMA LeaveKeeps ==
    ASSUME IndexInv, NEW w \in SyncWorkers, MarkSynced(w) \/ FailSync(w)
    PROVE  IndexInv'
<1>0. /\ SearchSyncTypeOK /\ EventsSound /\ AloneSound /\ IndexFollows
      /\ UNCHANGED <<good, shelf, writes, script, indexed, crossed, scripts>>
      /\ \A p \in Goods : LoadSearchDocument(p)' = LoadSearchDocument(p)
      /\ \A p \in Goods : Stocked(p)' = Stocked(p)
      /\ UNCHANGED catalogTables /\ Gone \notin Goods /\ Gone \notin SyncEvents
  BY WorkFacts DEF MarkSynced, FailSync
<1>1. /\ syncWorker' = [v \in SyncWorkers |-> syncWorker'[v]]
      /\ \A v \in SyncWorkers \ {w} : syncWorker'[v] = syncWorker[v]
      /\ syncWorker'[w] = NoJob
  BY <1>0 DEF MarkSynced, FailSync, SearchSyncTypeOK
<1>2. /\ syncJobs' \subseteq syncJobs
      /\ \A j \in syncJobs \ syncJobs' : j = syncWorker[w].job /\ syncWorker[w].todo = {}
  BY DEF MarkSynced, FailSync
<1>3. SearchSyncTypeOK'
  <2>1. \A v \in SyncWorkers : syncWorker'[v] \in Turns
    BY <1>0, <1>1, NoJobIsATurn, TurnFields
  <2>. QED
    BY <1>0, <1>1, <1>2, <2>1 DEF SearchSyncTypeOK, Turns
<1>4. EventsSound'
  BY <1>0, <1>1, <1>2 DEF EventsSound, Idle, Standing, NoJob
<1>5. AloneSound'
  BY <1>0, <1>1, ScriptFields DEF AloneSound, Holds, NoJob
<1>6. \A p \in Goods : Coming(p) => Coming(p)'
  <2> SUFFICES ASSUME NEW p \in Goods, NEW j \in syncJobs, WillIndex(j, p)
               PROVE  j \in syncJobs' /\ WillIndex(j, p)'
    BY <1>0 DEF Coming
  <2>1. j \in SyncEvents
    BY <1>0 DEF SearchSyncTypeOK
  <2>2. j \in syncJobs'
    BY <1>2 DEF WillIndex
  <2>. QED
    BY <1>0, <1>1, <2>1, <2>2, WillStays DEF WillIndex, Holds, NoJob
<1>7. IndexFollows'
  BY <1>0, <1>1, <1>6, ScriptFields DEF IndexFollows, Holds, NoJob
<1>. QED
  BY <1>3, <1>4, <1>5, <1>7 DEF IndexInv

LEMMA ReadKeeps ==
    ASSUME IndexInv, NEW w \in SyncWorkers, NEW p \in Goods, ReadGood(w, p)
    PROVE  IndexInv'
<1>0. /\ SearchSyncTypeOK /\ EventsSound /\ AloneSound /\ IndexFollows
      /\ UNCHANGED <<good, shelf, writes, syncJobs, indexed, crossed, scripts>>
      /\ \A q \in Goods : LoadSearchDocument(q)' = LoadSearchDocument(q)
      /\ \A q \in Goods : Stocked(q)' = Stocked(q)
      /\ UNCHANGED catalogTables /\ Gone \notin Goods /\ Gone \notin SyncEvents
      /\ p \in syncWorker[w].todo /\ syncWorker[w].good = Gone
  BY WorkFacts DEF ReadGood
<1>1. /\ syncWorker' = [v \in SyncWorkers |-> syncWorker'[v]]
      /\ \A v \in SyncWorkers \ {w} :
             /\ syncWorker'[v] \in Turns
             /\ syncWorker'[v].job = syncWorker[v].job /\ syncWorker'[v].todo = syncWorker[v].todo
             /\ syncWorker'[v].good = syncWorker[v].good
             /\ syncWorker'[v].document = syncWorker[v].document
             /\ syncWorker'[v].alone => syncWorker[v].alone /\ syncWorker[v].good # p
  <2>1. ASSUME NEW v \in SyncWorkers \ {w}
        PROVE  /\ syncWorker'[v] \in Turns
               /\ syncWorker'[v].job = syncWorker[v].job /\ syncWorker'[v].todo = syncWorker[v].todo
               /\ syncWorker'[v].good = syncWorker[v].good
               /\ syncWorker'[v].document = syncWorker[v].document
               /\ syncWorker'[v].alone => syncWorker[v].alone /\ syncWorker[v].good # p
    <3>1. syncWorker'[v] =
              [job |-> syncWorker[v].job, todo |-> syncWorker[v].todo,
               good |-> syncWorker[v].good, document |-> syncWorker[v].document,
               alone |-> IF Holds(v, p) THEN FALSE ELSE syncWorker[v].alone]
      <4>1. syncWorker'[v] = Cross(p)[v]
        BY <1>0, ReadLeaves, Zenon
      <4>2. v \in SyncWorkers
        OBVIOUS
      <4>. QED
        BY <1>0, <4>1, <4>2, CrossedTurn, Zenon
    <3>2. syncWorker[v].alone \in BOOLEAN
      BY <1>0, TurnFields
    <3>3. CASE Holds(v, p)
      <4>1. syncWorker'[v] =
                [job |-> syncWorker[v].job, todo |-> syncWorker[v].todo,
                 good |-> syncWorker[v].good, document |-> syncWorker[v].document,
                 alone |-> FALSE]
        BY <3>1, <3>3, Zenon
      <4>. QED
        BY <1>0, <4>1, TurnFields DEF Turns
    <3>4. CASE ~Holds(v, p)
      <4>1. syncWorker'[v] =
                [job |-> syncWorker[v].job, todo |-> syncWorker[v].todo,
                 good |-> syncWorker[v].good, document |-> syncWorker[v].document,
                 alone |-> syncWorker[v].alone]
        BY <3>1, <3>4, Zenon
      <4>. QED
        BY <1>0, <3>4, <4>1, TurnFields DEF Turns, Holds
    <3>. QED
      BY <3>3, <3>4
  <2>. QED
    BY <1>0, <2>1, ReadLeaves, Zenon
<1>2. PICK document : document = IF syncWorker[w].job.type = "PRODUCT_DELETED" THEN Gone
                                 ELSE LoadSearchDocument(p)
  OBVIOUS
<1>3. PICK alone \in BOOLEAN : alone = AloneWith(p)
  BY DEF AloneWith
<1>4. syncWorker'[w] =
          [job |-> syncWorker[w].job, todo |-> syncWorker[w].todo, good |-> p,
           document |-> document, alone |-> alone]
  BY <1>0, <1>2, <1>3, ReadLeaves, Zenon
<1>5. document = LoadSearchDocument(p)
  BY <1>0, <1>2 DEF EventsSound, LoadSearchDocument, Stocked
<1>6. /\ syncWorker'[w] \in Turns
      /\ syncWorker'[w].job = syncWorker[w].job /\ syncWorker'[w].todo = syncWorker[w].todo
      /\ syncWorker'[w].good = p /\ syncWorker'[w].document = LoadSearchDocument(p)
      /\ syncWorker'[w].alone =>
            p \notin script.todo /\ \A v \in SyncWorkers : syncWorker[v].good # p
  <2>1. document \in Documents \cup {Gone}
    BY <1>0, <1>5, ADocument
  <2>2. alone => p \notin script.todo /\ \A v \in SyncWorkers : syncWorker[v].good # p
    BY <1>3 DEF AloneWith, Holds
  <2>3. /\ syncWorker[w].job \in SyncEvents \cup {Gone} /\ syncWorker[w].todo \subseteq Goods
    BY <1>0, TurnFields
  <2>. QED
    BY <1>4, <1>5, <2>1, <2>2, <2>3 DEF Turns
<1>7. /\ script' = [todo |-> script.todo, document |-> script.document,
                    alone |-> script.alone \ {p}]
      /\ script'.todo = script.todo /\ script'.document = script.document
      /\ script'.alone = script.alone \ {p}
  BY <1>0, ScriptFields DEF ReadGood
<1>8. SearchSyncTypeOK'
  <2>1. \A v \in SyncWorkers : syncWorker'[v] \in Turns
    BY <1>1, <1>6
  <2>. QED
    BY <1>0, <1>1, <1>7, <2>1, ScriptFields DEF SearchSyncTypeOK, Turns
<1>9. EventsSound'
  BY <1>0, <1>1, <1>6 DEF EventsSound, Idle, Standing
<1>10. AloneSound'
  BY <1>0, <1>1, <1>6, <1>7, ScriptFields DEF AloneSound, Holds
<1>11. \A q \in Goods : Coming(q) => Coming(q)'
  <2> SUFFICES ASSUME NEW q \in Goods, NEW j \in syncJobs, WillIndex(j, q)
               PROVE  WillIndex(j, q)'
    BY <1>0 DEF Coming
  <2>. QED
    BY <1>0, <1>1, <1>6, WillStays DEF WillIndex, Holds
<1>12. IndexFollows'
  BY <1>0, <1>1, <1>6, <1>7, <1>11, ScriptFields DEF IndexFollows, Holds
<1>. QED
  BY <1>8, <1>9, <1>10, <1>12 DEF IndexInv

\* A product that is written: what is in the index is the product as it is now
\* or a job is coming that has it still to write, unless it is crossed.
LEMMA IndexKeeps ==
    ASSUME IndexInv, NEW w \in SyncWorkers, IndexGood(w)
    PROVE  IndexInv'
<1>p. PICK p : p = syncWorker[w].good
  OBVIOUS
<1>0. /\ SearchSyncTypeOK /\ EventsSound /\ AloneSound /\ IndexFollows
      /\ UNCHANGED <<good, shelf, writes, syncJobs, script, scripts>>
      /\ \A q \in Goods : LoadSearchDocument(q)' = LoadSearchDocument(q)
      /\ \A q \in Goods : Stocked(q)' = Stocked(q)
      /\ UNCHANGED catalogTables /\ Gone \notin Goods /\ Gone \notin SyncEvents
  BY WorkFacts DEF IndexGood
<1>1. p \in Goods /\ p # Gone /\ Index(p, syncWorker[w].document, syncWorker[w].alone)
  BY <1>0, <1>p, TurnFields DEF IndexGood
<1>2. /\ syncWorker' = [v \in SyncWorkers |-> syncWorker'[v]]
      /\ \A v \in SyncWorkers \ {w} : syncWorker'[v] = syncWorker[v]
      /\ syncWorker'[w].job = syncWorker[w].job /\ syncWorker'[w].todo = syncWorker[w].todo \ {p}
      /\ syncWorker'[w].good = Gone /\ syncWorker'[w].alone = FALSE
      /\ syncWorker'[w] \in Turns
  <2>1. /\ syncWorker' = [v \in SyncWorkers |-> syncWorker'[v]]
        /\ \A v \in SyncWorkers \ {w} : syncWorker'[v] = syncWorker[v]
        /\ syncWorker'[w] =
               [job |-> syncWorker[w].job, todo |-> syncWorker[w].todo \ {syncWorker[w].good},
                good |-> Gone, document |-> Gone, alone |-> FALSE]
    BY <1>0, IndexLeaves, Zenon
  <2>2. syncWorker[w].job \in SyncEvents \cup {Gone} /\ syncWorker[w].todo \subseteq Goods
    BY <1>0, TurnFields
  <2>. QED
    BY <1>p, <2>1, <2>2 DEF Turns
<1>3. /\ indexed' \in [Goods -> Documents \cup {Gone}] /\ indexed'[p] = syncWorker[w].document
      /\ \A q \in Goods \ {p} : indexed'[q] = indexed[q]
      /\ crossed' = (IF syncWorker[w].alone THEN crossed \ {p} ELSE crossed \cup {p})
      /\ crossed' \subseteq Goods
  BY <1>0, <1>1, TurnFields DEF Index, SearchSyncTypeOK
<1>4. SearchSyncTypeOK'
  <2>1. \A v \in SyncWorkers : syncWorker'[v] \in Turns
    BY <1>0, <1>2, TurnFields
  <2>. QED
    BY <1>0, <1>2, <1>3, <2>1 DEF SearchSyncTypeOK, Turns
<1>5. EventsSound'
  BY <1>0, <1>2 DEF EventsSound, Idle, Standing
<1>6. AloneSound'
  BY <1>0, <1>2, ScriptFields DEF AloneSound, Holds
<1>7. \A q \in Goods \ {p} : Coming(q) => Coming(q)'
  <2> SUFFICES ASSUME NEW q \in Goods \ {p}, NEW j \in syncJobs, WillIndex(j, q)
               PROVE  WillIndex(j, q)'
    BY <1>0 DEF Coming
  <2>. QED
    BY <1>0, <1>2, WillStays DEF WillIndex, Holds
\* Of p: the job that was coming may have been the one that is written.
<1>8. Coming(p) => Coming(p)' \/ syncWorker[w].document = LoadSearchDocument(p)
  <2> SUFFICES ASSUME NEW j \in syncJobs, WillIndex(j, p),
                      syncWorker[w].document # LoadSearchDocument(p)
               PROVE  WillIndex(j, p)'
    BY <1>0 DEF Coming
  <2>1. syncWorker[w].job # j
    BY <1>p DEF WillIndex, Holds
  <2>. QED
    BY <1>0, <1>1, <1>2, <2>1, WillStays DEF WillIndex, Holds
\* Who else has read it is not alone.
<1>9. /\ syncWorker[w].alone =>
             syncWorker[w].document = LoadSearchDocument(p) \/ Coming(p)
      /\ \A v \in SyncWorkers \ {w} : ~(syncWorker[v].alone /\ syncWorker[v].good = p)
      /\ p \notin script.alone
  BY <1>0, <1>1, <1>p DEF IndexFollows, AloneSound, Holds
<1>10. IndexFollows'
  <2>1. ASSUME NEW q \in Goods \ crossed'
        PROVE  indexed'[q] = LoadSearchDocument(q) \/ Coming(q)'
    <3>1. CASE q = p
      BY <1>1, <1>3, <1>8, <1>9, <2>1, <3>1
    <3>2. CASE q # p
      BY <1>0, <1>3, <1>7, <2>1, <3>2 DEF IndexFollows
    <3>. QED
      BY <3>1, <3>2
  <2>2. ASSUME NEW v \in SyncWorkers, NEW q \in Goods,
               syncWorker'[v].alone, syncWorker'[v].good = q
        PROVE  syncWorker'[v].document = LoadSearchDocument(q) \/ Coming(q)'
    BY <1>0, <1>2, <1>7, <1>9, <2>2 DEF IndexFollows, Holds
  <2>3. \A q \in script.alone : script.document[q] = LoadSearchDocument(q) \/ Coming(q)'
    BY <1>0, <1>7, <1>9, ScriptFields DEF IndexFollows
  <2>. QED
    BY <1>0, <1>3, <2>1, <2>2, <2>3, ScriptFields DEF IndexFollows, Holds
<1>. QED
  BY <1>4, <1>5, <1>6, <1>10 DEF IndexInv

LEMMA ScriptStarts ==
    ASSUME IndexInv, NEW products \in SUBSET Goods, NEW document \in [Goods -> Documents \cup {Gone}],
           StartScript(products, document),
           \A p \in products : document[p] = LoadSearchDocument(p)
    PROVE  IndexInv'
<1>0. /\ SearchSyncTypeOK /\ EventsSound /\ AloneSound /\ IndexFollows
      /\ UNCHANGED <<good, shelf, writes, syncJobs, indexed, crossed>>
      /\ \A q \in Goods : LoadSearchDocument(q)' = LoadSearchDocument(q)
      /\ \A q \in Goods : Stocked(q)' = Stocked(q)
      /\ UNCHANGED catalogTables /\ Gone \notin Goods /\ Gone \notin SyncEvents
      /\ scripts' \in 0..MaxScripts
  <2>1. UNCHANGED catalogTables /\ UNCHANGED <<syncJobs, indexed, crossed>>
    BY DEF StartScript
  <2>2. scripts' \in 0..MaxScripts
    BY SearchSyncShape DEF StartScript, IndexInv, SearchSyncTypeOK
  <2>. QED
    BY <2>1, <2>2, WorkFacts
<1>1. /\ syncWorker' = [v \in SyncWorkers |-> syncWorker'[v]]
      /\ \A v \in SyncWorkers :
             /\ syncWorker'[v] \in Turns
             /\ syncWorker'[v].job = syncWorker[v].job /\ syncWorker'[v].todo = syncWorker[v].todo
             /\ syncWorker'[v].good = syncWorker[v].good
             /\ syncWorker'[v].document = syncWorker[v].document
             /\ syncWorker'[v].alone => syncWorker[v].alone
  <2>1. ASSUME NEW v \in SyncWorkers
        PROVE  /\ syncWorker'[v] \in Turns
               /\ syncWorker'[v].job = syncWorker[v].job /\ syncWorker'[v].todo = syncWorker[v].todo
               /\ syncWorker'[v].good = syncWorker[v].good
               /\ syncWorker'[v].document = syncWorker[v].document
               /\ syncWorker'[v].alone => syncWorker[v].alone
    <3>1. PICK t : t = syncWorker[v]
      OBVIOUS
    <3>2. PICK u : u = [t EXCEPT !.alone = FALSE]
      OBVIOUS
    <3>3. t \in Turns
      BY <1>0, <3>1, TurnFields
    <3>4. u \in Turns /\ u.job = t.job /\ u.todo = t.todo /\ u.good = t.good
          /\ u.document = t.document /\ u.alone = FALSE
      BY <3>2, <3>3 DEF Turns
    <3>5. syncWorker'[v] = IF t.good \in products THEN u ELSE t
      BY <3>1, <3>2 DEF StartScript
    <3>. QED
      BY <3>1, <3>3, <3>4, <3>5
  <2>2. syncWorker' = [v \in SyncWorkers |-> syncWorker'[v]]
    BY DEF StartScript
  <2>. QED
    BY <2>1, <2>2
<1>2. /\ script' = [todo |-> products, document |-> document, alone |-> script'.alone]
      /\ script'.document = document
      /\ script'.alone \subseteq products
      /\ \A p \in script'.alone, w \in SyncWorkers : syncWorker[w].good # p
  BY DEF StartScript, AloneWith, Holds
<1>3. SearchSyncTypeOK'
  BY <1>0, <1>1, <1>2 DEF SearchSyncTypeOK, Turns
<1>4. EventsSound'
  BY <1>0, <1>1 DEF EventsSound, Idle, Standing
<1>5. AloneSound'
  BY <1>0, <1>1, <1>2 DEF AloneSound, Holds
<1>6. \A q \in Goods : Coming(q) => Coming(q)'
  <2> SUFFICES ASSUME NEW q \in Goods, NEW j \in syncJobs, WillIndex(j, q)
               PROVE  WillIndex(j, q)'
    BY <1>0 DEF Coming
  <2>. QED
    BY <1>0, <1>1, WillStays DEF WillIndex, Holds
<1>7. IndexFollows'
  BY <1>0, <1>1, <1>2, <1>6 DEF IndexFollows, Holds
<1>. QED
  BY <1>3, <1>4, <1>5, <1>7 DEF IndexInv

LEMMA ScriptKeeps ==
    ASSUME IndexInv, NEW p \in Goods, RunScript(p)
    PROVE  IndexInv'
<1>0. /\ SearchSyncTypeOK /\ EventsSound /\ AloneSound /\ IndexFollows
      /\ UNCHANGED <<good, shelf, writes, syncJobs, syncWorker, scripts>>
      /\ \A q \in Goods : LoadSearchDocument(q)' = LoadSearchDocument(q)
      /\ \A q \in Goods : Stocked(q)' = Stocked(q)
      /\ UNCHANGED catalogTables
  BY WorkFacts DEF RunScript
<1>1. /\ indexed' \in [Goods -> Documents \cup {Gone}] /\ indexed'[p] = script.document[p]
      /\ \A q \in Goods \ {p} : indexed'[q] = indexed[q]
      /\ crossed' = (IF p \in script.alone THEN crossed \ {p} ELSE crossed \cup {p})
      /\ crossed' \subseteq Goods
  BY <1>0, ScriptFields DEF RunScript, Index, SearchSyncTypeOK
<1>2. /\ script'.todo \subseteq Goods /\ script'.alone = script.alone \ {p}
      /\ script'.document \in [Goods -> Documents \cup {Gone}]
      /\ \A q \in Goods \ {p} : script'.document[q] = script.document[q]
      /\ script' = [todo |-> script'.todo, document |-> script'.document, alone |-> script'.alone]
  <2>1. PICK t : t = script
    OBVIOUS
  <2>2. /\ t.todo \subseteq Goods /\ t.alone \subseteq Goods
        /\ t.document \in [Goods -> Documents \cup {Gone}]
        /\ t \in [todo : SUBSET Goods, document : [Goods -> Documents \cup {Gone}],
                  alone : SUBSET Goods]
    BY <1>0, <2>1, ScriptFields DEF SearchSyncTypeOK
  <2>3. PICK todo : todo = t.todo \ {p}
    OBVIOUS
  <2>4. PICK alone : alone = t.alone \ {p}
    OBVIOUS
  <2>5. PICK document : document = [t.document EXCEPT ![p] = Gone]
    OBVIOUS
  <2>6. script' = [t EXCEPT !.todo = todo, !.alone = alone, !.document = document]
    BY <2>1, <2>3, <2>4, <2>5, Zenon DEF RunScript
  <2>7. DOMAIN t = {"todo", "document", "alone"}
    BY <2>2
  <2>8. script' = [todo |-> todo, document |-> document, alone |-> alone]
    BY <2>6, <2>7
  <2>9. /\ document \in [Goods -> Documents \cup {Gone}]
        /\ \A q \in Goods \ {p} : document[q] = t.document[q]
    BY <2>2, <2>5
  <2>. QED
    BY <2>1, <2>2, <2>3, <2>4, <2>8, <2>9
<1>3. SearchSyncTypeOK'
  BY <1>0, <1>1, <1>2, ScriptFields DEF SearchSyncTypeOK
<1>4. EventsSound'
  BY <1>0 DEF EventsSound, Idle, Standing
<1>5. AloneSound'
  BY <1>0, <1>2, ScriptFields DEF AloneSound, Holds
<1>6. \A q \in Goods : Coming(q) => Coming(q)'
  <2> SUFFICES ASSUME NEW q \in Goods, NEW j \in syncJobs, WillIndex(j, q)
               PROVE  WillIndex(j, q)'
    BY <1>0 DEF Coming
  <2>. QED
    BY <1>0, WillStays DEF WillIndex, Holds
<1>7. IndexFollows'
  BY <1>0, <1>1, <1>2, <1>6, ScriptFields DEF IndexFollows, Holds
<1>. QED
  BY <1>3, <1>4, <1>5, <1>7 DEF IndexInv

LEMMA IndexStep == IndexInv /\ [SearchSyncNext]_searchSyncVars => IndexInv'
<1> SUFFICES ASSUME IndexInv, [SearchSyncNext]_searchSyncVars PROVE IndexInv'
  OBVIOUS
<1>0. SearchSyncTypeOK /\ EventsSound
  BY DEF IndexInv
<1>1. CASE Reindex
  <2>1. [p \in Goods |-> LoadSearchDocument(p)] \in [Goods -> Documents \cup {Gone}]
    BY <1>0, ADocument
  <2>. QED
    BY <1>1, <2>1, ScriptStarts DEF Reindex
<1>2. CASE RemoveUnpublished
  <2>1. \A p \in Goods : Stocked(p) /\ ~good[p].published => LoadSearchDocument(p) = Gone
    BY DEF LoadSearchDocument
  <2>. QED
    BY <1>2, <2>1, ScriptStarts DEF RemoveUnpublished
<1>3. CASE UNCHANGED searchSyncVars
  <2>1. UNCHANGED <<good, shelf, syncJobs, syncWorker, script, indexed, crossed, writes, scripts>>
    BY <1>3 DEF searchSyncVars
  <2>2. /\ \A p \in Goods : LoadSearchDocument(p)' = LoadSearchDocument(p)
        /\ \A p \in Goods : Stocked(p)' = Stocked(p)
        /\ AloneSound /\ IndexFollows /\ UNCHANGED catalogTables
    BY <2>1, WorkFacts DEF catalogTables
  <2>3. SearchSyncTypeOK' /\ EventsSound' /\ AloneSound'
    BY <1>0, <2>1, <2>2 DEF SearchSyncTypeOK, EventsSound, AloneSound, Holds, Idle, Standing
  <2>4. ASSUME NEW p \in Goods, Coming(p) PROVE Coming(p)'
    BY <1>0, <2>1, <2>2, <2>4, WillStays DEF Coming, WillIndex, Holds
  <2>5. IndexFollows'
    BY <1>0, <2>1, <2>2, <2>4, ScriptFields DEF IndexFollows, Holds
  <2>. QED
    BY <2>3, <2>5 DEF IndexInv
<1>. QED
  BY <1>1, <1>2, <1>3, CatalogStep, StartKeeps, ReadKeeps, IndexKeeps, LeaveKeeps, ScriptKeeps
  DEF SearchSyncNext

\* When every event is handled, the index shows each product as it is, but for
\* one whose last writer shared it with another.
THEOREM IndexCorrect == SearchSyncSpec => []IndexExplained
  BY IndexInvHolds, IndexStep, IndexSuffices, PTL DEF SearchSyncSpec

---------------------------------------------------------------------------
(* CachedForATimeOnly, for any keys, requests, times to live and writes.   *)

\* The greatest of the numbers that the keys were written with.
Greatest(f) ==
    CHOOSE n \in 0..MaxCommits :
        /\ \A k \in CacheKeys : f[k] <= n
        /\ \E k \in CacheKeys : f[k] = n

LEMMA CommitsIsGreatest == Commits = Greatest(current) /\ Commits' = Greatest(current')
  BY DEF Commits, Greatest

\* There is one, and it is not exceeded.
LEMMA GreatestIs ==
    ASSUME NEW f \in [CacheKeys -> 0..MaxCommits]
    PROVE  /\ Greatest(f) \in 0..MaxCommits
           /\ \A k \in CacheKeys : f[k] <= Greatest(f)
           /\ \E k \in CacheKeys : f[k] = Greatest(f)
<1>1. \A k \in CacheKeys : f[k] \in Int
  OBVIOUS
<1>2. PICK k \in CacheKeys : \A l \in CacheKeys : f[l] <= f[k]
  BY <1>1, LastOne, CatalogCacheShape
<1>3. f[k] \in 0..MaxCommits
  OBVIOUS
<1>. QED
  BY <1>2, <1>3 DEF Greatest

\* A write is numbered after all before it.
LEMMA GreatestGrows ==
    ASSUME NEW f \in [CacheKeys -> 0..MaxCommits], NEW k \in CacheKeys,
           Greatest(f) < MaxCommits
    PROVE  LET g == [f EXCEPT ![k] = Greatest(f) + 1]
           IN  g \in [CacheKeys -> 0..MaxCommits] /\ Greatest(g) = Greatest(f) + 1
<1> DEFINE n == Greatest(f)
           g == [f EXCEPT ![k] = n + 1]
<1>1. n \in 0..MaxCommits /\ \A l \in CacheKeys : f[l] <= n
  BY GreatestIs
<1> HIDE DEF n
<1>2. /\ g \in [CacheKeys -> 0..MaxCommits]
      /\ g[k] = n + 1 /\ \A l \in CacheKeys : g[l] <= n + 1
  <2>1. n + 1 \in 0..MaxCommits /\ n < n + 1
    BY <1>1, CatalogCacheShape DEF n
  <2>2. \A l \in CacheKeys : f[l] \in 0..MaxCommits /\ f[l] <= n + 1
    BY <1>1
  <2>. QED
    BY <2>1, <2>2
<1> HIDE DEF g
<1>3. /\ Greatest(g) \in 0..MaxCommits /\ \A l \in CacheKeys : g[l] <= Greatest(g)
      /\ \E l \in CacheKeys : g[l] = Greatest(g)
  BY <1>2, GreatestIs
<1>4. Greatest(g) = n + 1
  BY <1>1, <1>2, <1>3
<1>. QED
  BY <1>2, <1>4 DEF n, g

\* An entry of a key, and what a request has read: how old it is and how long it
\* may live still make the time to live and the time that a read takes.
EntrySound(k) ==
    entry[k] # Empty =>
        /\ entry[k] \in [value : 0..MaxCommits, age : Nat, ttl : Nat \ {0}]
        /\ entry[k].age + entry[k].ttl <= Ttl[k] + MaxLag

\* A search entry was found after the invalidation that made its version.
SearchEntrySound(v) ==
    searchEntry[v] # Empty =>
        /\ searchEntry[v] \in [ttl : Nat \ {0}, bumps : Nat]
        /\ searchEntry[v].bumps <= bumps
        /\ v >= 2 => v <= searchEntry[v].bumps

ReadSound(r) ==
    \/ read[r] = NoRead
    \/ /\ read[r] \in [stage : {"read"}, key : CacheKeys, value : 0..MaxCommits, age : Nat]
       /\ read[r].age <= MaxLag
    \/ /\ read[r] \in [stage : {"missed"}, version : Nat]
       /\ read[r].version >= 2 => read[r].version <= bumps
    \/ /\ read[r] \in [stage : {"found"}, version : Nat, bumps : Nat]
       /\ read[r].bumps <= bumps
       /\ read[r].version >= 2 => read[r].version <= read[r].bumps

\* Each write makes one invalidation of the searches at most.
BumpsCounted ==
    /\ searchVersion = bumps /\ bumps \in Nat
    /\ IsFiniteSet(due)
    /\ bumps + Cardinality(due) <= Commits

CacheInv ==
    /\ current \in [CacheKeys -> 0..MaxCommits]
    /\ entry = [k \in CacheKeys |-> entry[k]] /\ \A k \in CacheKeys : EntrySound(k)
    /\ searchEntry = [v \in Versions |-> searchEntry[v]]
    /\ \A v \in Versions : SearchEntrySound(v)
    /\ read = [r \in Readers |-> read[r]] /\ \A r \in Readers : ReadSound(r)
    /\ BumpsCounted

LEMMA CacheInvHolds == CatalogCacheInit => CacheInv
<1> SUFFICES ASSUME CatalogCacheInit PROVE CacheInv
  OBVIOUS
<1>1. current \in [CacheKeys -> 0..MaxCommits]
  BY CatalogCacheShape DEF CatalogCacheInit
<1>2. BumpsCounted
  <2>1. Commits \in 0..MaxCommits
    BY <1>1, CommitsIsGreatest, GreatestIs
  <2>2. IsFiniteSet(due) /\ Cardinality(due) = 0
    BY FS_EmptySet DEF CatalogCacheInit
  <2>. QED
    BY <2>1, <2>2 DEF BumpsCounted, CatalogCacheInit
<1>. QED
  BY <1>1, <1>2 DEF CatalogCacheInit, CacheInv, EntrySound, SearchEntrySound, ReadSound

\* One of the two that CachedForATimeOnly is made of.
LEMMA EntriesExpire == CacheInv => StaleForATimeOnly
<1> SUFFICES ASSUME CacheInv, NEW k \in CacheKeys, entry[k] # Empty
             PROVE  entry[k].age < Ttl[k] + MaxLag
  BY DEF StaleForATimeOnly
<1>1. /\ entry[k].age \in Nat /\ entry[k].ttl \in Nat \ {0}
      /\ entry[k].age + entry[k].ttl <= Ttl[k] + MaxLag
  BY DEF CacheInv, EntrySound
<1>2. Ttl[k] + MaxLag \in Nat
  BY CatalogCacheShape
<1>. QED
  BY <1>1, <1>2

\* The other: the version of the searches is one that there can be an entry of.
LEMMA SearchesAfterBump == CacheInv => SearchedSinceBump
<1> SUFFICES ASSUME CacheInv, searchVersion >= 2, searchEntry[searchVersion] # Empty
             PROVE  searchEntry[searchVersion].bumps = bumps
  BY DEF SearchedSinceBump
<1>1. Commits \in 0..MaxCommits /\ Cardinality(due) \in Nat
  BY CommitsIsGreatest, GreatestIs, FS_CardinalityType DEF CacheInv, BumpsCounted
<1>2. searchVersion = bumps /\ bumps \in Nat /\ searchVersion \in Versions
  BY <1>1, CatalogCacheShape DEF CacheInv, BumpsCounted, Versions
<1>3. SearchEntrySound(searchVersion)
  BY <1>2 DEF CacheInv
<1>. QED
  BY <1>2, <1>3 DEF SearchEntrySound

\* An invalidation that is over makes the ones that are due no more.
LEMMA DoneCounts ==
    ASSUME IsFiniteSet(due), NEW d \in due, Done(d)
    PROVE  /\ IsFiniteSet(due') /\ Cardinality(due') <= Cardinality(due)
           /\ d.steps = {"search"} => Cardinality(due') = Cardinality(due) - 1
<1> DEFINE rest == due \ {d}
<1>1. /\ IsFiniteSet(rest) /\ Cardinality(rest) = Cardinality(due) - 1
      /\ Cardinality(due) \in Nat /\ Cardinality(rest) \in Nat
  BY FS_RemoveElement, FS_CardinalityType, FS_Subset
<1>2. \/ due' = rest
      \/ "entry" \in d.steps /\ due' = rest \cup {[d EXCEPT !.steps = {"search"}]}
  BY DEF Done
<1> HIDE DEF rest
<1>3. ASSUME NEW e PROVE /\ IsFiniteSet(rest \cup {e})
                         /\ Cardinality(rest \cup {e}) <= Cardinality(due)
  <2>1. /\ IsFiniteSet(rest \cup {e})
        /\ Cardinality(rest \cup {e}) \in {Cardinality(rest), Cardinality(rest) + 1}
    BY <1>1, FS_AddElement, Zenon
  <2>. QED
    BY <1>1, <2>1
<1>4. CASE due' = rest
  <2>1. IsFiniteSet(due') /\ Cardinality(due') = Cardinality(rest)
    BY <1>1, <1>4, Zenon
  <2>. QED
    BY <1>1, <2>1
<1>5. CASE "entry" \in d.steps /\ due' = rest \cup {[d EXCEPT !.steps = {"search"}]}
  <2>1. IsFiniteSet(due') /\ Cardinality(due') <= Cardinality(due)
    BY <1>3, <1>5, Zenon
  <2>. QED
    BY <1>5, <2>1
<1>. QED
  BY <1>2, <1>4, <1>5

LEMMA CacheStep == CacheInv /\ [CatalogCacheNext]_catalogCacheVars => CacheInv'
<1> SUFFICES ASSUME CacheInv, [CatalogCacheNext]_catalogCacheVars PROVE CacheInv'
  OBVIOUS
<1>0. /\ current \in [CacheKeys -> 0..MaxCommits]
      /\ entry = [k \in CacheKeys |-> entry[k]] /\ \A k \in CacheKeys : EntrySound(k)
      /\ searchEntry = [v \in Versions |-> searchEntry[v]]
      /\ \A v \in Versions : SearchEntrySound(v)
      /\ read = [r \in Readers |-> read[r]] /\ \A r \in Readers : ReadSound(r)
      /\ BumpsCounted /\ bumps \in Nat
      /\ Commits = Greatest(current) /\ Commits' = Greatest(current')
      /\ Commits \in 0..MaxCommits
  BY CommitsIsGreatest, GreatestIs DEF CacheInv, BumpsCounted
<1> DEFINE Entries == entry' = [k \in CacheKeys |-> entry'[k]] /\ \A k \in CacheKeys : EntrySound(k)'
           Searches == /\ searchEntry' = [v \in Versions |-> searchEntry'[v]]
                       /\ \A v \in Versions : SearchEntrySound(v)'
           Reads == read' = [r \in Readers |-> read'[r]] /\ \A r \in Readers : ReadSound(r)'
\* Writes.
<1>1. ASSUME NEW k \in CacheKeys, CommitWrite(k) PROVE CacheInv'
  <2>1. /\ current' \in [CacheKeys -> 0..MaxCommits] /\ Commits' = Commits + 1
    BY <1>0, <1>1, GreatestGrows DEF CommitWrite
  <2>2. BumpsCounted'
    <3>1. PICK d : due' = due \cup {d}
      BY <1>1 DEF CommitWrite
    <3>2. /\ IsFiniteSet(due \cup {d}) /\ Cardinality(due) \in Nat
          /\ Cardinality(due \cup {d}) \in Nat
          /\ Cardinality(due \cup {d}) <= Cardinality(due) + 1
      <4>1. IsFiniteSet(due) /\ Cardinality(due) \in Nat
        BY <1>0, FS_CardinalityType DEF BumpsCounted
      <4>2. /\ IsFiniteSet(due \cup {d})
            /\ \/ Cardinality(due \cup {d}) = Cardinality(due)
               \/ Cardinality(due \cup {d}) = Cardinality(due) + 1
        BY <4>1, FS_AddElement, Zenon
      <4>. QED
        BY <4>1, <4>2
    <3>3. /\ IsFiniteSet(due') /\ Cardinality(due') <= Cardinality(due) + 1
          /\ Cardinality(due) \in Nat /\ Cardinality(due') \in Nat
      BY <3>1, <3>2, Zenon
    <3>4. searchVersion' = searchVersion /\ bumps' = bumps
      BY <1>1 DEF CommitWrite
    <3>. QED
      BY <1>0, <2>1, <3>3, <3>4 DEF BumpsCounted
  <2>3. Entries /\ Searches /\ Reads
    BY <1>0, <1>1 DEF CommitWrite, EntrySound, SearchEntrySound, ReadSound
  <2>. QED
    BY <2>1, <2>2, <2>3 DEF CacheInv
\* Invalidations.
<1>2. ASSUME NEW d \in due,
             \/ InvalidateEntry(d) \/ BumpSearchVersion(d) \/ MissInvalidation(d)
             \/ LoseInvalidations(d)
      PROVE  CacheInv'
  <2>1. UNCHANGED <<current, searchEntry, read>> /\ Commits' = Commits
    BY <1>0, <1>2 DEF InvalidateEntry, BumpSearchVersion, MissInvalidation, LoseInvalidations
  <2>2. /\ IsFiniteSet(due') /\ Cardinality(due') <= Cardinality(due)
        /\ d.steps = {"search"} => Cardinality(due') = Cardinality(due) - 1
        /\ Cardinality(due) \in Nat /\ Cardinality(due') \in Nat
    <3>1. CASE Done(d)
      BY <1>0, <3>1, DoneCounts, FS_CardinalityType DEF BumpsCounted
    <3>2. CASE due' = due \ {d}
      <4>1. /\ IsFiniteSet(due \ {d}) /\ Cardinality(due \ {d}) = Cardinality(due) - 1
            /\ Cardinality(due) \in Nat /\ Cardinality(due \ {d}) \in Nat
        BY <1>0, FS_RemoveElement, FS_CardinalityType DEF BumpsCounted
      <4>2. /\ IsFiniteSet(due') /\ Cardinality(due') = Cardinality(due) - 1
            /\ Cardinality(due') \in Nat
        BY <3>2, <4>1, Zenon
      <4>. QED
        BY <4>1, <4>2
    <3>. QED
      BY <1>2, <3>1, <3>2
         DEF InvalidateEntry, BumpSearchVersion, MissInvalidation, LoseInvalidations
  <2>3. \/ searchVersion' = searchVersion /\ bumps' = bumps
        \/ searchVersion' = searchVersion + 1 /\ bumps' = bumps + 1 /\ d.steps = {"search"}
    BY <1>2 DEF InvalidateEntry, BumpSearchVersion, MissInvalidation, LoseInvalidations
  <2>4. BumpsCounted'
    BY <1>0, <2>1, <2>2, <2>3 DEF BumpsCounted
  <2>5. Entries
    <3>1. \/ entry' = entry
          \/ entry' = [entry EXCEPT ![d.key] = Empty]
      BY <1>2 DEF InvalidateEntry, BumpSearchVersion, MissInvalidation, LoseInvalidations
    <3>. QED
      BY <1>0, <3>1 DEF EntrySound
  <2>6. Searches
    BY <1>0, <2>1, <2>3 DEF SearchEntrySound
  <2>7. Reads
    BY <1>0, <2>1, <2>3 DEF ReadSound
  <2>. QED
    BY <1>0, <2>1, <2>4, <2>5, <2>6, <2>7 DEF CacheInv
\* Reads.
<1>3. ASSUME NEW r \in Readers, NEW new, read' = [read EXCEPT ![r] = new],
             UNCHANGED <<current, searchVersion, bumps, due>>,
             \/ new = NoRead
             \/ /\ new \in [stage : {"read"}, key : CacheKeys, value : 0..MaxCommits, age : Nat]
                /\ new.age <= MaxLag
             \/ /\ new \in [stage : {"missed"}, version : Nat]
                /\ new.version >= 2 => new.version <= bumps
             \/ /\ new \in [stage : {"found"}, version : Nat, bumps : Nat]
                /\ new.bumps <= bumps
                /\ new.version >= 2 => new.version <= new.bumps,
             Entries, Searches
      PROVE  CacheInv'
  <2>1. read'[r] = new /\ \A q \in Readers \ {r} : read'[q] = read[q]
    BY <1>0, <1>3
  <2>2. Reads
    BY <1>0, <1>3, <2>1 DEF ReadSound
  <2>3. BumpsCounted'
    BY <1>0, <1>3 DEF BumpsCounted
  <2>. QED
    BY <1>0, <1>3, <2>2, <2>3 DEF CacheInv
<1>4. ASSUME NEW r \in Readers, NEW k \in CacheKeys, MissEntry(r, k) PROVE CacheInv'
  <2> DEFINE new == [stage |-> "read", key |-> k, value |-> current[k], age |-> 0]
  <2>1. /\ new \in [stage : {"read"}, key : CacheKeys, value : 0..MaxCommits, age : Nat]
        /\ new.age <= MaxLag
    BY <1>0, CatalogCacheShape
  <2>2. /\ read' = [read EXCEPT ![r] = new]
        /\ UNCHANGED <<current, entry, searchEntry, searchVersion, bumps, due>>
    BY <1>4 DEF MissEntry
  <2> HIDE DEF new
  <2>3. Entries /\ Searches
    BY <1>0, <2>2 DEF EntrySound, SearchEntrySound
  <2>. QED
    BY <1>3, <2>1, <2>2, <2>3
<1>5. ASSUME NEW r \in Readers, FillEntry(r) PROVE CacheInv'
  <2>1. /\ read[r] \in [stage : {"read"}, key : CacheKeys, value : 0..MaxCommits, age : Nat]
        /\ read[r].age <= MaxLag
    BY <1>0, <1>5 DEF FillEntry, ReadSound, NoRead
  <2>2. /\ read' = [read EXCEPT ![r] = NoRead]
        /\ UNCHANGED <<current, searchEntry, searchVersion, bumps, due>>
    BY <1>5 DEF FillEntry
  <2>3. PICK k \in CacheKeys, n \in 0..MaxCommits, a \in Nat :
          k = read[r].key /\ n = read[r].value /\ a = read[r].age
    BY <2>1
  <2> DEFINE new == [value |-> n, age |-> a, ttl |-> Ttl[k]]
  <2>4. new \in [value : 0..MaxCommits, age : Nat, ttl : Nat \ {0}]
        /\ new.age + new.ttl <= Ttl[k] + MaxLag
    BY <2>1, <2>3, CatalogCacheShape
  <2>5. entry' = [entry EXCEPT ![k] = new] \/ entry' = entry
    BY <1>5, <2>3 DEF FillEntry, SetJson
  <2> HIDE DEF new
  <2>6. Entries
    BY <1>0, <2>4, <2>5 DEF EntrySound
  <2>7. Searches
    BY <1>0, <2>2 DEF SearchEntrySound
  <2>. QED
    BY <1>3, <2>2, <2>6, <2>7
\* Searches.
<1>6. ASSUME NEW r \in Readers, NEW v \in Versions, StartSearch(r, v) PROVE CacheInv'
  <2> DEFINE new == [stage |-> "missed", version |-> v]
  <2>1. /\ new \in [stage : {"missed"}, version : Nat]
        /\ new.version >= 2 => new.version <= bumps
    BY <1>0, <1>6 DEF StartSearch, GetSearchVersion, BumpsCounted, Versions
  <2>2. /\ read' = [read EXCEPT ![r] = new]
        /\ UNCHANGED <<current, entry, searchEntry, searchVersion, bumps, due>>
    BY <1>6 DEF StartSearch
  <2> HIDE DEF new
  <2>3. Entries /\ Searches
    BY <1>0, <2>2 DEF EntrySound, SearchEntrySound
  <2>. QED
    BY <1>3, <2>1, <2>2, <2>3
<1>7. ASSUME NEW r \in Readers, SearchIndex(r) PROVE CacheInv'
  <2>1. /\ read[r] \in [stage : {"missed"}, version : Nat]
        /\ read[r].version >= 2 => read[r].version <= bumps
    BY <1>0, <1>7 DEF SearchIndex, ReadSound, NoRead
  <2> DEFINE new == [stage |-> "found", version |-> read[r].version, bumps |-> bumps]
  <2>2. /\ new \in [stage : {"found"}, version : Nat, bumps : Nat]
        /\ new.bumps <= bumps
        /\ new.version >= 2 => new.version <= new.bumps
    BY <1>0, <2>1
  <2>3. /\ read' = [read EXCEPT ![r] = new]
        /\ UNCHANGED <<current, entry, searchEntry, searchVersion, bumps, due>>
    BY <1>7 DEF SearchIndex
  <2> HIDE DEF new
  <2>4. Entries /\ Searches
    BY <1>0, <2>3 DEF EntrySound, SearchEntrySound
  <2>. QED
    BY <1>3, <2>2, <2>3, <2>4
<1>8. ASSUME NEW r \in Readers, FillSearch(r) PROVE CacheInv'
  <2>1. /\ read[r] \in [stage : {"found"}, version : Nat, bumps : Nat]
        /\ read[r].bumps <= bumps
        /\ read[r].version >= 2 => read[r].version <= read[r].bumps
    BY <1>0, <1>8 DEF FillSearch, ReadSound, NoRead
  <2>2. /\ read' = [read EXCEPT ![r] = NoRead]
        /\ UNCHANGED <<current, entry, searchVersion, bumps, due>>
    BY <1>8 DEF FillSearch
  <2>3. PICK v \in Nat, b \in Nat : v = read[r].version /\ b = read[r].bumps
    BY <2>1
  <2> DEFINE new == [ttl |-> SearchTtl, bumps |-> b]
  <2>4. new \in [ttl : Nat \ {0}, bumps : Nat] /\ new.bumps <= bumps /\ (v >= 2 => v <= new.bumps)
    BY <2>1, <2>3, CatalogCacheShape
  <2>5. searchEntry' = [searchEntry EXCEPT ![v] = new] \/ searchEntry' = searchEntry
    BY <1>8, <2>3 DEF FillSearch, StoreAt
  <2> HIDE DEF new
  <2>6. Searches
    BY <1>0, <2>2, <2>4, <2>5 DEF SearchEntrySound
  <2>7. Entries
    BY <1>0, <2>2 DEF EntrySound
  <2>. QED
    BY <1>3, <2>2, <2>6, <2>7
\* Time passes.
<1>9. CASE Tick
  <2>0. UNCHANGED <<current, searchVersion, bumps, due>>
    BY <1>9 DEF Tick
  <2>1. Entries
    <3>1. entry' = [k \in CacheKeys |-> IF Expires(entry[k]) THEN Empty
                      ELSE [entry[k] EXCEPT !.ttl = @ - 1, !.age = Older(k, @)]]
      BY <1>9 DEF Tick
    <3>2. ASSUME NEW k \in CacheKeys PROVE EntrySound(k)'
      <4>1. CASE Expires(entry[k])
        BY <3>1, <4>1 DEF EntrySound
      <4>2. CASE ~Expires(entry[k])
        <5>1. PICK e : e = entry[k]
          OBVIOUS
        <5>2. /\ e # Empty /\ e.ttl # 1
              /\ e \in [value : 0..MaxCommits, age : Nat, ttl : Nat \ {0}]
              /\ e.age + e.ttl <= Ttl[k] + MaxLag
          BY <1>0, <4>2, <5>1 DEF Expires, EntrySound
        <5>3. Older(k, e.age) \in Nat /\ Older(k, e.age) <= e.age + 1
          BY <5>2 DEF Older
        <5>4. entry'[k] = [e EXCEPT !.ttl = @ - 1, !.age = Older(k, @)]
          BY <3>1, <4>2, <5>1
        <5>5. PICK a \in Nat : a = Older(k, e.age)
          BY <5>3
        <5>6. PICK t \in Nat \ {0} : t = e.ttl - 1
          BY <5>2
        <5>7. /\ entry'[k] \in [value : 0..MaxCommits, age : Nat, ttl : Nat \ {0}]
              /\ entry'[k].age = a /\ entry'[k].ttl = e.ttl - 1
          <6>1. entry'[k] = [e EXCEPT !.ttl = t, !.age = a]
            BY <5>2, <5>4, <5>5, <5>6
          <6>2. DOMAIN e = {"value", "age", "ttl"} /\ e.value \in 0..MaxCommits
            BY <5>2
          <6>3. entry'[k] = [value |-> e.value, age |-> a, ttl |-> t]
            BY <5>2, <6>1
          <6>. QED
            BY <5>6, <6>2, <6>3
        <5>8. a + (e.ttl - 1) <= Ttl[k] + MaxLag
          <6>1. Ttl[k] + MaxLag \in Nat /\ a <= e.age + 1
            BY <5>3, <5>5, CatalogCacheShape
          <6>. QED
            BY <5>2, <6>1
        <5>9. entry'[k].age + entry'[k].ttl <= Ttl[k] + MaxLag
          BY <5>7, <5>8
        <5>. QED
          BY <5>7, <5>9 DEF EntrySound
      <4>. QED
        BY <4>1, <4>2
    <3>. QED
      BY <3>1, <3>2
  <2>2. Searches
    <3>1. searchEntry' = [v \in Versions |-> IF Expires(searchEntry[v]) THEN Empty
                             ELSE [searchEntry[v] EXCEPT !.ttl = @ - 1]]
      BY <1>9 DEF Tick
    <3>2. ASSUME NEW v \in Versions PROVE SearchEntrySound(v)'
      <4>1. CASE Expires(searchEntry[v])
        BY <3>1, <4>1 DEF SearchEntrySound
      <4>2. CASE ~Expires(searchEntry[v])
        <5>1. PICK e : e = searchEntry[v]
          OBVIOUS
        <5>2. /\ e # Empty /\ e.ttl # 1 /\ e \in [ttl : Nat \ {0}, bumps : Nat]
              /\ e.bumps <= bumps /\ (v >= 2 => v <= e.bumps)
          BY <1>0, <4>2, <5>1 DEF Expires, SearchEntrySound
        <5>3. searchEntry'[v] = [e EXCEPT !.ttl = e.ttl - 1]
          BY <3>1, <4>2, <5>1
        <5>. QED
          BY <2>0, <5>2, <5>3 DEF SearchEntrySound
      <4>. QED
        BY <4>1, <4>2
    <3>. QED
      BY <3>1, <3>2
  <2>3. Reads
    <3>1. /\ read' = [r \in Readers |-> IF read[r].stage = "read"
                                        THEN [read[r] EXCEPT !.age = @ + 1] ELSE read[r]]
          /\ \A r \in Readers : read[r].stage = "read" => read[r].age < MaxLag
      BY <1>9 DEF Tick
    <3>2. ASSUME NEW r \in Readers PROVE ReadSound(r)'
      <4>1. CASE read[r].stage = "read"
        <5>1. PICK e : e = read[r]
          OBVIOUS
        <5>2. /\ e \in [stage : {"read"}, key : CacheKeys, value : 0..MaxCommits, age : Nat]
              /\ e.age < MaxLag
          BY <1>0, <3>1, <4>1, <5>1 DEF ReadSound, NoRead
        <5>3. read'[r] = [e EXCEPT !.age = e.age + 1]
          BY <3>1, <4>1, <5>1
        <5>. QED
          BY <5>2, <5>3, CatalogCacheShape DEF ReadSound
      <4>2. CASE read[r].stage # "read"
        <5>1. read'[r] = read[r]
          BY <3>1, <4>2
        <5>. QED
          BY <1>0, <2>0, <5>1 DEF ReadSound
      <4>. QED
        BY <4>1, <4>2
    <3>. QED
      BY <3>1, <3>2
  <2>4. BumpsCounted'
    BY <1>0, <2>0 DEF BumpsCounted
  <2>. QED
    BY <1>0, <2>0, <2>1, <2>2, <2>3, <2>4 DEF CacheInv
<1>10. CASE UNCHANGED catalogCacheVars
  BY <1>0, <1>10
     DEF catalogCacheVars, CacheInv, EntrySound, SearchEntrySound, ReadSound, BumpsCounted
<1>. QED
  BY <1>1, <1>2, <1>4, <1>5, <1>6, <1>7, <1>8, <1>9, <1>10 DEF CatalogCacheNext

\* What the cache answers is outdated for a time only, and a search that
\* follows an invalidation never is.
THEOREM CachedForATimeCorrect == CatalogCacheSpec => []CachedForATimeOnly
<1>1. CacheInv => CachedForATimeOnly
  BY EntriesExpire, SearchesAfterBump DEF CachedForATimeOnly
<1>. QED
  BY CacheInvHolds, CacheStep, <1>1, PTL DEF CatalogCacheSpec

---------------------------------------------------------------------------
(* QuietPageIsCurrent, for any writers, workers, changes and connections.  *)

\* What can be read of the row.
Reads == [change : Nat, updatedAt : Nat]

\* Every transaction has a time of its own.
WritersSound ==
    /\ clock \in Nat /\ row \in Reads /\ row.updatedAt <= clock
    /\ begun = [w \in RowWriters |-> begun[w]]
    /\ \A w \in RowWriters :
        begun[w] # None =>
            /\ begun[w] \in 1..clock /\ begun[w] # row.updatedAt
            /\ \A v \in RowWriters : begun[v] = begun[w] => v = w

\* What was read of the row is the row or an earlier change.
Earlier(s) == s = row \/ s.change < row.change

\* While nothing is missed, it is also older by updatedAt.
NoNewer(s) == s = row \/ s.updatedAt < row.updatedAt

\* A worker reads the row after the change that its event is of.
WorkersSound ==
    /\ updates \subseteq Nat
    /\ rtWorker = [w \in RtWorkers |-> rtWorker[w]]
    /\ \A w \in RtWorkers :
        \/ rtWorker[w] = NoWork
        \/ /\ rtWorker[w] \in [event : Nat, read : Reads]
           /\ Earlier(rtWorker[w].read) /\ rtWorker[w].event <= rtWorker[w].read.change
           /\ ~gap => NoNewer(rtWorker[w].read)
    /\ \A event \in updates : event <= row.change

WireSound == wire \subseteq Reads /\ \A s \in wire : ~gap => NoNewer(s)

\* What the page will have when its request is answered is the row, or the page
\* will be told of the row's last change.
PageFollows ==
    LET base == IF pageFetch = None THEN copy ELSE pageFetch
    IN  ~gap /\ pageFetch # Asked /\ base # None =>
            NoNewer(base) /\ (base = row \/ row.change \in updates \/ row \in wire)

RealtimeInv ==
    /\ WritersSound /\ WorkersSound /\ WireSound /\ PageFollows
    /\ copy \in Reads \cup {None} /\ pageFetch \in Reads \cup {None, Asked}
    /\ cached \in Reads \cup {None} /\ gap \in BOOLEAN

\* A snapshot is neither nothing nor a request, and no work is not a snapshot's.
LEMMA Marks ==
    /\ None \notin Reads /\ Asked \notin Reads /\ None # Asked /\ None \notin Nat
    /\ NoWork \notin [event : Nat, read : Reads]
<1>1. \A s \in Reads : DOMAIN s = {"change", "updatedAt"}
  BY DEF Reads
<1>2. DOMAIN Asked = {"asked"}
  BY DEF Asked
<1>3. None \notin Nat /\ None \notin Reads /\ None # Asked
  BY RealtimeShape DEF Reads
<1>4. NoWork.event = None
  BY DEF NoWork
<1>. QED
  BY <1>1, <1>2, <1>3, <1>4

\* A page that has loaded nothing has missed nothing.
LEMMA RealtimeInvHolds == RealtimeInit => RealtimeInv
<1> SUFFICES ASSUME RealtimeInit PROVE RealtimeInv
  OBVIOUS
<1>1. row \in Reads
  BY DEF RealtimeInit, Reads
<1>2. WritersSound /\ WorkersSound /\ WireSound
  BY <1>1 DEF RealtimeInit, WritersSound, WorkersSound, WireSound
<1>3. cached \in Reads \cup {None}
  BY <1>1 DEF RealtimeInit
<1>. QED
  BY <1>2, <1>3, Marks DEF RealtimeInit, RealtimeInv, PageFollows

\* When nothing is on its way, the page was told of the last change.
LEMMA RealtimeSuffices == RealtimeInv => QuietPageIsCurrent
  BY Marks DEF RealtimeInv, PageFollows, QuietPageIsCurrent, Quiet, WireSound

\* What the page has and waits for is untouched, and the page is told of as much.
LEMMA TellsTheSame ==
    ASSUME PageFollows, UNCHANGED <<row, copy, pageFetch>>, ~gap' => ~gap,
           ~gap' /\ row.change \in updates => row.change \in updates' \/ row \in wire',
           ~gap' /\ row \in wire => row \in wire'
    PROVE  PageFollows'
  BY DEF PageFollows, NoNewer

\* A change by a later transaction is announced; one by an earlier one, or one
\* that nobody announces, is missed.
LEMMA RealtimeStep == RealtimeInv /\ [RealtimeNext]_realtimeVars => RealtimeInv'
<1> SUFFICES ASSUME RealtimeInv, [RealtimeNext]_realtimeVars PROVE RealtimeInv'
  OBVIOUS
<1>0. /\ WritersSound /\ WorkersSound /\ WireSound /\ PageFollows
      /\ copy \in Reads \cup {None} /\ pageFetch \in Reads \cup {None, Asked}
      /\ cached \in Reads \cup {None} /\ gap \in BOOLEAN
      /\ row \in Reads /\ row.change \in Nat /\ row.updatedAt \in Nat
  BY DEF RealtimeInv, WritersSound, Reads
<1> DEFINE PageSame == UNCHANGED <<copy, pageFetch, cached>>
           RowSame == UNCHANGED <<row, begun, clock>>
           WorkSame == UNCHANGED <<updates, rtWorker>>
\* The row.
<1>1. ASSUME NEW w \in RowWriters, BeginChange(w) PROVE RealtimeInv'
  <2>1. UNCHANGED <<row, updates, rtWorker, wire, copy, pageFetch, cached, gap>>
    BY <1>1 DEF BeginChange, page
  <2>2. WritersSound'
    BY <1>0, <1>1, <2>1, Marks DEF WritersSound, BeginChange
  <2>. QED
    BY <1>0, <2>1, <2>2, TellsTheSame
    DEF RealtimeInv, WorkersSound, WireSound, Earlier, NoNewer
<1>2. ASSUME NEW w \in RowWriters, CommitChange(w) PROVE RealtimeInv'
  <2>1. /\ UNCHANGED <<clock, rtWorker, wire, copy, pageFetch, cached>>
        /\ begun[w] # None /\ begun[w] \in Nat /\ begun[w] <= clock /\ clock \in Nat
        /\ begun[w] # row.updatedAt
        /\ row' = [change |-> row.change + 1, updatedAt |-> begun[w]]
        /\ updates' \in {updates, updates \cup {row.change + 1}}
        /\ gap' \in BOOLEAN
        /\ ~gap' => /\ ~gap /\ ~(begun[w] < row.updatedAt)
                    /\ updates' = updates \cup {row.change + 1}
    <3>1. PICK announced \in BOOLEAN :
            /\ updates' = IF announced THEN updates \cup {row.change + 1} ELSE updates
            /\ gap' = (gap \/ ~announced \/ begun[w] < row.updatedAt)
      BY <1>2 DEF CommitChange
    <3>2. gap' \in BOOLEAN /\ (~gap' => announced /\ ~gap /\ ~(begun[w] < row.updatedAt))
      BY <1>0, <3>1, Zenon
    <3>3. /\ UNCHANGED <<clock, rtWorker, wire, copy, pageFetch, cached>>
          /\ begun[w] # None
          /\ row' = [change |-> row.change + 1, updatedAt |-> begun[w]]
      BY <1>2 DEF CommitChange, page
    <3>4. /\ begun[w] \in Nat /\ begun[w] <= clock /\ clock \in Nat
          /\ begun[w] # row.updatedAt
      BY <1>0, <3>3 DEF WritersSound
    <3>. QED
      BY <3>1, <3>2, <3>3, <3>4
  <2>2. /\ row' \in Reads /\ row'.change = row.change + 1 /\ row'.updatedAt = begun[w]
        /\ gap' \in BOOLEAN /\ (~gap' => ~gap /\ row.updatedAt < row'.updatedAt)
    <3>1. PICK n \in Nat : n = row.change + 1
      BY <1>0
    <3>2. PICK t \in Nat : t = begun[w]
      BY <2>1
    <3>3. row' = [change |-> n, updatedAt |-> t]
      BY <2>1, <3>1, <3>2
    <3>4. row' \in Reads /\ row'.change = n /\ row'.updatedAt = t
      BY <3>3 DEF Reads
    <3>5. gap' \in BOOLEAN /\ (~gap' => ~gap /\ row.updatedAt < t)
      <4>1. gap' \in BOOLEAN /\ (~gap' => ~gap /\ ~(begun[w] < row.updatedAt))
        BY <2>1
      <4>2. ~(t < row.updatedAt) /\ t # row.updatedAt => row.updatedAt < t
        BY <1>0
      <4>3. begun[w] = t /\ t # row.updatedAt
        BY <2>1, <3>2
      <4>. QED
        BY <4>1, <4>2, <4>3
    <3>. QED
      BY <3>1, <3>2, <3>4, <3>5
  <2>3. \A s \in Reads : /\ Earlier(s) => Earlier(s)'
                         /\ ~gap' /\ NoNewer(s) => NoNewer(s)'
    <3> SUFFICES ASSUME NEW s \in Reads
                 PROVE  /\ s = row \/ s.change < row.change => s.change < row'.change
                        /\ ~gap' /\ (s = row \/ s.updatedAt < row.updatedAt) =>
                               s.updatedAt < row'.updatedAt
      BY DEF Earlier, NoNewer
    <3>1. s.change \in Nat /\ s.updatedAt \in Nat
      BY DEF Reads
    <3>. QED
      BY <1>0, <2>1, <2>2, <3>1
  <2>4. WritersSound'
    <3>1. begun' = [begun EXCEPT ![w] = None]
      BY <1>2 DEF CommitChange
    <3>2. /\ begun'[w] = None
          /\ \A v \in RowWriters \ {w} :
                 begun'[v] = begun[v] /\ (begun[v] # begun[w] \/ begun'[v] = None)
      BY <1>0, <2>1, <3>1 DEF WritersSound
    <3>. QED
      BY <1>0, <2>1, <2>2, <3>1, <3>2, Marks DEF WritersSound
  <2>5. WorkersSound'
    <3>1. updates' \subseteq Nat /\ \A event \in updates' : event <= row'.change
      BY <1>0, <2>1, <2>2 DEF WorkersSound
    <3>2. ASSUME NEW v \in RtWorkers, rtWorker[v] # NoWork
          PROVE  /\ rtWorker[v] \in [event : Nat, read : Reads]
                 /\ Earlier(rtWorker[v].read)' /\ rtWorker[v].event <= rtWorker[v].read.change
                 /\ ~gap' => NoNewer(rtWorker[v].read)'
      <4>1. PICK s \in Reads : s = rtWorker[v].read
        BY <1>0, <3>2 DEF WorkersSound
      <4>2. /\ rtWorker[v] \in [event : Nat, read : Reads]
            /\ Earlier(s) /\ rtWorker[v].event <= s.change /\ (~gap => NoNewer(s))
        BY <1>0, <3>2, <4>1 DEF WorkersSound
      <4>3. Earlier(s)' /\ (~gap' => NoNewer(s)')
        BY <2>2, <2>3, <4>2
      <4>. QED
        BY <2>1, <4>1, <4>2, <4>3 DEF Earlier, NoNewer
    <3>. QED
      BY <1>0, <2>1, <3>1, <3>2 DEF WorkersSound, Earlier, NoNewer
  <2>6. WireSound'
    BY <1>0, <2>1, <2>2, <2>3 DEF WireSound
  <2>7. PageFollows'
    <3>1. ~gap' => row'.change \in updates'
      BY <2>1, <2>2
    <3>2. ASSUME NEW base \in Reads, ~gap', NoNewer(base) PROVE NoNewer(base)'
      BY <2>3, <3>2
    <3>. QED
      BY <1>0, <2>1, <2>2, <3>1, <3>2 DEF PageFollows
  <2>. QED
    BY <1>0, <2>1, <2>2, <2>4, <2>5, <2>6, <2>7 DEF RealtimeInv
\* The workers.
<1>3. ASSUME NEW w \in RtWorkers, NEW event \in updates, ReadRow(w, event) PROVE RealtimeInv'
  <2>1. /\ UNCHANGED <<row, begun, clock, updates, wire, copy, pageFetch, cached, gap>>
        /\ rtWorker' = [rtWorker EXCEPT ![w] = [event |-> event, read |-> row]]
    BY <1>3 DEF ReadRow, page
  <2>2. WorkersSound'
    BY <1>0, <2>1 DEF WorkersSound, Earlier, NoNewer
  <2>. QED
    BY <1>0, <2>1, <2>2, TellsTheSame DEF RealtimeInv, WritersSound, WireSound, NoNewer
<1>4. ASSUME NEW w \in RtWorkers, EmitRow(w) PROVE RealtimeInv'
  <2>1. /\ UNCHANGED <<row, begun, clock, copy, pageFetch, cached>>
        /\ rtWorker' = [rtWorker EXCEPT ![w] = NoWork]
        /\ updates' \in {updates, updates \ {rtWorker[w].event}}
        /\ gap' = (gap \/ ~joined) /\ gap' \in BOOLEAN
        /\ wire' = (IF joined THEN wire \cup {rtWorker[w].read} ELSE wire)
        /\ rtWorker[w] # NoWork
    BY <1>0, <1>4 DEF EmitRow, page
  <2>2. /\ rtWorker[w].event \in Nat /\ rtWorker[w].read \in Reads
        /\ Earlier(rtWorker[w].read) /\ rtWorker[w].event <= rtWorker[w].read.change
        /\ ~gap => NoNewer(rtWorker[w].read)
    BY <1>0, <2>1 DEF WorkersSound
  <2>3. rtWorker[w].event = row.change => rtWorker[w].read = row
    BY <1>0, <2>2 DEF Earlier, Reads
  <2>4. WorkersSound'
    BY <1>0, <2>1 DEF WorkersSound, Earlier, NoNewer
  <2>5. WireSound'
    BY <1>0, <2>1, <2>2 DEF WireSound, NoNewer
  <2>6. PageFollows'
    <3>1. ~gap' => joined /\ ~gap
      BY <2>1
    <3>2. ~gap' /\ row \in wire => row \in wire'
      BY <2>1
    <3>3. ~gap' /\ row.change \in updates => row.change \in updates' \/ row \in wire'
      BY <2>1, <2>3, <3>1
    <3>. QED
      BY <1>0, <2>1, <3>1, <3>2, <3>3, TellsTheSame
  <2>. QED
    BY <1>0, <2>1, <2>4, <2>5, <2>6 DEF RealtimeInv, WritersSound
<1>5. ASSUME NEW w \in RtWorkers, FailUpdate(w) PROVE RealtimeInv'
  <2>1. /\ UNCHANGED <<row, begun, clock, updates, wire, copy, pageFetch, cached, gap>>
        /\ rtWorker' = [rtWorker EXCEPT ![w] = NoWork]
    BY <1>5 DEF FailUpdate, page
  <2>2. WorkersSound'
    BY <1>0, <2>1 DEF WorkersSound, Earlier, NoNewer
  <2>. QED
    BY <1>0, <2>1, <2>2, TellsTheSame DEF RealtimeInv, WritersSound, WireSound, NoNewer
\* The socket.
<1>6. CASE Connect
  <2>1. /\ UNCHANGED <<row, begun, clock, updates, rtWorker, wire, copy, cached, gap>>
        /\ pageFetch' = pageFetch \/ pageFetch' = Asked
    BY <1>6 DEF Connect, server, Resync
  <2>2. PageFollows'
    BY <1>0, <2>1 DEF PageFollows, NoNewer
  <2>. QED
    BY <1>0, <2>1, <2>2 DEF RealtimeInv, WritersSound, WorkersSound, WireSound, Earlier, NoNewer
<1>7. CASE Drop \/ ReconnectRealtimeSocket
  <2>1. /\ UNCHANGED <<row, begun, clock, updates, rtWorker, copy, pageFetch, cached>>
        /\ wire' = {} /\ gap' = (gap \/ wire # {})
    BY <1>7 DEF Drop, ReconnectRealtimeSocket, Disconnected, server, page
  <2>2. PageFollows'
    BY <1>0, <2>1, TellsTheSame
  <2>. QED
    BY <1>0, <2>1, <2>2 DEF RealtimeInv, WritersSound, WorkersSound, WireSound, Earlier, NoNewer
<1>8. CASE \/ Join \/ ExpireSocketToken \/ UNCHANGED realtimeVars
  <2>1. UNCHANGED <<row, begun, clock, updates, rtWorker, wire, copy, pageFetch, cached, gap>>
    BY <1>8 DEF Join, ExpireSocketToken, realtimeVars, server, page
  <2>. QED
    BY <1>0, <2>1, TellsTheSame
    DEF RealtimeInv, WritersSound, WorkersSound, WireSound, Earlier, NoNewer
\* The page.
<1>9. ASSUME NEW event \in wire, Receive(event) PROVE RealtimeInv'
  <2>1. /\ UNCHANGED <<row, begun, clock, updates, rtWorker, pageFetch, cached>>
        /\ wire' = wire \ {event} /\ copy' = Merge(copy, event)
        /\ gap' = (gap \/ pageFetch # None)
        /\ event \in Reads /\ (~gap => NoNewer(event))
    BY <1>0, <1>9 DEF Receive, server, WireSound
  <2>2. copy' \in {copy, event} /\ (copy = None => copy' = None) /\ copy' \in Reads \cup {None}
    BY <1>0, <2>1 DEF Merge
  <2>3. PageFollows'
    <3> SUFFICES ASSUME ~gap', copy' # None
                 PROVE  /\ NoNewer(copy')
                        /\ copy' = row \/ row.change \in updates \/ row \in wire'
      BY <1>0, <2>1 DEF PageFollows, NoNewer
    <3>1. /\ pageFetch = None /\ copy \in Reads /\ NoNewer(copy) /\ NoNewer(event)
          /\ copy = row \/ row.change \in updates \/ row \in wire
      BY <1>0, <2>1, <2>2, Marks DEF PageFollows
    <3>2. copy.updatedAt \in Nat /\ event.updatedAt \in Nat
      BY <2>1, <3>1 DEF Reads
    <3>3. copy = row \/ event = row => copy' = row
      BY <1>0, <2>1, <3>1, <3>2, Marks DEF Merge, NoNewer
    <3>4. NoNewer(copy')
      BY <2>2, <3>1
    <3>. QED
      BY <2>1, <3>1, <3>3, <3>4
  <2>. QED
    BY <1>0, <2>1, <2>2, <2>3 DEF RealtimeInv, WritersSound, WorkersSound, WireSound, Earlier, NoNewer
<1>10. CASE Poll
  <2>1. /\ UNCHANGED <<row, begun, clock, updates, rtWorker, wire, copy, cached, gap>>
        /\ pageFetch' = Asked
    BY <1>10 DEF Poll, server
  <2>. QED
    BY <1>0, <2>1 DEF RealtimeInv, WritersSound, WorkersSound, WireSound, Earlier, NoNewer, PageFollows
<1>11. CASE GetRow
  <2>1. /\ UNCHANGED <<row, begun, clock, updates, rtWorker, wire, copy>>
        /\ cached' \in Reads \cup {None}
    BY <1>0, <1>11 DEF GetRow, server
  <2>2. \/ /\ pageFetch' = row /\ gap' = ~Covered
        \/ /\ pageFetch' = cached /\ cached # None /\ gap' = (gap \/ cached # row)
    BY <1>11 DEF GetRow
  <2>3. /\ gap' \in BOOLEAN /\ pageFetch' \in Reads
        /\ ~gap' => /\ pageFetch' = row
                    /\ ~gap \/ (wire = {} /\ \A w \in RtWorkers : rtWorker[w] = NoWork)
    BY <1>0, <2>2 DEF Covered
  <2>4. PageFollows'
    BY <2>1, <2>3, Marks DEF PageFollows, NoNewer
  <2>5. WorkersSound' /\ WireSound'
    BY <1>0, <2>1, <2>3 DEF WorkersSound, WireSound, Earlier, NoNewer
  <2>. QED
    BY <1>0, <2>1, <2>3, <2>4, <2>5 DEF RealtimeInv, WritersSound
<1>12. CASE ReceiveRow
  <2>1. /\ UNCHANGED <<row, begun, clock, updates, rtWorker, wire, cached, gap>>
        /\ pageFetch \notin {None, Asked} /\ copy' = pageFetch /\ pageFetch' = None
    BY <1>12 DEF ReceiveRow, server
  <2>2. PageFollows'
    BY <1>0, <2>1, Marks DEF PageFollows, NoNewer
  <2>. QED
    BY <1>0, <2>1, <2>2 DEF RealtimeInv, WritersSound, WorkersSound, WireSound, Earlier, NoNewer
<1>13. CASE FailPageFetch
  <2>1. /\ UNCHANGED <<row, begun, clock, updates, rtWorker, wire, copy, cached>>
        /\ pageFetch' = None /\ gap' = TRUE
    BY <1>13 DEF FailPageFetch, server
  <2>. QED
    BY <1>0, <2>1 DEF RealtimeInv, WritersSound, WorkersSound, WireSound, Earlier, NoNewer, PageFollows
<1>14. CASE EvictCached
  <2>1. /\ UNCHANGED <<row, begun, clock, updates, rtWorker, wire, copy, pageFetch, gap>>
        /\ cached' = None
    BY <1>14 DEF EvictCached, server
  <2>. QED
    BY <1>0, <2>1, TellsTheSame
    DEF RealtimeInv, WritersSound, WorkersSound, WireSound, Earlier, NoNewer
<1>. QED
  BY <1>1, <1>2, <1>3, <1>4, <1>5, <1>6, <1>7, <1>8, <1>9, <1>10, <1>11, <1>12, <1>13, <1>14
  DEF RealtimeNext

\* A page that nothing is on its way to, and that missed nothing, shows the last
\* change.
THEOREM QuietPageCorrect == RealtimeSpec => []QuietPageIsCurrent
  BY RealtimeInvHolds, RealtimeStep, RealtimeSuffices, PTL DEF RealtimeSpec
=============================================================================
