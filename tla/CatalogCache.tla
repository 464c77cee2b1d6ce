---------------------------- MODULE CatalogCache ----------------------------
(***************************************************************************)
(* CatalogCache: the public reads of the catalog and the entries they      *)
(* leave in Redis (CatalogCacheService, ProductsService.searchCatalog and  *)
(* findPublicById, CategoriesService.findAll).                             *)
(*                                                                         *)
(* A read that misses takes its answer from the database, or from the      *)
(* search index, and stores it in a later step. A write commits and        *)
(* deletes entries in later steps, which Redis may refuse: no error of     *)
(* Redis reaches a caller. Time passes in ticks. Entries expire by it, and *)
(* a read takes at most MaxLag ticks from the database to the entry.       *)
(***************************************************************************)
EXTENDS Naturals, FiniteSets

CONSTANTS
    CacheKeys,      \* a key for each product, and one for the list of categories
    Readers,        \* requests
    Ttl,            \* the time to live of the entries of a key
    SearchTtl,      \* the time to live of a search result
    MaxLag,         \* ticks between a read and the entry it leaves (an assumption)
    MaxCommits,     \* writes to the catalog (a bound)
    Empty           \* no entry, no request

ASSUME CatalogCacheShape ==
    /\ Ttl \in [CacheKeys -> Nat \ {0}]
    /\ SearchTtl \in Nat \ {0} /\ MaxLag \in Nat \ {0} /\ MaxCommits \in Nat
    /\ Empty \notin Nat
    /\ IsFiniteSet(CacheKeys) /\ CacheKeys # {}

VARIABLES
    current,        \* what a read of a key finds in the database
    entry,          \* the entries of the keys
    searchEntry,    \* the entries of a search, by version
    searchVersion,  \* the counter of search versions; 0 when it is missing
    bumps,          \* invalidations of the searches so far
    read,           \* the read that a request is making
    due             \* the invalidations that committed writes still have to make

catalogCacheVars ==
    <<current, entry, searchEntry, searchVersion, bumps, read, due>>

Versions == 0..(MaxCommits + 1)
Steps == {"entry", "search"}

\* Ages stop being counted once they are past every bound.
Older(k, age) == IF age > Ttl[k] + MaxLag THEN age ELSE age + 1

NoRead == [stage |-> "idle"]

CatalogCacheTypeOK ==
    /\ current \in [CacheKeys -> 0..MaxCommits]
    /\ \A k \in CacheKeys : entry[k] = Empty \/
            entry[k] \in [value : 0..MaxCommits, age : Nat, ttl : Nat]
    /\ \A v \in Versions : searchEntry[v] = Empty \/
            searchEntry[v] \in [ttl : 1..SearchTtl, bumps : 0..MaxCommits]
    /\ searchVersion \in Versions
    /\ bumps \in 0..MaxCommits
    /\ \A r \in Readers : read[r].stage \in {"idle", "missed", "found", "read"}
    /\ due \subseteq [key : CacheKeys, at : 1..MaxCommits, steps : SUBSET Steps]

CatalogCacheInit ==
    /\ current = [k \in CacheKeys |-> 0]
    /\ entry = [k \in CacheKeys |-> Empty]
    /\ searchEntry = [v \in Versions |-> Empty]
    /\ searchVersion = 0
    /\ bumps = 0
    /\ read = [r \in Readers |-> NoRead]
    /\ due = {}

---------------------------------------------------------------------------
(* Writes.                                                                 *)

Commits == CHOOSE n \in 0..MaxCommits :
    /\ \A k \in CacheKeys : current[k] <= n
    /\ \E k \in CacheKeys : current[k] = n

\* A product or a category is written and the transaction commits.
CommitWrite(k) ==
    /\ Commits < MaxCommits
    /\ current' = [current EXCEPT ![k] = Commits + 1]
    /\ due' = due \cup {[key |-> k, at |-> Commits + 1, steps |-> Steps]}
    /\ UNCHANGED <<entry, searchEntry, searchVersion, bumps, read>>

\* The next invalidation of a write is over.
Done(d) ==
    LET left == IF "entry" \in d.steps THEN {"search"} ELSE {}
    IN  due' = (due \ {d}) \cup (IF left = {} THEN {} ELSE {[d EXCEPT !.steps = left]})

\* invalidateProduct, invalidateCategories
InvalidateEntry(d) ==
    /\ "entry" \in d.steps
    /\ entry' = [entry EXCEPT ![d.key] = Empty]
    /\ Done(d)
    /\ UNCHANGED <<current, searchEntry, searchVersion, bumps, read>>

\* bumpSearchVersion: INCR starts from 0 when the counter is missing.
BumpSearchVersion(d) ==
    /\ d.steps = {"search"}
    /\ searchVersion' = searchVersion + 1
    /\ bumps' = bumps + 1
    /\ Done(d)
    /\ UNCHANGED <<current, entry, searchEntry, read>>

\* safe: Redis refuses and the failure is only logged.
MissInvalidation(d) ==
    /\ Done(d)
    /\ UNCHANGED <<current, entry, searchEntry, searchVersion, bumps, read>>

\* The backend stops before the invalidations of a write that committed.
LoseInvalidations(d) ==
    /\ due' = due \ {d}
    /\ UNCHANGED <<current, entry, searchEntry, searchVersion, bumps, read>>

---------------------------------------------------------------------------
(* Reads of a product and of the list of categories.                       *)

\* A hit is answered at once and changes nothing. Redis may be out of reach,
\* and the read misses although there is an entry.
MissEntry(r, k) ==
    /\ read[r] = NoRead
    /\ read' = [read EXCEPT ![r] = [stage |-> "read", key |-> k, value |-> current[k], age |-> 0]]
    /\ UNCHANGED <<current, entry, searchEntry, searchVersion, bumps, due>>

SetJson(value, age, ttl) == [value |-> value, age |-> age, ttl |-> ttl]

FillEntry(r) ==
    /\ read[r].stage = "read"
    /\ \/ entry' = [entry EXCEPT ![read[r].key] =
                        SetJson(read[r].value, read[r].age, Ttl[read[r].key])]
       \/ UNCHANGED entry
    /\ read' = [read EXCEPT ![r] = NoRead]
    /\ UNCHANGED <<current, searchEntry, searchVersion, bumps, due>>

---------------------------------------------------------------------------
(* Searches.                                                               *)

\* getSearchVersion: a missing counter and a failure of Redis both count as 1.
GetSearchVersion(v) == v = (IF searchVersion = 0 THEN 1 ELSE searchVersion) \/ v = 1

\* searchCatalog: the version is read first; it is part of the key of the entry.
StartSearch(r, v) ==
    /\ read[r] = NoRead
    /\ GetSearchVersion(v)
    /\ read' = [read EXCEPT ![r] = [stage |-> "missed", version |-> v]]
    /\ UNCHANGED <<current, entry, searchEntry, searchVersion, bumps, due>>

\* Mutant: the version of the key is read when the result is stored.
StoreAt_Late(r) == IF searchVersion = 0 THEN 1 ELSE searchVersion

\* The key of the entry has the version that was read before the search.
StoreAt(r) == read[r].version

\* The index answers, or the database when it does not. What is found is as
\* old as the index is; here it counts which invalidations came before.
SearchIndex(r) ==
    /\ read[r].stage = "missed"
    /\ read' = [read EXCEPT ![r] = [stage |-> "found", version |-> read[r].version,
                                    bumps |-> bumps]]
    /\ UNCHANGED <<current, entry, searchEntry, searchVersion, bumps, due>>

FillSearch(r) ==
    /\ read[r].stage = "found"
    /\ \/ searchEntry' = [searchEntry EXCEPT ![StoreAt(r)] =
                [ttl |-> SearchTtl, bumps |-> read[r].bumps]]
       \/ UNCHANGED searchEntry
    /\ read' = [read EXCEPT ![r] = NoRead]
    /\ UNCHANGED <<current, entry, searchVersion, bumps, due>>

---------------------------------------------------------------------------

Expires(e) == e = Empty \/ e.ttl = 1

\* Entries get older and expire, and so do the values that requests hold.
Tick ==
    /\ \A r \in Readers : read[r].stage = "read" => read[r].age < MaxLag
    /\ read' = [r \in Readers |->
            IF read[r].stage = "read" THEN [read[r] EXCEPT !.age = @ + 1] ELSE read[r]]
    /\ entry' = [k \in CacheKeys |->
            IF Expires(entry[k]) THEN Empty
            ELSE [entry[k] EXCEPT !.ttl = @ - 1, !.age = Older(k, @)]]
    /\ searchEntry' = [v \in Versions |->
            IF Expires(searchEntry[v]) THEN Empty ELSE [searchEntry[v] EXCEPT !.ttl = @ - 1]]
    /\ UNCHANGED <<current, searchVersion, bumps, due>>

CatalogCacheNext ==
    \/ \E k \in CacheKeys : CommitWrite(k)
    \/ \E d \in due :
        InvalidateEntry(d) \/ BumpSearchVersion(d) \/ MissInvalidation(d) \/ LoseInvalidations(d)
    \/ \E r \in Readers :
        \/ FillEntry(r) \/ SearchIndex(r) \/ FillSearch(r)
        \/ \E k \in CacheKeys : MissEntry(r, k)
        \/ \E v \in Versions : StartSearch(r, v)
    \/ Tick

CatalogCacheSpec == CatalogCacheInit /\ [][CatalogCacheNext]_catalogCacheVars

---------------------------------------------------------------------------
(* Properties.                                                             *)

\* No entry answers with a value that is no longer the current one and was read
\* longer ago than its time to live and the time a read takes.
StaleForATimeOnly ==
    \A k \in CacheKeys :
        entry[k] # Empty /\ entry[k].value # current[k] => entry[k].age < Ttl[k] + MaxLag

\* A search that starts after an invalidation is not answered with a result
\* that was found before it: a request that was under way stores its result
\* under the version it read first. The first invalidation after the counter
\* was missing is the exception: it gives the counter the value that stood for
\* its absence.
SearchedSinceBump ==
    searchVersion >= 2 /\ searchEntry[searchVersion] # Empty
        => searchEntry[searchVersion].bumps = bumps

\* Whatever happens to the invalidations, and whoever stores a value that a
\* write has overtaken, what the cache answers is outdated for a time only, and
\* a search that follows an invalidation never is.
CachedForATimeOnly == StaleForATimeOnly /\ SearchedSinceBump
=============================================================================
