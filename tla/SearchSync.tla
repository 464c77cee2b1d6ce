----------------------------- MODULE SearchSync -----------------------------
(***************************************************************************)
(* SearchSync: the products and categories of the catalog, and the search  *)
(* index that follows them. Every write records an event with the row      *)
(* (ProductsService, CategoriesService); a worker reads the row again when *)
(* it handles the event and writes or deletes the document                 *)
(* (SearchSyncProcessor). Two scripts of the operators write to the same   *)
(* index from one reading of the tables.                                   *)
(*                                                                         *)
(* Several workers run, one per backend; between a worker's reading of a   *)
(* row and its write to the index the row and the index may change.        *)
(***************************************************************************)
EXTENDS Naturals, FiniteSets

CONSTANTS
    Goods,          \* product ids
    Shelves,        \* category ids
    SyncWorkers,    \* workers of the search-sync queue
    MaxWrites,      \* writes to the catalog (a bound)
    MaxScripts,     \* runs of the operators' scripts (a bound)
    Unborn, Gone    \* not inserted yet; no row, no document, not in a job

VARIABLES
    good,           \* the Product rows
    shelf,          \* the Category rows: the version of the name
    syncJobs,       \* the events that are not marked processed
    syncWorker,     \* what a worker is doing
    script,         \* the documents a script still has to write or delete
    indexed,        \* the documents of the index
    crossed,        \* products last written while another writer had read them
    writes, scripts

searchSyncVars ==
    <<good, shelf, syncJobs, syncWorker, script, indexed, crossed, writes, scripts>>

catalogTables == <<good, shelf, writes>>

Rows == [content : Nat, published : BOOLEAN, shelf : Shelves]
Documents == [content : Nat, name : Nat]
ProductEvents == {"PRODUCT_CREATED", "PRODUCT_UPDATED", "PRODUCT_DELETED"}
CategoryEvents == {"CATEGORY_UPDATED", "CATEGORY_DELETED"}
SyncEvents ==
    [at : Nat, type : ProductEvents, id : Goods] \cup [at : Nat, type : CategoryEvents, id : Shelves]

ASSUME SearchSyncShape ==
    /\ MaxWrites \in Nat /\ MaxScripts \in Nat
    /\ Unborn # Gone
    /\ {Unborn, Gone} \cap (Goods \cup Shelves \cup Nat \cup Rows \cup SyncEvents) = {}

NoJob == [job |-> Gone, todo |-> {}, good |-> Gone, document |-> Gone, alone |-> FALSE]
NoScript == [todo |-> {}, document |-> [p \in Goods |-> Gone], alone |-> {}]

SearchSyncTypeOK ==
    /\ good \in [Goods -> Rows \cup {Unborn, Gone}]
    /\ shelf \in [Shelves -> Nat \cup {Unborn, Gone}]
    /\ syncJobs \subseteq SyncEvents
    /\ syncWorker \in [SyncWorkers ->
            [job : SyncEvents \cup {Gone}, todo : SUBSET Goods, good : Goods \cup {Gone},
             document : Documents \cup {Gone}, alone : BOOLEAN]]
    /\ script \in [todo : SUBSET Goods, document : [Goods -> Documents \cup {Gone}],
                   alone : SUBSET Goods]
    /\ indexed \in [Goods -> Documents \cup {Gone}]
    /\ crossed \subseteq Goods
    /\ writes \in 0..MaxWrites /\ scripts \in 0..MaxScripts

SearchSyncInit ==
    /\ good = [p \in Goods |-> Unborn]
    /\ shelf = [c \in Shelves |-> Unborn]
    /\ syncJobs = {}
    /\ syncWorker = [w \in SyncWorkers |-> NoJob]
    /\ script = NoScript
    /\ indexed = [p \in Goods |-> Gone]
    /\ crossed = {}
    /\ writes = 0
    /\ scripts = 0

---------------------------------------------------------------------------
(* Writes to the catalog, each with its event in one transaction.          *)

Stocked(p) == good[p] \notin {Unborn, Gone}

Standing(c) == shelf[c] \notin {Unborn, Gone}

Write == writes < MaxWrites /\ writes' = writes + 1

RecordEvent(type, id) == syncJobs' = syncJobs \cup {[at |-> writes', type |-> type, id |-> id]}

WriteGood(p, row, type) ==
    /\ Write
    /\ good' = [good EXCEPT ![p] = row]
    /\ RecordEvent(type, p)
    /\ UNCHANGED <<shelf, syncWorker, script, indexed, crossed, scripts>>

CreateForSeller(p, c) ==
    /\ good[p] = Unborn
    /\ Standing(c)
    /\ \E published \in BOOLEAN :
        WriteGood(p, [content |-> writes', published |-> published, shelf |-> c],
                  "PRODUCT_CREATED")

\* updateOwned, and every other change to what the document of a product shows:
\* its stock, its ratings, its auction.
UpdateOwned(p) ==
    /\ Stocked(p)
    /\ \E published \in BOOLEAN, c \in {s \in Shelves : Standing(s)} :
        WriteGood(p, [content |-> writes', published |-> published, shelf |-> c],
                  "PRODUCT_UPDATED")

DeleteOwned(p) ==
    /\ Stocked(p)
    /\ WriteGood(p, Gone, "PRODUCT_DELETED")

\* create: no event, as there is no product yet to index again.
CreateCategory(c) ==
    /\ shelf[c] = Unborn
    /\ Write
    /\ shelf' = [shelf EXCEPT ![c] = writes']
    /\ UNCHANGED <<good, syncJobs, syncWorker, script, indexed, crossed, scripts>>

UpdateCategory(c) ==
    /\ Standing(c)
    /\ Write
    /\ shelf' = [shelf EXCEPT ![c] = writes']
    /\ RecordEvent("CATEGORY_UPDATED", c)
    /\ UNCHANGED <<good, syncWorker, script, indexed, crossed, scripts>>

\* The count before the deletion is not locked; the foreign key is what refuses.
DeleteCategory(c) ==
    /\ Standing(c)
    /\ ~\E p \in Goods : Stocked(p) /\ good[p].shelf = c
    /\ Write
    /\ shelf' = [shelf EXCEPT ![c] = Gone]
    /\ RecordEvent("CATEGORY_DELETED", c)
    /\ UNCHANGED <<good, syncWorker, script, indexed, crossed, scripts>>

---------------------------------------------------------------------------
(* The index.                                                              *)

BuildProductSearchDocument(p) ==
    [content |-> good[p].content, name |-> shelf[good[p].shelf]]

\* loadSearchDocument
LoadSearchDocument(p) ==
    IF Stocked(p) /\ good[p].published THEN BuildProductSearchDocument(p) ELSE Gone

Holds(w, p) == syncWorker[w].good = p

\* A writer has read p: none that had read it before is alone with it any more.
Cross(p) ==
    [w \in SyncWorkers |->
        IF Holds(w, p) THEN [syncWorker[w] EXCEPT !.alone = FALSE] ELSE syncWorker[w]]

AloneWith(p) == p \notin script.todo /\ ~\E w \in SyncWorkers : Holds(w, p)

\* The index applies the writes in the order they were enqueued. A product
\* is crossed while its last write was by a writer that was not alone.
Index(p, document, alone) ==
    /\ indexed' = [indexed EXCEPT ![p] = document]
    /\ crossed' = IF alone THEN crossed \ {p} ELSE crossed \cup {p}

Idle(w) == syncWorker[w].job = Gone

\* dispatch: the products that an event concerns.
Concerned(job) ==
    CASE job.type \in {"PRODUCT_CREATED", "PRODUCT_UPDATED", "PRODUCT_DELETED"} -> {job.id}
      [] job.type = "CATEGORY_UPDATED" -> {p \in Goods : Stocked(p) /\ good[p].shelf = job.id}
      [] job.type = "CATEGORY_DELETED" -> {}

\* A job is delivered, perhaps to two workers when one stalled.
StartSync(w, job) ==
    /\ Idle(w)
    /\ syncWorker' = [syncWorker EXCEPT ![w] = [NoJob EXCEPT !.job = job, !.todo = Concerned(job)]]
    /\ UNCHANGED <<catalogTables, syncJobs, script, indexed, crossed, scripts>>

\* syncProduct: the row is read now, whatever the event was about, and only a
\* deletion is not looked up.
ReadGood(w, p) ==
    /\ p \in syncWorker[w].todo
    /\ syncWorker[w].good = Gone
    /\ syncWorker' = [Cross(p) EXCEPT
            ![w].good = p,
            ![w].document = IF syncWorker[w].job.type = "PRODUCT_DELETED" THEN Gone
                            ELSE LoadSearchDocument(p),
            ![w].alone = AloneWith(p)]
    /\ script' = [script EXCEPT !.alone = @ \ {p}]
    /\ UNCHANGED <<catalogTables, syncJobs, indexed, crossed, scripts>>

\* Mutant: a product that is not published any more is skipped.
IndexGood_SkipsHidden(w) ==
    LET p == syncWorker[w].good
    IN  /\ p # Gone
        /\ IF syncWorker[w].document = Gone /\ syncWorker[w].job.type # "PRODUCT_DELETED"
           THEN UNCHANGED <<indexed, crossed>>
           ELSE Index(p, syncWorker[w].document, syncWorker[w].alone)
        /\ syncWorker' = [syncWorker EXCEPT ![w].todo = @ \ {p}, ![w].good = Gone,
                                            ![w].document = Gone, ![w].alone = FALSE]
        /\ UNCHANGED <<catalogTables, syncJobs, script, scripts>>

\* indexDocument or deleteDocument, and the wait for its task.
IndexGood(w) ==
    LET p == syncWorker[w].good
    IN  /\ p # Gone
        /\ Index(p, syncWorker[w].document, syncWorker[w].alone)
        /\ syncWorker' = [syncWorker EXCEPT ![w].todo = @ \ {p}, ![w].good = Gone,
                                            ![w].document = Gone, ![w].alone = FALSE]
        /\ UNCHANGED <<catalogTables, syncJobs, script, scripts>>

MarkSynced(w) ==
    /\ ~Idle(w)
    /\ syncWorker[w].todo = {}
    /\ syncJobs' = syncJobs \ {syncWorker[w].job}
    /\ syncWorker' = [syncWorker EXCEPT ![w] = NoJob]
    /\ UNCHANGED <<catalogTables, script, indexed, crossed, scripts>>

\* The index does not answer, a task fails or the process dies: the job is
\* retried from its start.
FailSync(w) ==
    /\ ~Idle(w)
    /\ syncWorker' = [syncWorker EXCEPT ![w] = NoJob]
    /\ UNCHANGED <<catalogTables, syncJobs, script, indexed, crossed, scripts>>

---------------------------------------------------------------------------
(* The scripts.                                                            *)

StartScript(products, document) ==
    /\ script.todo = {}
    /\ scripts < MaxScripts
    /\ scripts' = scripts + 1
    /\ script' = [todo |-> products, document |-> document,
                  alone |-> {p \in products : AloneWith(p)}]
    /\ syncWorker' = [w \in SyncWorkers |->
            IF syncWorker[w].good \in products
            THEN [syncWorker[w] EXCEPT !.alone = FALSE] ELSE syncWorker[w]]
    /\ UNCHANGED <<catalogTables, syncJobs, indexed, crossed>>

\* search-reindex: every published product, as it is now.
Reindex ==
    StartScript({p \in Goods : Stocked(p) /\ good[p].published},
                [p \in Goods |-> LoadSearchDocument(p)])

\* search-remove-unpublished
RemoveUnpublished ==
    StartScript({p \in Goods : Stocked(p) /\ ~good[p].published}, [p \in Goods |-> Gone])

RunScript(p) ==
    /\ p \in script.todo
    /\ Index(p, script.document[p], p \in script.alone)
    /\ script' = [script EXCEPT !.todo = @ \ {p}, !.alone = @ \ {p}, !.document[p] = Gone]
    /\ UNCHANGED <<catalogTables, syncJobs, syncWorker, scripts>>

SearchSyncNext ==
    \/ \E p \in Goods :
        \/ UpdateOwned(p) \/ DeleteOwned(p) \/ RunScript(p)
        \/ \E c \in Shelves : CreateForSeller(p, c)
    \/ \E c \in Shelves : CreateCategory(c) \/ UpdateCategory(c) \/ DeleteCategory(c)
    \/ \E w \in SyncWorkers :
        \/ IndexGood(w) \/ MarkSynced(w) \/ FailSync(w)
        \/ \E job \in syncJobs : StartSync(w, job)
        \/ \E p \in Goods : ReadGood(w, p)
    \/ Reindex \/ RemoveUnpublished

SearchSyncSpec == SearchSyncInit /\ [][SearchSyncNext]_searchSyncVars

---------------------------------------------------------------------------
(* Properties.                                                             *)

Synced == syncJobs = {} /\ script.todo = {} /\ \A w \in SyncWorkers : Idle(w)

\* When every event is handled, the index shows each product as it is, and
\* none that is hidden or deleted, although events are retried, handled twice
\* and handled in any order, and categories are renamed meanwhile. The one
\* exception is a product whose last write came from a worker or a script that
\* shared it with another between reading and writing: reading the row again
\* does not order the writes.
IndexExplained ==
    Synced => \A p \in Goods \ crossed : indexed[p] = LoadSearchDocument(p)
=============================================================================
