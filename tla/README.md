# Cargo Crew marketplace: TLA+ models and proofs

This directory specifies the transactional core of the multi-vendor marketplace in
`src/` (a NestJS backend over PostgreSQL, Redis/BullMQ and Meilisearch, and a React
frontend): TLA+ modules translated from the backend's services, TLC configurations
that check them on small instances, and TLAPS proofs of theorems that hold for all
values of the constants.

Check everything from this directory: `tlc -workers 2 -config X.cfg M` for a run,
`tlapm M.tla` for a module of proofs. `PROJECT.json` lists the runs, the mutated
definition that each property rejects, the source lines behind every definition, the
hazards, and the theorems.

## 1. The system

Every mutation of business state is a PostgreSQL transaction at READ COMMITTED.
Three mechanisms make them safe: `SELECT ... FOR UPDATE` on the row that owns a
decision, unique indexes that double as idempotency claims, and guarded UPDATEs
(`stock = stock - q WHERE stock >= q`). Side effects leave through an outbox table
that a poller feeds into BullMQ queues; the consumers record processed event ids.
Two things recur that the mechanisms do not cover: reads without a lock that decide
a later write, and TypeORM's `save(entity)`, which reads the row again and writes
every column in which the entity differs from it, so that an entity loaded earlier
overwrites what committed in between.

| Component (source under `backend/src`) | State | Operations | Interacts with |
|---|---|---|---|
| Money (`common/utils/money.ts`) | none | parse, format, percent, ratio | all amounts |
| Cart (`modules/cart`, `frontend/src/features/cart`) | CartItem rows; a tab's copy | add, update, remove, clear, patch, refetch | product stock; emptied by checkout |
| Checkout (`modules/checkout`) | idempotency keys, orders, stock, ledger | checkout, replay | cart, products, outbox |
| Seller orders (`modules/orders`) | SellerOrder and Order status | updateStatus, cancel, recompute | stock, ledger, refunds, siblings |
| Processing job (`modules/seller-order-processing`) | SellerOrder status | startProcessing | outbox events of checkout |
| Refunds (`modules/refunds`) | Refund rows | createRefund | seller order lock, ledger, stock, disputes |
| Order pages (`order-read-model.service.ts`, three frontend pages) | a page's copy, its requests | click, answer, announcement, reload | seller orders, refunds, sockets |
| Auctions (`modules/bidding`) | Auction, Bid rows | create, edit, bid, activate, finalize, expire, cancel, purchase | stock, keys |
| Auction jobs (`auction-lifecycle`, `auction-reconciliation`) | delayed jobs, a sweep's batch | schedule, run, sweep | auctions |
| Outbox, dead letters (`modules/outbox`) | OutboxEvent, ProcessedEvent, DeadLetterEvent, queues | record, publish, replay | every consumer |
| Catalog (`modules/products`, `categories`, `cache`, `search-sync`) | rows, cached views, search index | CRUD, cache-aside, index, reindex | stock, outbox |
| Catalog page (`CatalogPage.tsx`, `searchCatalog`) | the address, the answer shown | filter, turn the page, search, fall back | index, products |
| Disputes (`modules/disputes`) | Dispute rows | open, answer, review, resolve, close | refunds in the same transaction |
| Reviews (`modules/reviews`) | Review rows, rating of the product | write, edit, remove, recalculate | product row |
| Accounts (`modules/auth`, `sellers`, `frontend/src/auth`) | refresh tokens, roles, applications; a browser's tabs | sign in, rotate, revoke, apply, approve | every guarded request |
| Notifications (`modules/notifications`) | what was told | tell each recipient | outbox events |
| Analytics (`modules/analytics`) | cached reports | the queries of a report | seller orders, ledger, refunds |
| Realtime (`websocket`, `modules/realtime`, `frontend/src/realtime`) | rooms, sockets, client copies | re-read, emit, merge, poll, resync | outbox events, cached reads |

What is hard in this system: statements of several transactions interleave, also
across backend instances; a request can be duplicated, retried after a lost answer,
or die between two statements; jobs arrive late, twice or never; deadlines race the
requests they end; the parent order is derived from siblings that nobody locks; and
what a cache, an index, a report or a page holds was read before something else was
committed. `PROJECT.json` "hazards" has each of these at the line where it bites, with
the properties that cover it.

What makes each component correct:
*money*: amounts survive formatting, every rounding is to the nearest cent;
*checkout*: at most one order per key, all lines or none, no deadlock, every request
answered;
*cart*: a line is what the changes ask for; a tab that waits for nothing shows the cart;
*seller orders*: the parent never claims what its parts have not reached, final
states stay final, each ledger row and each restocked unit has one cause;
*refunds*: bounded by what was paid and charged;
*order pages*: a page that waits for nothing shows the order as it is;
*auctions*: the highest bid leads and wins, one sale, every deadline is acted on;
*outbox*: every committed event is eventually applied, once but for a known cause;
*catalog*: caches are stale for a time only, the index converges to the rows, the page
shows what its address asks for;
*disputes*: decided once, with its own refund; *reviews*: the rating is the average;
*accounts*: a token has one successor, one application is approved, a page that shows a
user can act, and as that user unless another account signed in with the browser;
*notifications*: whoever is concerned is told; *analytics*: the parts of a report agree;
*realtime*: a page catches up with the row.

## 2. The models

| Module | What it is |
|---|---|
| `Money` | the cents arithmetic as operators on naturals; no state |
| `SellerOrders` | a placed order's life: processing, status updates, cancellation, parent recomputation, refunds, ledger, stock |
| `Fulfilment` | extends `SellerOrders` with the job that starts a placed order: its attempts, its failure, its replay |
| `Purchases` | what checkout promises: a key buys at most once, in one step, what is in stock |
| `Checkout` | checkout requests statement by statement, cart changes, product edits; implements `Purchases` |
| `Carts` | the cart's rows, and the copy that a tab shows of them |
| `OrderPages` | a seller order as the customer's, the seller's and the administrator's page show it |
| `Disputes` | disputes from opening to decision, with refunds and two administrators |
| `Reviews` | reviews of a product and its rating |
| `Auctions` | auctions from creation to the winner's purchase, with the seller's unlocked edit |
| `AuctionJobs` | the delayed jobs and the sweeps that act on an auction's deadlines |
| `Outbox` | recorded events, the polls that publish them, the queues, the consumers of the jobs |
| `DeadLetters` | extends `Outbox` with the listeners, the rows of failed jobs and the operator's replays |
| `SearchSync` | products, categories and the search index |
| `CatalogCache` | the cached reads of the catalog and the version of its searches |
| `Browsing` | the catalog page, its address and the two search engines behind it |
| `Notifications` | who is told what, by jobs that overlap and repeat |
| `Realtime` | a row, the workers that announce it, a socket and a page that shows it |
| `Accounts` | refresh tokens, a browser's tabs that share one, roles and seller applications |
| `Analytics` | the queries, the parts and the cache of a report |
| `SellerOrdersProofs`, `CheckoutProofs`, `AuctionsProofs`, `AccountsProofs` | lemmas and theorems of one module each |
| `MoneyProofs` | lemmas about rounding, and about totals over a set of rows |
| `OutboxProofs` | theorems of `Outbox` and of `DeadLetters` |
| `StorefrontProofs` | those of `Reviews`, `Disputes`, `Notifications`, `Carts` and `Analytics` |
| `PagesProofs` | those of `MCMoney`, `Browsing`, `OrderPages`, `SearchSync`, `CatalogCache` and `Realtime` |
| `MCAggregate`, `MCSettlement`, `MCCheckout`, `MCAuctions`, `MCOutbox`, `MCDeadLetters`, `MCAccounts` | instances of one module each for TLC |
| `MCMoney`, `MCStorefront`, `MCBackground` | instances of several: see section 3 |

Conventions. A transaction is as many actions as other transactions can tell apart. If it
holds one row lock from its first relevant read to its commit, and everything it touches
is guarded by that lock, it is one action enabled while the row is unlocked (refunds,
bids, finalization). If it reads rows it does not lock, or takes several locks one after
the other, there is an action for each such statement and one for the commit, at which its
writes become visible. A request that fails a check changes nothing and is therefore no
step, except in `Checkout`, where its answer matters. Row contents are reduced to the
columns the properties speak of; text, addresses, descriptions and log lines are left out.
Money is in integer cents. A definition named `X_Something` with a comment "Mutant:" is a
plausible wrong version of `X`; it is used to show that a property notices it.

**SellerOrders.** `status`, `orderStatus` are the committed columns, `Absent` before
checkout. `transaction[so]` is the transaction that holds the row lock of `so`:
`Lock` (lockOwnedSellerOrder and the transition check), `ReadSiblings` and `ReadParent`
(the two unlocked reads of recomputeParentOrderStatus), `Commit` or `Rollback`.
`refunds[so][k]` is the Refund row with idempotency key `k`, `ledger[so]` the sums of
the LedgerEntry rows by type, `stock` and `live` the product rows that exist.
`PlaceOrder` is the committed effect of a checkout. Prices, quantities and commission
rates are constants, fixed when the order is placed, with the assumptions
`ShapeAssumption` and `CheckoutAssumption`: one item of a product per order (unique
index of the cart), subtotals that are the sums of their lines, rates of at most 100%
(the column defaults to 10 and no code writes it).

**Fulfilment.** `job[so]` is what became of the SELLER_ORDER_CREATED event of a seller
order, `attempts[so]` the attempts its job has made. `FailAttempt` is an attempt that
throws before its transaction commits, `Process` one that commits, after which it may
still throw (the insert of the processed id). The last of `MaxAttempts` (five in
`outbox-publisher.service.ts`) ends the job, and only `Replay`, an operator's, begins
another. `StartProcessing` of `SellerOrders` happens in `Process` alone.

**Checkout.** `request[r]` is one HTTP request: `sent` (blocked at the insert while
another transaction has the key), `claimed`, `decrementing` (with the products in
`done` locked), `committed`, `answered`. `keyRow` are the COMPLETED keys, `order[r]`
the order that `r` committed. `WriteCartItem` is the last statement of a cart
mutation; what it writes was computed from unlocked reads, so any quantity may result.
`ReadForEdit`/`SaveEdit` are a seller's product edit with the stale stock it writes.
`Crash` loses the connection before or after the commit.

**Auctions.** One action per service method, since all of them lock the row first;
delayed jobs, their redelivery and the sweep are not told apart: an action whose guard
is the check on the locked row may happen at any time it holds. The seller's edit is
three steps: `StartEdit` (unlocked reads), `SaveEdit` (the values, and the columns in
which the entity differs from the row now), `UpdateEdited` (the UPDATE of those columns).
The stock of the product is any of `Stocks` from the start, as `CreateProductDto` allows
for an auctioned product too, and `SetStock` may change it at any time: the seller's
edit of the product, or a refund that gives the unit back.

**Outbox.** `event` are the committed statuses, `batch[i]` what the transaction of
instance `i` did to each row it locked: `LockBatch` takes any of the PENDING rows that
nobody locked, `Publish` or `FailToPublish` deals with one, `CommitBatch` makes the
statuses visible; `AbortBatch` and `Crash` undo them, but not the jobs that were added.
A job is named by its queue, its event and 0, or the number of a replay; its states,
the rule that an id which is still present is not added again, stalls, and the removal
of old jobs are BullMQ's, modelled from the options and ids the code passes. An attempt
is `Take` (with the processed check), `Apply`, `MarkProcessed`, `Complete`, or
`FailAttempt` in between; `owner` says whether BullMQ still accepts its report.
`applied` counts effects, up to two. `repeatable` is a history variable: the deliveries
with an attempt interrupted between its check and its insert, or two live jobs at
once. The backoff is not timed. Which rows come first and how many a batch takes is
left open; rows without a route, which no code records, are left out.

**DeadLetters.** The end of a job is a notice to each listener, which is read late,
or lost (`Miss`, and `MissAll` when its process dies; `missed` is a history variable).
`FindReplaying` is the lookup of the job and of a REPLAYING row, in one step;
`HandleFailed` and `HandleCompleted` are the write that follows. `StartReplay` and
`EnqueueReplay` are the two statements of an operator's replay, `AbandonReplay` its
end between them, which leaves the row REPLAYING. Two replays of a row in one
millisecond, whose job ids coincide, are not modelled.

**Carts.** `click[c]` is one change the customer makes, in a tab or on another device:
sent, read (`getOrCreate` and the line), written, and answered in later steps, of which
each can fail or be lost. `line` are the rows; `version` counts their changes, so that a
tab's copy `shown[t]` is a version or a `Guess` (the optimistic patch of
`features/cart/hooks.ts`). `fetch[t]` is the query in flight, cancelled by a new change; a
page that is mounted again asks whatever else is under way (`Refetch`). `owed` is a
history variable: what the changes made one at a time would give, or `Unknown` once a line
was saved over another change than the one it was computed from.

**OrderPages.** `sellerOrder` is the row and its refunded units; `View` the read model.
A `form` is a button with its request: offered from the copy (`Offered`), committed by
the server's own rules (`Commit`), answered in two steps because the answer was computed
before others. `news` are the socket's announcements, `load` the fetch in flight. What an
announcement does to a fetch in flight is TanStack Query's rule: a page with a copy
abandons it for a new one, a page without one joins it (`OnOrderStatus`).

**Disputes.** `LockDispute` and `Resolve` are the two locks of a resolution; the other
transactions lock one row first and are one step. `request[a]` is what an administrator
has asked for, with the key the page drew, and may be asked again after `LoseResolution`.

**Reviews.** `LockProduct`, `RefuseReview` or the write, `RecalculateRating`
and `CommitReview` are the statements of each review transaction; `ReadForEdit` and
`SaveEdit` those of the product edit, which saves the rating it read if it differs.

**AuctionJobs.** `lot` is an auction reduced to what its deadlines tell apart, `due` that
a deadline has passed, `job[l][t]` what BullMQ has under the id of a job: nothing,
delayed, at work, or kept after its end, when adding the same id does nothing.
`ReadBatch` and `Reconcile` are the query of a sweep and each of its rows.

**SearchSync.** `good` are the product rows and their versions, `shelf` the categories,
`syncJobs` the events not marked processed. A worker takes an event (`StartSync`), reads
each product again (`ReadGood`), writes or deletes its document (`IndexGood`) and marks
the event. `Reindex` and `RemoveUnpublished` are the operators' scripts. `crossed` is a
history variable: products last written while another writer had read them.

**CatalogCache.** `MissEntry` and `FillEntry` are the two ends of a cached read,
`StartSearch`, `SearchIndex`, `FillSearch` those of a search under a version;
`CommitWrite` leaves invalidations `due`, which happen later, fail or are lost with their
process. Ages are counted in ticks.

**Browsing.** `url` is the address, `rendered` the one of the page on the screen: a button
changes the latter's filters. `onScreen` is the answer, the previous one while another is
`awaited`. `SearchMeilisearch` and `SearchFallback` compute the answers of both engines
from the products' `Traits`; which of the two answers is open.

**Notifications.** `kind` is the aggregate type, `subject` the status of its row. `StepsOf`
are the changes that record events; a job reads the subject (`ReadSubject`, which tells
the first recipients), tells the others, marks its event and completes.

**Realtime.** `row` carries the change it is of and its `updatedAt`, which is the start of
the transaction, so that a later commit can be older. `ReadRow` and `EmitRow` are the
worker's two steps; `Connect`, `Join`, `Drop`, `ExpireSocketToken` the socket; `Receive`
the merge by `updatedAt`; `Poll`, `GetRow`, `ReceiveRow` the page's query, which may be
answered from `cached`. Products are not polled, auctions are (`polled`). The row is the
part of it that the events carry. Every change of a product's is announced; of an
auction's, those whose event `AUCTION_EVENT_NAMES` has, which an edit's and a
cancellation's are not (`CommitChange`).

**Accounts.** `token` are the RefreshToken rows, `cookie` the one that all tabs send; each
tab has its access token, the user it shows and its calls in flight, of which several may
refresh at once. `Serve` is the backend's transaction, `Receive` the handling of the
answer in `api/client.ts`, `AuthContext` or `SellerApplicationPage`.

**Analytics.** `report` collects the answers of queries, each of which sees what is
committed when it runs (`RunQuery`; the rest run together in `KeepReport`);
`reportCache` are the reports kept under their period. Rows are dated by the start of
their transaction. An order is of one product of its own; `Listed` is the `ORDER BY ...
DESC LIMIT` of the sellers (100 in the code) and of the products (5).

## 3. The runs

| Run | Instance | What it shows |
|---|---|---|
| `aggregate` | one order, three seller orders; two attempts of a job, one job that may fail | parent status: supported claims, finality; processing starts, or its job failed for good (liveness) |
| `settlement` | two orders that share a product, three items, three refund keys, deletable products | ledger and stock explained row by row, refund bounds, finality of a cancellation |
| `checkout` | two customers, three requests, two keys, two products, edits of one of them | implements `Purchases`; answers agree; no cyclic wait; every request answered |
| `auctions` | one auction, two bidders, two keys, three prices, five instants, no unit or two at any time, one edit | leader and buyer are the highest bidder; a further sale takes an edit; policy; auctions and purchase windows end (liveness) |
| `outbox` | one event, two queues, two instances that poll, both consuming one of the queues; two attempts, two faults | published rows are queued and stay published; effects repeat only for a cause; every event settles (liveness) |
| `dead_letters` | the same with one fault, two replays of one of the jobs, one listener | failures that were heard of have a row; REPLAYED means processed; replays repeat no effect without a cause |
| `accounts` | one user, two tabs, eight refresh tokens, two applications, three incidents (reloads, expiries, sign-ins and -outs), one lost answer | a token is replaced once; a page that shows a user has an access token of that user; one application is approved; the waiting applicant's page gets the seller's session (liveness) |
| `storefront` | ten components that do not call one another, one per behaviour | see below |
| `background` | `Realtime` and `AuctionJobs`, independent of each other | a page that waits for nothing is current; an auction's page catches up; no overdue auction stays open (liveness) |

The behaviours of `storefront` are those of ten modules: the initial state chooses one
(`part`), the others stay as they began. It is one run rather than ten because none of
its parts has more than some hundred thousand states; model values are shared between
the parts so that two permutations (`MCSymmetry`) reduce all of them.

| Part | Instance | Property | What it shows |
|---|---|---|---|
| `money` | all amounts to 130 cents, five rates, all quantities | `MoneyExact` | formatting parses back; commission and share are the nearest cent; two refunds that complete a line drift by at most one cent |
| `pages` | one seller order of two units, three pages | `SettledPageIsCurrent` | a page that waits for nothing shows the order as it is, but for the losses named there |
| `search` | one product, one category, two workers, four writes, one script | `IndexExplained` | when no event is left the index is that of the rows, unless two writers crossed |
| `cache` | one key, two readers, three writes | `CachedForATimeOnly` | an entry that is not current is younger than its time to live and the time of a read; a search does not answer from before the last invalidation |
| `reviews` | two customers, two requests, two ratings, an edit | `RatingOfReviews` | the rating is that of the reviews, unless an edit put back the one it had read |
| `disputes` | one seller order of two units, two disputes, two administrators, two keys | `DecidedOnce` | one decision, one event, and the refund it names |
| `carts` | one product, one tab and one other device, three changes | `LinesExplained`, `QuietTabIsCurrent` | a line is what was asked for, unless a save crossed another; a tab that waits for nothing shows the cart, unless an answer overtook another |
| `reports` | two seller orders, two sellers, six transactions, three instants, one query that runs before the rest | `ReportsAgree` | the parts of a report during which nothing was committed agree; so does its total with the orders' effective figures |
| `notices` | one subject of each type, two workers, three to five events, one failure | `EveryoneIsTold` | when no job is left, whoever is concerned has been told the status |
| `browsing` | a lamp, a sold-out vase, an auction; pages of two; four links | `CatalogMatchesUrl` | a page that waits for nothing shows what its address asks for, and the address is what was chosen |

Why the bounds are enough. Three siblings are the least for which one transaction's
derivation is overtaken by two others; a third request is what a duplicate and a second
key need together; a job with two attempts fails once before it succeeds, or for good, and
the jobs of the other two seller orders, which do not fail, show that one dead letter
holds up nobody else; two products are what opposite lock orders need, and stock 2 and 1
make one product contended and the other exhausted. Three refund keys allow a refund, its
retry and another of the same units. Two keys and three prices let each bidder outbid and
repeat; the clock passes every end of an auction and of a purchase window. One edit is one
stale write; a second in flight would repeat it. Stock 0 refuses a purchase, stock 2 lets
a reopened auction sell again. Two tabs are what it takes to race for a cookie; eight
tokens are as many as three incidents and the activations can ask for. Two workers are
what it takes to overlap (`search`, `notices`, `Realtime`); four writes let a category and
its product change while both are at work. Two seller orders make two sellers, or two
orders of one; six transactions are the placing, refund and cancellation of both. An
auction has five events on its longest way and a dispute four. The lists of two sellers
and two products are never cut; the theorem is about those that are, too. With a batch of
one row and two auctions a sweep has more rows than its batch. Ages in `CatalogCache`
count up to a time to live of two ticks, with reads of at most one: the longer ones repeat
them. In the outbox no step of one event reads another's state except through a worker
that is busy, so one event is enough; two queues are what a partial add needs, two
instances what an overlap needs, two faults what it takes to have an attempt stall and its
worker or another one fail. Two replays can overlap each other, the first job and its late
notices; the second listener is left to the proof.

Runs that end in a counterexample: here the code does what a document says it does not.

| Run | The code | The statement |
|---|---|---|
| `ledger_reconciles` | a PROCESSING seller order can be refunded and then cancelled, which reverses the whole again | README.md:486, 541 |
| `sold_within_stock` | a product edit writes back the stock it read before a sale | README.md:907 |
| `reuse_revokes_all` | the revocation of a user's tokens is rolled back by the exception that follows it (auth.service.ts:135) | README.md:861-862 |

Met while modelling, and visible in the modules without a run of their own.

- *Orders.* startProcessing does not recompute the parent (order-aggregate-status.ts:6 says
  every change does); a cancel and an update of siblings derive from each other's old
  status, so that PARTIALLY_CANCELLED is lost (order-aggregate-status.ts:12). Unit-by-unit
  refunds round each share, so they need not sum back to the commission (README.md:511);
  the retry of a refund that used up the units is answered 409 by the quantity check that
  precedes the unique index (refund.entity.ts:10). A seller order whose job failed five
  times stays AWAITING_FULFILLMENT until an operator replays its dead letter: no sweep
  looks for it, though its seller or an administrator can still move it by hand.
- *Order pages.* A refund is not announced to the sockets, and the administrator's page
  listens to none; an answer overtaken by a later announcement leaves the seller's page
  stale, and so does an announcement that finds the page's first load answered and on its
  way, which it joins (useOrderRealtime.ts:20); refunds are offered in states in which the
  server refuses them; the administrator's card draws a new key for each click, so a retry
  after a lost answer refunds again.
- *Auctions.* An edit that was started before reopens a cancelled, unsold, awaiting or
  sold auction (auction-status.policy.ts:5). A product that is auctioned may have any
  stock (create-product.dto.ts:61), so a sold auction that is reopened like this can be
  sold a second time; auction-checkout.service.ts:175 says that the stock is always one.
- *Outbox.* The id of an event is inserted after the effect (processed-event.entity.ts:6
  says before), so a stall or a failed insert sends a notification twice
  (notifications.processor.ts:37 says never), and so can two replays in flight at once
  (dead-letter.service.ts:129 calls them safe); an add that fails leaves its row REPLAYING
  (README.md:1139 says it is not left stuck); a failed job whose notice is missed, or
  whose handler throws, is never looked for again (dead-letter.service.ts:32).
- *Cart.* A hidden product's line is not shown but blocks the checkout, and no later
  change cleans it up, as the comment at `buildView` says; two tabs with keys of
  their own can both order the same cart; the answers of an addition and a checkout become
  the tab's copy without another fetch.
- *Catalog.* Two workers that cross can leave an older document in the index
  (search-sync.processor.ts:31); a missing search version counts as 1, which is also
  what the first increment makes of it. The page may land beyond the last page when the
  engine changes between two answers, loses a filter when two clicks come before a
  rendering, and offers "sold out" as a facet that the query ignores; the fallback has
  no facets and does not find auctions by price.
- *Disputes.* The list of disputes loads no refunds, so the page offers units that were
  refunded already (disputes.service.ts:300); the server refuses them.
- *Accounts.* An approval makes its applicant a SELLER whatever the role was before; the
  activation of the waiting page is not tried again by itself after a network error. The
  tabs of a browser share the cookie: after another account's sign-in in one tab, the
  retry of a 401 leaves a page of the other that shows one user and acts for another.
- *Notifications.* A status that was passed quickly may never be told, the last notice
  need not be of the last status, and a winner may be told of a window that is over.
- *Analytics.* A refund and then a cancellation make a period's figures negative; the
  default period ends at the present millisecond, so it never finds its cached report;
  the day given as "to" is left out.
- *Realtime.* A later commit with an earlier start is taken for older news; a product's
  page is not polled and stays so until it is fetched again, possibly from a cached read;
  a page of an auction that its seller edits, or that is cancelled, is told nothing and
  shows it at the next poll (realtime.processor.ts:34); the first connection
  resynchronizes nothing; an expired token is refused until the
  page has a new one.

Where a property has an exception for one of these, its comment says so, and the
exception is a history variable (`repeatable`, `crossed`, `reverted`, `unheard`,
`overtaken`, `gap`, `strayed`, `owed`) that only the steps named there set.
Properties in the presence of these: `PurchasesOnce` is stated for the products nobody
edits, `LeaderIsHighest` and `UneditedFollowsPolicy` for auctions that were not edited;
`SaleSound` bounds the sales of an auction by its edits, and the liveness of auctions
holds for all. `RepeatedForCause` says exactly when
an effect can repeat.

Fairness. *Fulfilment*: a transaction in progress finishes (weak fairness), and an attempt
of a job that is due ends, well or not (`EndAttempt`, strongly fair, because PostgreSQL
grants a row lock in the order in which it was asked for). That an attempt succeeds is
not assumed, and neither is a replay: of a job that failed for good nothing is
promised. No user action is fair. *Checkout*: the
steps of a sent request are weakly fair (a statement that can run does); nobody is obliged
to send one. *Auctions*: `Finalize` and `ExpirePurchaseWindow` are weakly fair because the
sweep looks for overdue rows every ten seconds: `OverdueLotsClose` of `AuctionJobs` is
that argument, made from the sweep itself; neither the delayed jobs, nor activation, nor
the clock are fair. *Outbox*: a poll under way goes on and polls repeat (`Relay`, weakly
fair: the two-second interval); an idle worker takes a waiting job and ends it (`Work` or
`Report`, weakly fair), but whether the handler returns or throws is left open. Faults are
bounded, hence finite: an outage that never ends settles nothing. `DeadLetters` has no
liveness property, as no operator is obliged to replay. *AuctionJobs*: each process goes
on with its interval and its batch (weakly fair); the delayed jobs may all be lost, and
only finitely many sweeps end in an exception. *Realtime*: an open transaction ends, a
worker that has read a row emits it, what was emitted arrives and the page's interval goes
on (weakly fair); the page's request is served and answered if it is asked again and again
(strongly fair). Of the socket nothing is assumed: an auction's page catches up by polling
alone. *Accounts*: calls are served and their answers received, the retry after a 401 is
sent, a page that shows a pending application asks again (its interval) and its activation
effect runs (weakly fair); no administrator is obliged to decide.

`CHECK_DEADLOCK FALSE` is given where the system may stop: all orders settled, all
requests answered, the clock at its bound, no job left to attempt or replay, no change
left to make.

## 4. The proofs

`SellerOrdersProofs` proves for every set of orders, sellers, items, keys, prices and
quantities:

- `TypeCorrect`: `TypeOK`; in particular stock stays a natural number.
- `AggregateSound`, `SettledFinal`: from the inductive invariant
  `AggregateInv == PlacedTogether /\ TransactionSound /\ OrderClaimsSupported`.
  `OrderClaimsSupported` alone is not inductive: a transaction may hold a derived
  status that is old. `TransactionSound` says that such a status stays supported,
  because siblings only move forward in the order in which `Supported` is monotone,
  and that the transition it locked for is still legal.
- `CancelledFinal`: after the cancellation no action is enabled that moves money or
  status of the seller order.
- `RefundSplitCorrect`: from the monotonicity of round-half-up division
  (`MoneyProofs`) and rates of at most 100%.
- `LedgerCorrect`, `RefundsCorrect`: from `SellerSide`, which keeps the books of each
  seller order (`SellerBooks`). A bound on what is refunded is not inductive by itself,
  nor is the ledger without the rows it is the sum of: the invariant says that each refund
  row is that of one line and a quantity, that the units of a line's rows are no more than
  it has, that their amounts add up to price times units over the lines, and that the
  commission given back is off the exact share by at most half a cent a row, either way,
  so that n refunds drift by n/2 cents at most.
- `FulfilmentImplements`: a behaviour of `Fulfilment` is one of `SellerOrders`, as a job
  only chooses when the processing starts; what is proved of the one holds of the other.
- `StartRemembered`: a seller order that awaits fulfilment has a job to come or a dead
  letter. It needs that nothing puts a seller order back to AWAITING_FULFILLMENT but its
  placing, with which its event commits (`RequestMovesOn`).
- `StockCorrect`: what a product has lost is the sum, over the lines of it, of the units
  that are out (`Out`); a refund or a cancellation changes one term for each of its lines.

A total is a recursive function over the subsets of the rows. That it exists, that no
order of the rows matters, and what adding, taking out, changing or grouping rows does
to it are lemmas of `MoneyProofs` (`SumOf`, `SumTakeOut`, `SumChanged`, `SumGrouped`).
They replace an induction, which would take an operator as its parameter, by a smallest
counterexample: among the subsets for which a lemma fails there is one that contains no
other (`SmallestSubset`, from the well-founded order of the finite subsets).

`CheckoutProofs`, for all customers, products, keys, requests, carts and stock, and
with any of the products edited by its seller:

- `ImplementsPurchases`: every step of `Checkout` is a `Buy` of `Purchases` or a
  stutter under the mapping that shows the committed orders as receipts. `Commit` is the
  only step that buys. It needs, at the commit, that the key still has no order and
  that every line is in stock, neither of which the commit checks. The inductive
  invariant `Inv` carries both from the earlier statements: a claimed key is free and
  claimed once (`ClaimsFreeKey`, `Exclusive`), the orders and the keys name each other
  (`OrderMatchesPhase`, `KeyNamesOrder`), and what is locked is in stock and nobody
  else's (`LockedInStock`, `Exclusive`).
- `CheckoutTypeCorrect`: the stock stays a natural number; it needs `Inv` too.
- `AnswersCorrect`: the answers name the right orders.
- `NoDeadlock`: the locks of a request precede what it has yet to lock
  (`LockedInOrder`). In a set in which everybody waits for another member, the one that
  waits for the greatest product waits for a holder who, waiting itself, would wait
  for a greater one. The product ids are ranked (`LockOrder` is injective into
  `1..Cardinality(Products)`), so there is a greatest.

`AuctionsProofs`, for all auctions, bidders, amounts, times and edits:

- `LeaderCorrect`: from `AuctionsInv`. The leader alone is not inductive: an auction
  without bids must have no winner (or the first bid would be measured against the wrong
  price), and one that does not exist must have no bids.
- `SaleCorrect`: from `SalesCounted`, whatever becomes of the stock. The bound on the sales
  is not inductive: it must leave room for one more while the auction is not COMPLETED
  (`Sellable`) and for one more while an edit is under way that may reopen it
  (`Reopening`). A purchase closes the auction, and only an edit reopens one.
- `PolicyFollowed`: each step that changes the status of an unedited auction is one of
  the policy's.
- `AuctionTypeCorrect`.

`OutboxProofs`, for all events, queues, routes, instances and numbers of attempts,
replays and faults, from `OutboxInv`:

- `PublishedQueued`, `PublishedFinal`: a row is in one transaction at a time, and is
  PENDING while it is (`BatchSound`); jobs do not vanish without a trace.
- `CompletedApplied`: a worker that goes on to report success knows the event
  processed, and what is processed took effect (`EffectsSound`).
- `RepeatedOnlyForCause`: without a cause to repeat, a delivery has one live job
  (`OneLive`), an active job one owner (`OwnersSound`), and so at most one attempt between
  check and insert, which found no effect (`OnceSound`).
- `OutboxTypeCorrect`: what is attempted has an attempt left (`AttemptsLeft`).

The second part of `OutboxProofs` adds the listeners and replays of `DeadLetters`, from
`DLInv`, of which `OutboxInv` is a part; it reuses the lemma of each action of `Outbox`:

- `FailureRecorded`: a handler that finds a REPLAYING row writes to that row and records
  none; there is one for the job itself by then (`FirstRowFirst`).
- `ReplayedProcessed`: a completed job's event is processed when its notice is sent, and
  stays so; the row found is one of the same queue and event (`NoticesSound`).
- `ReplaysRepeatForCause`, `DLTypeCorrect`.

`AccountsProofs`, for all users, tabs, tokens and applications:

- `RotatedOnceCorrect`: from `TokensSound`, which says that the cookie and the calls name
  tokens and that a live token is a registered user's; a token is only made the parent of
  another by the step that revokes it.
- `ShownHoldsTokenCorrect`: from `ShownInv`. The property alone is not inductive: an
  answer may be of a user whose token somebody else's has replaced in the cookie, so
  `SessionsSound` says that every access token and every answer is of a user who has a
  token. The run has one user; here a second one is what the exception `OthersSignedIn` is
  about.
- `ApplicationsCorrect`: from `ApplicationsInv`; the rows and who made them
  (`ApplicationRowsSound`).

`StorefrontProofs`, `Reviews`: for any number of customers, requests and ratings, from
`ReviewsInv == CallsSound /\ LockHeld /\ SavedIsCurrent /\ RatingOfReviews`:

- `RatingCorrect`: the rating alone is not inductive, as a transaction computes it before
  it commits; only the holder of the product's lock has one computed (`LockHeld`), and it
  stays that of the reviews with its own write (`SavedIsCurrent`).

`StorefrontProofs`, `Disputes`: for any seller orders, disputes, administrators, keys and
units, from `DisputesInv == RowsSound /\ OutcomeIsFinal /\ DecisionsRecorded`:

- `DecidedOnceCorrect`: a dispute without an outcome has no refund and no event, one with
  an outcome has a final status, from which no transaction decides it again.

`StorefrontProofs`, `Notifications`: for any number of workers, failures and events, from
`NotificationsInv == EventsSound /\ NoticesUnderWay`:

- `EveryoneIsToldCorrect`: each notice that the present status owes somebody is of an event
  that is still to be handled or has told it already (`WillTell`). A step of the subject
  records an event that carries the notices of the new status, under a number no event has;
  the one notice that outlives its status, the winner's, stays with the event that carried
  it.

`StorefrontProofs`, `Carts`: for any number of products, tabs and changes, from
`CartInv == ChangesSound /\ LinesSound /\ LinesExplained`:

- `LinesExplainedCorrect`: one lemma for each transaction of the cart; `RowsChange` is what
  they have in common.
- `QuietTabCorrect`: from `TabsInv`, which is about the versions that are under way while
  nothing overtook anything (`InOrder`): an answer that sets the tab's copy is the only
  thing the tab waits for, and neither it nor a fetch is older than the last change that
  the tab heard of. That a quiet tab is current says nothing of one that still waits,
  and is therefore no invariant by itself.

`StorefrontProofs`, `Analytics`: for any number of orders, sellers, reports and instants,
any lengths of a day and of a period, and any limits of the two lists, from `ReportsInv ==
EntriesSound /\ RowsNumbered /\ OrdersExplained /\ ReportSound /\ CacheSound`:

- `ReportsCorrect`: the ledger rows of an order are numbered by its repayments
  (`RowsNumbered`), so that no two of them are the same row of the set; they add up to the
  units that are left of it (`OrdersExplained`). Every part of a report, while nothing was
  committed since it began, says what the rows say (`ReportSound`), and so does a kept
  report that was made and read without a commit (`CacheSound`). Days and sellers then
  add up because they partition the rows (`SumGrouped`); of the products, that are listed
  up to a limit, it is proved that a list of that length exists (`TopExists`) and earns no
  more than all of them.

`PagesProofs`, what a reader is shown:

- `CatalogMatchesUrlCorrect`, for any products, links and size of a page: from
  `BrowsingInv`. The answer on the screen is of an address, which is the one on the screen
  unless an answer is awaited (`AnswerKnown`); while the shopper keeps to the buttons, the
  address has the filters chosen and a page that the products reach (`AddressChosen`).
  Both engines count the products that match, but for auctions that PostgreSQL does not
  see (`AnswerSays`).
- `MoneyExactCorrect`, for every amount, part of it and rate of at most 100%: the arithmetic
  of formatting and parsing on either side of zero, and that rounding half up is within
  half a cent. `MCMoney` only enumerates its inputs, so that the invariant is their ranges.
- `SettledPageCorrect`, for each of the three pages and any quantity: from `PageInv`. Unless
  something went unheard, the page has the order as it is, or is fetching it, or is owed a
  change (`Followed`); an answer under way is a view of the order as it is or was earlier
  (`Seen`, by `Age`, which every write increases).
- `IndexCorrect`, for any products, categories, workers and scripts: from `IndexInv`. The
  document last written is that of the rows, or a job is under way whose every worker still
  has to read the product or holds it as it is (`Coming`). Without the condition on
  every worker a job that repeats could be half done; `AloneSound` is what makes `crossed`
  the only exception.
- `CachedForATimeCorrect`, for any keys, readers, writes and times to live: from `CacheInv`.
  The age of an entry and the time it may still live add up to at most the time to live and
  the time of a read (`EntrySound`); a search entry was found after the invalidation that
  made its version (`SearchEntrySound`), since each write invalidates once at most
  (`BumpsCounted`).
- `QuietPageCorrect`, for any writers, workers, changes and connections: from
  `RealtimeInv`. The page, or the answer that will replace it, has the row as it is, or
  the last change is still to be announced or in the wire (`PageFollows`). The page merges
  by `updatedAt`, the workers go by the number of the change; that the two agree
  (`NoNewer`) holds while no change is committed out of order or unannounced, which are
  causes of a `gap`, and needs that no two transactions have the same time
  (`WritersSound`).

The assumptions are those on the constants, one for each module (`ShapeAssumption`,
`CheckoutAssumption`, `AttemptsAssumption`, `CheckoutShape`, `AuctionShape`,
`OutboxShape`, `AccountsShape`, `ReviewsShape`, `DisputesShape`, `NoticeBounds`,
`CartsShape`, `AnalyticsShape`, `MoneyShape`, `BrowsingShape`, `OrderPagesShape`,
`SearchSyncShape`, `CatalogCacheShape`, `RealtimeShape`), and two more: the lines of all
orders are finitely many (`FiniteAssumption`), and the products of a catalog are finitely
many, of which no two are at the same place of an engine's order (`TraitsShape`). Most say
of what kind a constant is and that a mark such as `Blank` is no value. TLC evaluates them
on every run of their modules.

Every safety property that a run checks and finds to hold is the statement of a theorem.
Only model-checked are the liveness properties, as fairness and ENABLED are out of the
prover's reach (`FulfilmentStarts`, `RequestsAnswered`, `AuctionsSettle`, `EventsSettle`,
`SellerActivated`, `AuctionPanelCatchesUp`, `OverdueLotsClose`), and the findings.

## 5. What is not modelled, and what is left

Not modelled: slugs (candidates and a random suffix against a unique index), HTTP
plumbing, metrics and health, deployment and load tests, the demo data, and the pages
that only render what they fetch; of the reports conversion, auction figures, product
counts and the CSV export; of the order pages the lists and the parent order's status.
Abstracted: addresses, names, texts, the split of an order's amounts between sellers in
`Checkout` (`SellerOrders` starts from it), the edit of `minBidIncrement`, and sorting,
search text, category and rating filters of the catalog page.

Looked at, and left out of the models' reach:

- a cart and an auction checkout share the idempotency keys of a customer
  (auction-checkout.service.ts:132); `Checkout` and `Auctions` have keys of their own;
- a cancellation locks products after its seller order
  (seller-order-lifecycle.service.ts:144), a checkout products in the order of their ids:
  the locks of both together are not in one model;
- a full batch of events that cannot be routed stays at the head of the order
  (outbox-publisher.service.ts:87), since no code records such an event; the order of a
  batch is open in `Outbox`;
- the price at which a checkout sells is the one of the cart read
  (checkout.service.ts:327): `Checkout` has no prices.

What is left to do: an abstract specification of `Outbox` ("every recorded event is
applied at least once by every consumer, once without a cause") with a refinement; one
model of all row locks of an order's products.
