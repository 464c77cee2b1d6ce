----------------------------- MODULE Analytics -----------------------------
(***************************************************************************)
(* The reports of AnalyticsService: what a seller and the administrator    *)
(* are told of the money of a period.                                      *)
(*                                                                         *)
(* A report is computed by several queries that are sent together. Each    *)
(* has a connection of its own and reads what was committed when it runs,  *)
(* so that a refund may fall between two of them. The report is then kept  *)
(* in Redis for 45 seconds under its period. Rows are dated by the start   *)
(* of their transaction, which may be before a later row of the ledger.    *)
(***************************************************************************)
EXTENDS Integers, FiniteSets, Functions

CONSTANTS
    Sales,          \* seller orders
    Stores,         \* sellers
    UnitsSold,      \* units of a seller order, of ten cents and one of commission
    DayLength,      \* instants of a day
    LastInstant,    \* bound of the clock
    Window,         \* the instants of a report for which no start is given
    MaxChanges,     \* bound of the transactions committed
    MaxReports,     \* bound of the reports kept and computed
    SellersListed,  \* LIMIT of the sellers of a report, 100 in the code
    ProductsListed, \* LIMIT of its products, 5 in the code
    MaxEarly,       \* bound of the queries of a report that run before the rest
    Undated,        \* a date that is not given
    NoReport        \* no report is being computed

ASSUME AnalyticsShape ==
    /\ UnitsSold \in Nat \ {0} /\ DayLength \in Nat \ {0} /\ Window \in Nat \ {0}
    /\ LastInstant \in Nat /\ Undated \notin Int
    /\ IsFiniteSet(Stores) /\ SellersListed \in Nat /\ ProductsListed \in Nat

VARIABLES
    clock,
    saleRow,        \* the SellerOrder rows
    entries,        \* the LedgerEntry rows
    repaid,         \* the COMPLETED Refund rows
    report,         \* the report that is being computed
    reportCache     \* the reports in Redis

analyticsVars == <<clock, saleRow, entries, repaid, report, reportCache>>

NoSale == [status |-> "none"]

\* A figure of each row, summed over them.
TotalOf(Figure(_), rows) == SumFunction([row \in rows |-> Figure(row)])

OrderStates == {"PLACED", "DELIVERED", "CANCELLED"}

Placed == {x \in Sales : saleRow[x] # NoSale}
Delivered == {x \in Placed : saleRow[x].status = "DELIVERED"}

\* How much has been committed.
Version == Cardinality(entries) + Cardinality(Delivered)

AnalyticsTypeOK ==
    /\ clock \in 0..LastInstant
    /\ \A x \in Placed :
        saleRow[x].store \in Stores /\ saleRow[x].status \in OrderStates
    /\ \A row \in entries \cup repaid :
        row.sale \in Placed /\ row.at \in 0..clock /\ row.units \in 1..UnitsSold
    /\ report = NoReport \/ report.began \in 0..Version
    /\ Cardinality(reportCache) <= MaxReports

AnalyticsInit ==
    /\ clock = 0
    /\ saleRow = [x \in Sales |-> NoSale]
    /\ entries = {}
    /\ repaid = {}
    /\ report = NoReport
    /\ reportCache = {}

---------------------------------------------------------------------------
(* The transactions whose rows the reports count: steps of Checkout and of *)
(* SellerOrders.                                                           *)

\* CURRENT_TIMESTAMP of a transaction that commits now.
BeganAt == {clock} \cup ({clock - 1} \cap Nat)

\* A credit or reversal of the units and one of their commission; nth tells the
\* rows of one order apart.
Post(x, nth, types, units, at) ==
    entries' = entries \cup
        {[sale |-> x, nth |-> nth, type |-> type, units |-> units, at |-> at] : type \in types}

RepaymentsOf(x) == {row \in repaid : row.sale = x}
RepaidUnits(x) == TotalOf(LAMBDA row : row.units, RepaymentsOf(x))

Reversal == {"SELLER_EARNING_REVERSAL", "PLATFORM_COMMISSION_REVERSAL"}

PlaceSale(x, store, at) ==
    /\ x \notin Placed
    /\ saleRow' = [saleRow EXCEPT ![x] = [status |-> "PLACED", store |-> store, at |-> at]]
    /\ Post(x, 0, {"SALE_CREDIT", "COMMISSION_DEBIT"}, UnitsSold, at)
    /\ UNCHANGED repaid

RepayUnit(x, at) ==
    /\ x \in Placed /\ saleRow[x].status # "CANCELLED" /\ saleRow[x].at <= at
    /\ RepaidUnits(x) < UnitsSold
    /\ LET nth == 1 + Cardinality(RepaymentsOf(x))
       IN  /\ repaid' = repaid \cup {[sale |-> x, nth |-> nth, units |-> 1, at |-> at]}
           /\ Post(x, nth, Reversal, 1, at)
    /\ UNCHANGED saleRow

\* The whole order is reversed, whatever of it was refunded before.
CancelSale(x, at) ==
    /\ x \in Placed /\ saleRow[x].status = "PLACED" /\ saleRow[x].at <= at
    /\ saleRow' = [saleRow EXCEPT ![x].status = "CANCELLED"]
    /\ Post(x, 1 + UnitsSold, Reversal, UnitsSold, at)
    /\ UNCHANGED repaid

DeliverSale(x) ==
    /\ x \in Placed /\ saleRow[x].status = "PLACED"
    /\ saleRow' = [saleRow EXCEPT ![x].status = "DELIVERED"]
    /\ UNCHANGED <<entries, repaid>>

Transact ==
    /\ Version < MaxChanges
    /\ \E x \in Sales :
        \/ DeliverSale(x)
        \/ \E at \in BeganAt :
            \/ RepayUnit(x, at) \/ CancelSale(x, at)
            \/ \E store \in Stores : PlaceSale(x, store, at)
    /\ UNCHANGED <<clock, report, reportCache>>

TickReports ==
    /\ clock < LastInstant
    /\ clock' = clock + 1
    /\ UNCHANGED <<saleRow, entries, repaid, report, reportCache>>

---------------------------------------------------------------------------
(* The queries.                                                            *)

\* Mutant: a period takes in the instant at which the next one starts.
Within_Inclusive(row, period) == period.from <= row.at /\ row.at <= period.to

Within(row, period) == period.from <= row.at /\ row.at < period.to

\* The ledger entries and the refunds of some sellers in a period.
LedgerOf(period, stores) ==
    {row \in entries : Within(row, period) /\ saleRow[row.sale].store \in stores}
RepaidOf(period, stores) ==
    {row \in repaid : Within(row, period) /\ saleRow[row.sale].store \in stores}

\* Each figure is a sum over the rows with a CASE of its own.
GrossOf(row) ==
    CASE row.type = "SALE_CREDIT" -> 10 * row.units
      [] row.type = "SELLER_EARNING_REVERSAL" -> -10 * row.units
      [] OTHER -> 0
CommissionOf(row) ==
    CASE row.type = "COMMISSION_DEBIT" -> row.units
      [] row.type = "PLATFORM_COMMISSION_REVERSAL" -> -row.units
      [] OTHER -> 0
NetOf(row) ==
    CASE row.type = "SALE_CREDIT" -> 10 * row.units
      [] row.type = "COMMISSION_DEBIT" -> -row.units
      [] row.type = "SELLER_EARNING_REVERSAL" -> -10 * row.units
      [] row.type = "PLATFORM_COMMISSION_REVERSAL" -> row.units

Figures(rows) ==
    [gross |-> TotalOf(GrossOf, rows),
     commission |-> TotalOf(CommissionOf, rows),
     net |-> TotalOf(NetOf, rows),
     orders |-> Cardinality({row.sale : row \in rows})]

Refunded(rows) == TotalOf(LAMBDA row : 10 * row.units, rows)

MoneyOf(period, stores) ==
    [figures |-> Figures(LedgerOf(period, stores)),
     refunds |-> Refunded(RepaidOf(period, stores))]

DayOf(row) == row.at \div DayLength

\* The days of the ledger and those of the refunds, in a full outer join.
Daily(period, stores) ==
    LET ledger == LedgerOf(period, stores)
        refunds == RepaidOf(period, stores)
    IN  [day \in {DayOf(row) : row \in ledger \cup refunds} |->
            [figures |-> Figures({row \in ledger : DayOf(row) = day}),
             refunds |-> Refunded({row \in refunds : DayOf(row) = day})]]

\* ORDER BY rank DESC LIMIT n; nothing orders two of the same rank.
Listed(rank, n) ==
    IF Cardinality(DOMAIN rank) <= n THEN DOMAIN rank
    ELSE CHOOSE top \in SUBSET DOMAIN rank :
            /\ Cardinality(top) = n
            /\ \A x \in top : \A y \in DOMAIN rank \ top : rank[y] <= rank[x]

SellerBreakdown(period) ==
    LET ledger == LedgerOf(period, Stores)
        earned == [store \in {saleRow[row.sale].store : row \in ledger} |->
                      Figures({row \in ledger : saleRow[row.sale].store = store})]
    IN  Restrict(earned,
            Listed([store \in DOMAIN earned |-> earned[store].net], SellersListed))

\* By the day of the order, less its refunds of any day.
TopProducts(period, stores) ==
    LET sold == [x \in {y \in Delivered : /\ Within(saleRow[y], period)
                                         /\ saleRow[y].store \in stores} |->
                    10 * (UnitsSold - RepaidUnits(x))]
    IN  Restrict(sold, Listed(sold, ProductsListed))

CountOrders(period, stores, statuses) ==
    Cardinality({x \in Placed : /\ Within(saleRow[x], period)
                                /\ saleRow[x].store \in stores
                                /\ saleRow[x].status \in statuses})

---------------------------------------------------------------------------
(* A report.                                                               *)

\* The dates of the picker are midnights; a report that ends "now" leaves out
\* what is dated now.
PeriodOf(from, to) ==
    LET until == IF to = Undated THEN clock ELSE to
        since == IF from = Undated THEN until - Window ELSE from
    IN  [from |-> since, to |-> until]

PreviousPeriod(period) ==
    [from |-> 2 * period.from - period.to, to |-> period.from]

\* Promise.all of the queries of adminReport and of sellerOverview.
Parts(stores) ==
    {"money", "daily", "products"}
    \cup IF stores = Stores THEN {"previous", "orders", "sellers"} ELSE {"completed", "cancelled"}

Query(part, period, stores) ==
    CASE part = "money" -> MoneyOf(period, stores)
      [] part = "previous" -> MoneyOf(PreviousPeriod(period), stores)
      [] part = "orders" -> CountOrders(period, stores, OrderStates)
      [] part = "completed" -> CountOrders(period, stores, {"DELIVERED"})
      [] part = "cancelled" -> CountOrders(period, stores, {"CANCELLED"})
      [] part = "daily" -> Daily(period, stores)
      [] part = "sellers" -> SellerBreakdown(period)
      [] part = "products" -> TopProducts(period, stores)

SameReport(a, b) == a.stores = b.stores /\ a.period = b.period

\* A report in the cache is served as it is, and nothing changes. If there is
\* none, or Redis does not answer, it is computed. A period that does not end
\* after it starts is refused.
BeginReport(stores, period) ==
    /\ report = NoReport /\ Cardinality(reportCache) < MaxReports
    /\ period.from < period.to
    /\ report' = [stores |-> stores, period |-> period, began |-> Version,
                  parts |-> [part \in {} |-> 0]]
    /\ UNCHANGED <<clock, saleRow, entries, repaid, reportCache>>

RunQuery(part) ==
    /\ report # NoReport
    /\ Cardinality(DOMAIN report.parts) < MaxEarly
    /\ part \in Parts(report.stores) \ DOMAIN report.parts
    /\ report' = [report EXCEPT !.parts = [p \in DOMAIN report.parts \cup {part} |->
            IF p = part THEN Query(part, report.period, report.stores) ELSE report.parts[p]]]
    /\ UNCHANGED <<clock, saleRow, entries, repaid, reportCache>>

\* The rest of the queries run, and redis.set keeps the report.
KeepReport ==
    /\ report # NoReport
    /\ reportCache' = {kept \in reportCache : ~SameReport(kept, report)}
            \cup {[stores |-> report.stores, period |-> report.period,
                   began |-> report.began, ended |-> Version,
                   parts |-> [part \in Parts(report.stores) |->
                        IF part \in DOMAIN report.parts THEN report.parts[part]
                        ELSE Query(part, report.period, report.stores)]]}
    /\ report' = NoReport
    /\ UNCHANGED <<clock, saleRow, entries, repaid>>

\* A query fails, or the report is answered and Redis does not keep it.
FailReport ==
    /\ report # NoReport
    /\ report' = NoReport
    /\ UNCHANGED <<clock, saleRow, entries, repaid, reportCache>>

ExpireReport ==
    /\ \E kept \in reportCache : reportCache' = reportCache \ {kept}
    /\ UNCHANGED <<clock, saleRow, entries, repaid, report>>

Dates == {Undated} \cup {DayLength * day : day \in 0..(1 + LastInstant \div DayLength)}

Viewable == {Stores} \cup {{store} : store \in Stores}

AnalyticsNext ==
    \/ Transact \/ TickReports
    \/ \E stores \in Viewable : \E from, to \in Dates : BeginReport(stores, PeriodOf(from, to))
    \/ \E part \in Parts(Stores) \cup Parts({}) : RunQuery(part)
    \/ KeepReport \/ FailReport \/ ExpireReport

AnalyticsSpec == AnalyticsInit /\ [][AnalyticsNext]_analyticsVars

---------------------------------------------------------------------------
(* Properties.                                                             *)

\* deriveSellerOrderFinancialSummary: the units of an order that stay sold.
EffectiveUnits(x) ==
    IF saleRow[x].status = "CANCELLED" THEN 0 ELSE UnitsSold - RepaidUnits(x)

SumOver(f, Figure(_)) == TotalOf(LAMBDA i : Figure(f[i]), DOMAIN f)

\* The parts of a report of which nothing was committed between the queries. The
\* sellers add up if they are all listed.
PartsAgree(r) ==
    LET money == r.parts.money.figures
        daily == r.parts.daily
    IN  /\ money.net = money.gross - money.commission
        /\ SumOver(daily, LAMBDA d : d.figures.gross) = money.gross
        /\ SumOver(daily, LAMBDA d : d.figures.commission) = money.commission
        /\ SumOver(daily, LAMBDA d : d.figures.net) = money.net
        /\ SumOver(daily, LAMBDA d : d.refunds) = r.parts.money.refunds
        /\ r.stores = Stores /\ Cardinality(Stores) <= SellersListed =>
            /\ SumOver(r.parts.sellers, LAMBDA s : s.gross) = money.gross
            /\ SumOver(r.parts.sellers, LAMBDA s : s.commission) = money.commission
            /\ SumOver(r.parts.sellers, LAMBDA s : s.net) = money.net

\* What a report says beside the orders it is about: the period and the one
\* before it make up the two together, and a report of all time says what the
\* orders' own pages say, if no cancelled order had been refunded; its products
\* sold no more, and as much if they are all listed. An order that was placed in
\* the period has entries of the period.
AgreesWithOrders(r) ==
    LET all == {x \in Placed : saleRow[x].store \in r.stores}
        sold == TotalOf(LAMBDA x : 10 * EffectiveUnits(x), all \cap Delivered)
        money == r.parts.money.figures
        both == MoneyOf([from |-> PreviousPeriod(r.period).from, to |-> r.period.to], r.stores)
    IN  /\ r.stores = Stores =>
            /\ r.parts.previous.figures.gross + money.gross = both.figures.gross
            /\ r.parts.orders <= money.orders
        /\ /\ r.period.from <= 0 /\ r.period.to > clock
           /\ \A x \in all : saleRow[x].status = "CANCELLED" => RepaymentsOf(x) = {}
           => /\ money.gross = TotalOf(LAMBDA x : 10 * EffectiveUnits(x), all)
              /\ money.commission = TotalOf(EffectiveUnits, all)
              /\ SumOver(r.parts.products, LAMBDA sales : sales) <= sold
              /\ Cardinality(all \cap Delivered) <= ProductsListed
                    => SumOver(r.parts.products, LAMBDA sales : sales) = sold

\* A report is one story: if nothing was committed while its queries ran, its
\* days, its sellers and its totals add up to one another, and while nothing is
\* committed after it they add up to what the orders say of themselves.
ReportsAgree ==
    \A r \in reportCache :
        r.began = r.ended => PartsAgree(r) /\ (r.ended = Version => AgreesWithOrders(r))
=============================================================================
