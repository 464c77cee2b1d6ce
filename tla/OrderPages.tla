----------------------------- MODULE OrderPages -----------------------------
(***************************************************************************)
(* A seller order as three pages show it: the customer's, the seller's and *)
(* an administrator's (OrderDetailPage, SellerOrderDetailPage,             *)
(* AdminSellerOrderCard), with the read models behind them.                *)
(*                                                                         *)
(* A page offers what its copy of the order allows, sends it, and is told  *)
(* later. The seller's page takes the answer as its copy, the              *)
(* administrator's fetches again, and both the customer's and the seller's *)
(* fetch again when a socket says that the status changed. A refund says   *)
(* nothing to the sockets (RealtimeProcessor has no route for it), and the *)
(* administrator's page does not listen.                                   *)
(***************************************************************************)
EXTENDS Naturals

CONSTANTS
    Sold,           \* units of the item of the seller order
    Fetching,       \* a request that is not answered yet
    Blank           \* no copy, no request

VARIABLES
    viewer,         \* whose page is followed
    sellerOrder,    \* the row, and the units that were refunded
    copyOf,         \* what the page shows
    load,           \* the fetch that the page waits for
    news,           \* announcements of the status on their way to the page
    form,           \* what was asked with a button of the page and is not answered
    unheard         \* a change may have passed the page by

orderPagesVars == <<viewer, sellerOrder, copyOf, load, news, form, unheard>>

Viewers == {"customer", "seller", "admin"}
Listens == viewer \in {"customer", "seller"}

\* The buttons of the page, those together that wait for one another.
Forms == {"status", "cancel", "refund"}
FormsOf(v) ==
    CASE v = "customer" -> {} [] v = "seller" -> {"status"} [] v = "admin" -> {"cancel", "refund"}

\* What there is to show, to ask for, and to wait for.
PageStatuses == {"AWAITING_FULFILLMENT", "PROCESSING", "SHIPPED", "DELIVERED", "CANCELLED"}
OrderRows == [status : PageStatuses, refunded : 0..Sold]
Summaries == [refunded : 0..Sold, effective : 0..Sold]
OrderSummaries == [refundedTotal : 0..Sold, effectiveTotal : 0..Sold]
Views ==
    [status : PageStatuses, refunded : 0..Sold, financials : Summaries]
    \cup [status : PageStatuses, refunded : 0..Sold, order : OrderSummaries]
    \cup [status : PageStatuses, refunded : 0..Sold, financials : Summaries,
          order : OrderSummaries]
Asks == [to : PageStatuses \cup {"refunded"}, units : 0..Sold]
FormStates == [stage : {"sent", "committed"}, asked : Asks] \cup [stage : {"answered"}, view : Views]

ASSUME OrderPagesShape ==
    /\ Sold \in Nat \ {0}
    /\ Fetching # Blank /\ {Fetching, Blank} \cap (Views \cup FormStates) = {}

\* What a refund or a change of status makes of the time: it only goes up.
Age(o) ==
    o.refunded + CASE o.status = "AWAITING_FULFILLMENT" -> 0
                   [] o.status = "PROCESSING" -> 1
                   [] o.status \in {"SHIPPED", "CANCELLED"} -> 2
                   [] o.status = "DELIVERED" -> 3

OrderPagesTypeOK ==
    /\ viewer \in Viewers
    /\ sellerOrder \in OrderRows
    /\ copyOf \in Views \cup {Blank}
    /\ load \in Views \cup {Fetching, Blank}
    /\ news \in Nat
    /\ form \in [Forms -> FormStates \cup {Blank}]
    /\ unheard \in BOOLEAN

OrderPagesInit ==
    /\ viewer \in Viewers
    /\ sellerOrder = [status |-> "AWAITING_FULFILLMENT", refunded |-> 0]
    /\ copyOf = Blank
    /\ load = Fetching
    /\ news = 0
    /\ form = [f \in Forms |-> Blank]
    /\ unheard = FALSE

---------------------------------------------------------------------------
(* The read models.                                                        *)

\* deriveSellerOrderFinancialSummary, in units: an order that was cancelled is
\* given back whole.
DeriveSellerOrderFinancialSummary(o) ==
    LET back == IF o.status = "CANCELLED" THEN Sold ELSE o.refunded
    IN  [refunded |-> back, effective |-> Sold - back]

\* The sums over the seller orders of an order; this one is its only one.
DeriveOrderFinancialSummary(o) ==
    [refundedTotal |-> DeriveSellerOrderFinancialSummary(o).refunded,
     effectiveTotal |-> Sold - DeriveSellerOrderFinancialSummary(o).refunded]

BuildSellerOrderDetailView(o) ==
    [status |-> o.status, refunded |-> o.refunded,
     financials |-> DeriveSellerOrderFinancialSummary(o)]

CustomerOrderDetailView(o) ==
    [status |-> o.status, refunded |-> o.refunded, order |-> DeriveOrderFinancialSummary(o)]

AdminOrderDetailView(o) ==
    [status |-> o.status, refunded |-> o.refunded,
     financials |-> DeriveSellerOrderFinancialSummary(o),
     order |-> DeriveOrderFinancialSummary(o)]

View(o) ==
    CASE viewer = "customer" -> CustomerOrderDetailView(o)
      [] viewer = "seller"   -> BuildSellerOrderDetailView(o)
      [] viewer = "admin"    -> AdminOrderDetailView(o)

---------------------------------------------------------------------------
(* What a page offers, and what the services accept.                       *)

NextStatus(status) ==
    CASE status = "AWAITING_FULFILLMENT" -> "PROCESSING"
      [] status = "PROCESSING" -> "SHIPPED"
      [] status = "SHIPPED" -> "DELIVERED"
      [] OTHER -> "none"

IsCancellable(status) == status \in {"AWAITING_FULFILLMENT", "PROCESSING"}

StatusChange(status) == [to |-> status, units |-> 0]

Changes(o) ==
    ({StatusChange(NextStatus(o.status))} \ {StatusChange("none")})
    \cup (IF IsCancellable(o.status) THEN {StatusChange("CANCELLED")} ELSE {})

\* The seller's page has a button for the next status and one to cancel, the
\* administrator's one to cancel and a form to refund, whatever the status.
StatusOffered == Changes(copyOf)
CancelOffered == {change \in Changes(copyOf) : change.to = "CANCELLED"}
RefundOffered == [to : {"refunded"}, units : 1..(Sold - copyOf.refunded)]

Offered(f) ==
    IF copyOf = Blank \/ f \notin FormsOf(viewer) THEN {}
    ELSE CASE f = "status" -> StatusOffered
           [] f = "cancel" -> CancelOffered
           [] f = "refund" -> RefundOffered

\* assertValidStatusTransition, assertCancellable, and the checks of a refund
Accepted ==
    Changes(sellerOrder)
    \cup (IF sellerOrder.status \in {"PROCESSING", "SHIPPED", "DELIVERED"}
          THEN [to : {"refunded"}, units : 1..(Sold - sellerOrder.refunded)] ELSE {})

\* The button is disabled while its mutation is pending.
Click(f, asked) ==
    /\ form[f] = Blank
    /\ asked \in Offered(f)
    /\ form' = [form EXCEPT ![f] = [stage |-> "sent", asked |-> asked]]
    /\ UNCHANGED <<viewer, sellerOrder, copyOf, load, news, unheard>>

\* updateStatus, cancel, createRefund: a change of status is announced. A page
\* that hears of a change neither from its socket nor from its own button does
\* not know of it.
Change(asked, answered) ==
    LET announced == asked.units = 0 /\ Listens
    IN  /\ asked \in Accepted
        /\ sellerOrder' = [status |-> IF asked.units = 0 THEN asked.to ELSE sellerOrder.status,
                           refunded |-> sellerOrder.refunded + asked.units]
        /\ news' = IF announced THEN news + 1 ELSE news
        /\ unheard' = (unheard \/ ~(announced \/ answered))
        /\ UNCHANGED <<viewer, copyOf, load>>

Commit(f) ==
    /\ form[f] # Blank /\ form[f].stage = "sent"
    /\ Change(form[f].asked, TRUE)
    /\ form' = [form EXCEPT ![f].stage = "committed"]

\* SellerOrderProcessingProcessor, and who else has the order before him.
ChangeElsewhere(asked) ==
    /\ Change(asked, FALSE)
    /\ UNCHANGED form

\* The controller reads the view after the transaction: it may be of a later
\* change.
Answer(f) ==
    /\ form[f] # Blank /\ form[f].stage = "committed"
    /\ form' = [form EXCEPT ![f] = [stage |-> "answered", view |-> View(sellerOrder)]]
    /\ UNCHANGED <<viewer, sellerOrder, copyOf, load, news, unheard>>

---------------------------------------------------------------------------
(* The page is told.                                                       *)

\* setQueryData, even of an answer that a fetch has overtaken.
SetQueryData(view) ==
    /\ copyOf' = view
    /\ unheard' = (unheard \/ (copyOf # Blank /\ Age(view) < Age(copyOf)))

\* Mutant: the administrator's page is not fetched again.
OnSuccess_Seller(f) ==
    IF f = "status" THEN SetQueryData(form[f].view) /\ UNCHANGED load
    ELSE UNCHANGED <<copyOf, load, unheard>>

\* onSuccess: the seller's page is given the answer, the administrator's is
\* fetched again.
OnSuccess(f) ==
    IF f = "status" THEN SetQueryData(form[f].view) /\ UNCHANGED load
    ELSE load' = Fetching /\ UNCHANGED <<copyOf, unheard>>

Succeed(f) ==
    /\ form[f] # Blank /\ form[f].stage = "answered"
    /\ OnSuccess(f)
    /\ form' = [form EXCEPT ![f] = Blank]
    /\ UNCHANGED <<viewer, sellerOrder, news>>

\* The service refuses: the page shows why and keeps its copy.
Refuse(f) ==
    /\ form[f] # Blank /\ form[f].stage = "sent"
    /\ form[f].asked \notin Accepted
    /\ form' = [form EXCEPT ![f] = Blank]
    /\ UNCHANGED <<viewer, sellerOrder, copyOf, load, news, unheard>>

\* The request or the answer is lost: before the change, or after it.
LoseAnswer(f) ==
    /\ form[f] # Blank
    /\ form' = [form EXCEPT ![f] = Blank]
    /\ unheard' = (unheard \/ form[f].stage # "sent")
    /\ UNCHANGED <<viewer, sellerOrder, copyOf, load, news>>

\* onOrderStatus: invalidateQueries abandons the fetch that is under way for a
\* new one if the page has a copy. The first fetch is joined instead, also when
\* its answer was read before the change that is announced.
OnOrderStatus ==
    /\ news > 0
    /\ news' = news - 1
    /\ IF copyOf # Blank \/ load = Blank
       THEN load' = Fetching /\ UNCHANGED unheard
       ELSE unheard' = (unheard \/ load \notin {Fetching, View(sellerOrder)}) /\ UNCHANGED load
    /\ UNCHANGED <<viewer, sellerOrder, copyOf, form>>

\* The socket is not connected, or not yet in its room.
MissNews ==
    /\ news > 0
    /\ news' = news - 1
    /\ unheard' = TRUE
    /\ UNCHANGED <<viewer, sellerOrder, copyOf, load, form>>

\* The socket connects again, or the page is mounted with an old copy.
Reload ==
    /\ load = Blank \/ copyOf # Blank
    /\ load' = Fetching
    /\ UNCHANGED <<viewer, sellerOrder, copyOf, news, form, unheard>>

ServeLoad ==
    /\ load = Fetching
    /\ load' = View(sellerOrder)
    /\ unheard' = FALSE
    /\ UNCHANGED <<viewer, sellerOrder, copyOf, news, form>>

ReceiveLoad ==
    /\ load \notin {Blank, Fetching}
    /\ copyOf' = load
    /\ load' = Blank
    /\ UNCHANGED <<viewer, sellerOrder, news, form, unheard>>

FailLoad ==
    /\ load # Blank
    /\ load' = Blank
    /\ unheard' = TRUE
    /\ UNCHANGED <<viewer, sellerOrder, copyOf, news, form>>

OrderPagesNext ==
    \/ \E f \in Forms :
        \/ \E asked \in Offered(f) : Click(f, asked)
        \/ Commit(f) \/ Answer(f) \/ Succeed(f) \/ Refuse(f) \/ LoseAnswer(f)
    \/ \E asked \in Accepted : ChangeElsewhere(asked)
    \/ OnOrderStatus \/ MissNews
    \/ Reload \/ ServeLoad \/ ReceiveLoad \/ FailLoad

OrderPagesSpec == OrderPagesInit /\ [][OrderPagesNext]_orderPagesVars

---------------------------------------------------------------------------
(* Properties.                                                             *)

PageSettled == load = Blank /\ news = 0 /\ \A f \in Forms : form[f] = Blank

\* A page that waits for nothing shows the order as it is, whichever of its own
\* answers, of the fetches and of the announcements came first. What it may
\* miss is what makes it unheard: an announcement that its socket did not get,
\* a fetch or an answer that was lost, a change that nobody announces to it,
\* one that is announced while the first fetch has an older answer on its way,
\* and, on the seller's page, an answer that came after a fetch of something
\* later.
SettledPageIsCurrent ==
    PageSettled /\ ~unheard /\ copyOf # Blank => copyOf = View(sellerOrder)
=============================================================================
