---------------------------- MODULE Notifications ----------------------------
(***************************************************************************)
(* NotificationsProcessor: who is told what of one subject - an order, a   *)
(* refund, a dispute, an auction or a seller's application.                *)
(*                                                                         *)
(* An event says that something changed. Its job reads the subject when it *)
(* runs and tells the status that it finds, to one recipient after the     *)
(* other; workers run the jobs of one subject at the same time and in any  *)
(* order, an attempt may stop at every await, and a job is run again until *)
(* its event is among the processed ones.                                  *)
(***************************************************************************)
EXTENDS Naturals, FiniteSets

CONSTANTS
    NoticeWorkers,
    MaxEvents,      \* bound of the events recorded, for each aggregate type
    MaxLosses,      \* bound of the attempts that fail
    NoNotice        \* a worker without a job

AggregateTypes == {"Order", "Refund", "Dispute", "Auction", "SellerApplication"}

ASSUME NoticeBounds == MaxEvents \in [AggregateTypes -> Nat] /\ MaxLosses \in Nat

VARIABLES
    kind,           \* the aggregate type
    subject,        \* the status of its row
    recorded,       \* the outbox events of the subject
    undone,         \* those whose job is not completed
    remembered,     \* those in processed_events
    attempt,        \* what a worker is doing
    told,           \* the notifications sent
    losses

notificationsVars ==
    <<kind, subject, recorded, undone, remembered, attempt, told, losses>>

Step(from, to, types) == [from |-> from, to |-> to, types |-> types]

ActiveDispute == {"OPEN", "UNDER_REVIEW"}

\* The changes that the services commit, with the events of each. A seller may
\* respond to a dispute again and again, as an auction may be bid on.
StepsOf(k) ==
    CASE k = "Order" ->
            {Step("none", "NEW", {"ORDER_CREATED"}),
             Step("NEW", "PROCESSING", {"ORDER_STATUS_CHANGED"}),
             Step("PROCESSING", "CANCELLED", {"ORDER_STATUS_CHANGED"})}
      [] k = "Refund" -> {Step("none", "COMPLETED", {"REFUND_CREATED"})}
      [] k = "Dispute" ->
            {Step("none", "OPEN", {"DISPUTE_OPENED"}),
             Step("OPEN", "UNDER_REVIEW", {"DISPUTE_STATUS_CHANGED"}),
             Step("OPEN", "CLOSED", {"DISPUTE_STATUS_CHANGED"}),
             Step("UNDER_REVIEW", "CLOSED", {"DISPUTE_STATUS_CHANGED"}),
             Step("RESOLVED_CUSTOMER", "CLOSED", {"DISPUTE_STATUS_CHANGED"})}
            \cup {Step(active, active, {"DISPUTE_STATUS_CHANGED"}) : active \in ActiveDispute}
            \cup {Step(active, "RESOLVED_CUSTOMER", {"DISPUTE_RESOLVED"}) :
                    active \in ActiveDispute}
      [] k = "Auction" ->
            {Step("none", "ACTIVE", {"AUCTION_CREATED"}),
             Step("ACTIVE", "ACTIVE", {"BID_PLACED"}),
             Step("ACTIVE", "AWAITING_PAYMENT",
                {"AUCTION_WON", "AUCTION_FINALIZED", "AUCTION_PURCHASE_WINDOW_OPENED"}),
             Step("AWAITING_PAYMENT", "COMPLETED", {"AUCTION_PURCHASED"}),
             Step("AWAITING_PAYMENT", "EXPIRED", {"AUCTION_PURCHASE_WINDOW_EXPIRED"})}
      [] k = "SellerApplication" ->
            {Step("none", "PENDING", {"SELLER_APPLICATION_CREATED"}),
             Step("PENDING", "APPROVED", {"SELLER_APPLICATION_APPROVED"}),
             Step("PENDING", "REJECTED", {"SELLER_APPLICATION_REJECTED"})}

Idling == [stage |-> "idle", event |-> NoNotice]

NotificationsTypeOK ==
    /\ kind \in AggregateTypes
    /\ subject \in {"none"} \cup {step.to : step \in StepsOf(kind)}
    /\ undone \subseteq recorded /\ remembered \subseteq recorded
    /\ \A w \in NoticeWorkers :
        attempt[w].stage \in {"idle", "taken", "read", "told", "marked"}
    /\ \A notice \in told : notice.to \in {"customer", "seller", "winner", "applicant"}
    /\ losses \in 0..MaxLosses

NotificationsInit ==
    /\ kind \in AggregateTypes
    /\ subject = "none"
    /\ recorded = {}
    /\ undone = {}
    /\ remembered = {}
    /\ attempt = [w \in NoticeWorkers |-> Idling]
    /\ told = {}
    /\ losses = 0

---------------------------------------------------------------------------
(* The services and the publisher.                                         *)

ChangeSubject(step) ==
    LET events == {[no |-> Cardinality(recorded), type |-> type] : type \in step.types}
    IN  /\ subject = step.from
        /\ Cardinality(recorded) + Cardinality(events) <= MaxEvents[kind]
        /\ subject' = step.to
        /\ recorded' = recorded \cup events
        /\ undone' = undone \cup events
        /\ UNCHANGED <<kind, remembered, attempt, told, losses>>

---------------------------------------------------------------------------
(* The processor.                                                          *)

\* The winner's id stays in the row when the purchase window is over.
HasWinner == subject \in {"AWAITING_PAYMENT", "COMPLETED", "EXPIRED"}

\* Who the handler of an event tells what: "now", when it has read the subject,
\* or "later", after another await. An order's first event carries the buyer, and
\* its notice says only that the order was placed.
Notice(to, says) == [to |-> to, says |-> says]

NotifyOrder(type) ==
    [now |-> {Notice("customer", IF type = "ORDER_CREATED" THEN "placed" ELSE subject)},
     later |-> {}]

NotifyRefund == [now |-> {Notice("customer", subject)}, later |-> {Notice("seller", subject)}]

NotifyDispute == [now |-> {Notice("customer", subject)}, later |-> {Notice("seller", subject)}]

NotifyAuction(type) ==
    [now |-> {},
     later |-> {Notice("seller", subject)}
        \cup (IF type \in {"AUCTION_WON", "AUCTION_PURCHASE_WINDOW_OPENED"} /\ HasWinner
              THEN {Notice("winner", "won")} ELSE {})]

NotifySellerApplication == [now |-> {Notice("applicant", subject)}, later |-> {}]

Dispatch(type) ==
    CASE kind = "Order" -> NotifyOrder(type)
      [] kind = "Refund" -> NotifyRefund
      [] kind = "Dispute" -> NotifyDispute
      [] kind = "Auction" -> NotifyAuction(type)
      [] kind = "SellerApplication" -> NotifySellerApplication

\* A job that stalled may be run by a second worker.
TakeNotice(w, event) ==
    /\ attempt[w] = Idling
    /\ event \in undone \ remembered
    /\ attempt' = [attempt EXCEPT ![w] = [stage |-> "taken", event |-> event]]
    /\ UNCHANGED <<kind, subject, recorded, undone, remembered, told, losses>>

\* An event that was processed before completes its job without a notice.
SkipNotice(event) ==
    /\ event \in undone \cap remembered
    /\ undone' = undone \ {event}
    /\ UNCHANGED <<kind, subject, recorded, remembered, attempt, told, losses>>

ReadSubject(w) ==
    LET plan == Dispatch(attempt[w].event.type)
    IN  /\ attempt[w].stage = "taken"
        /\ told' = told \cup plan.now
        /\ attempt' = [attempt EXCEPT ![w] =
                [stage |-> "read", event |-> attempt[w].event, later |-> plan.later]]
        /\ UNCHANGED <<kind, subject, recorded, undone, remembered, losses>>

\* resolveSellerUserId, or the read of the auction's product, is awaited before.
TellOthers(w) ==
    /\ attempt[w].stage = "read"
    /\ told' = told \cup attempt[w].later
    /\ attempt' = [attempt EXCEPT ![w] = [stage |-> "told", event |-> attempt[w].event]]
    /\ UNCHANGED <<kind, subject, recorded, undone, remembered, losses>>

\* The insert may find the row of a second attempt: that is no error.
MarkRemembered(w) ==
    /\ attempt[w].stage = "told"
    /\ remembered' = remembered \cup {attempt[w].event}
    /\ attempt' = [attempt EXCEPT ![w].stage = "marked"]
    /\ UNCHANGED <<kind, subject, recorded, undone, told, losses>>

CompleteNotice(w) ==
    /\ attempt[w].stage = "marked"
    /\ undone' = undone \ {attempt[w].event}
    /\ attempt' = [attempt EXCEPT ![w] = Idling]
    /\ UNCHANGED <<kind, subject, recorded, remembered, told, losses>>

Stop(w) ==
    /\ attempt[w] # Idling
    /\ losses < MaxLosses
    /\ losses' = losses + 1
    /\ attempt' = [attempt EXCEPT ![w] = Idling]
    /\ UNCHANGED <<kind, subject, recorded, remembered, told>>

\* Mutant: the error is logged and not thrown, and the job is completed.
FailNotice_Caught(w) ==
    Stop(w) /\ undone' = undone \ {attempt[w].event}

\* The error is thrown again, so that the job is retried. How a job fails for
\* good and is replayed is in DeadLetters.
FailNotice(w) == Stop(w) /\ UNCHANGED undone

NotificationsNext ==
    \/ \E step \in StepsOf(kind) : ChangeSubject(step)
    \/ \E event \in recorded :
        SkipNotice(event) \/ \E w \in NoticeWorkers : TakeNotice(w, event)
    \/ \E w \in NoticeWorkers :
        \/ ReadSubject(w) \/ TellOthers(w) \/ MarkRemembered(w)
        \/ CompleteNotice(w) \/ FailNotice(w)

NotificationsSpec == NotificationsInit /\ [][NotificationsNext]_notificationsVars

---------------------------------------------------------------------------
(* Properties.                                                             *)

\* Who has to know of the subject's status, and what it is called to him.
ConcernedBy ==
    IF subject = "none" THEN {}
    ELSE CASE kind = "Order" ->
                {Notice("customer", IF subject = "NEW" THEN "placed" ELSE subject)}
           [] kind \in {"Refund", "Dispute"} ->
                {Notice("customer", subject), Notice("seller", subject)}
           [] kind = "Auction" ->
                {Notice("seller", subject)}
                \cup (IF HasWinner THEN {Notice("winner", "won")} ELSE {})
           [] kind = "SellerApplication" -> {Notice("applicant", subject)}

\* Once no job is left to run, everyone concerned has been told how things stand,
\* although an event does not carry the status, its notices are sent one after
\* the other by attempts that fail in between, and jobs overtake one another. A
\* status that was over before its event was handled may never be told, and
\* the last notice sent need not be of the last status.
EveryoneIsTold == undone = {} => ConcernedBy \subseteq told
=============================================================================
