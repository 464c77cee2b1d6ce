----------------------------- MODULE Fulfilment -----------------------------
(***************************************************************************)
(* SellerOrders together with the job that takes a placed seller order to  *)
(* PROCESSING: the attempts of SellerOrderProcessingProcessor, which       *)
(* OutboxPublisherService limits, and the replay of a dead letter.         *)
(*                                                                         *)
(* A job has a few attempts, each of which may fail before its transaction *)
(* or after it; the last failure ends the job, and only an operator starts *)
(* it again.  Nothing else looks for seller orders that still wait.  How   *)
(* jobs get lost, stall and are delivered twice is the subject of Outbox;  *)
(* a stalled attempt is a failed one here.                                 *)
(***************************************************************************)
EXTENDS SellerOrders

CONSTANTS
    MaxAttempts,    \* the `attempts` option of a job
    Troubled        \* the seller orders whose job may throw (a bound)

ASSUME AttemptsAssumption == MaxAttempts \in Nat \ {0}

VARIABLES
    job,        \* what became of the SELLER_ORDER_CREATED event of a seller order
    attempts    \* attemptsMade of its job

fulfilmentVars == <<vars, job, attempts>>

\* "waiting": from the commit of its outbox row on, with no end of it yet.
JobState == {"none", "waiting", "completed", "failed"}

FulfilmentTypeOK ==
    /\ TypeOK
    /\ job \in [SellerOrderIds -> JobState]
    /\ attempts \in [SellerOrderIds -> 0..MaxAttempts]

FulfilmentInit ==
    /\ Init
    /\ job = [so \in SellerOrderIds |-> "none"]
    /\ attempts = [so \in SellerOrderIds |-> 0]

-----------------------------------------------------------------------------

\* The event of each seller order commits with the order.
Place(o) ==
    /\ PlaceOrder(o)
    /\ job' = [so \in SellerOrderIds |->
                  IF OrderOf[so] = o THEN "waiting" ELSE job[so]]
    /\ UNCHANGED attempts

\* An operator replays the dead letter: a new job with attempts of its own.
Replay(so) ==
    /\ job[so] = "failed"
    /\ job' = [job EXCEPT ![so] = "waiting"]
    /\ attempts' = [attempts EXCEPT ![so] = 0]
    /\ UNCHANGED vars

\* The handler threw: the job waits for its backoff or has failed for good.
Throw(so) ==
    /\ so \in Troubled
    /\ attempts' = [attempts EXCEPT ![so] = @ + 1]
    /\ job' = [job EXCEPT ![so] =
          IF attempts[so] + 1 = MaxAttempts THEN "failed" ELSE "waiting"]

\* No lock, no connection, no answer to the processed check.
FailAttempt(so) ==
    /\ job[so] = "waiting"
    /\ Throw(so)
    /\ UNCHANGED vars

\* Mutant: the event is taken for an old one once the order as a whole has moved.
X_Process(so) ==
    /\ job[so] = "waiting"
    /\ transaction[so] = NoTransaction
    /\ IF status[so] = "AWAITING_FULFILLMENT" /\ orderStatus[OrderOf[so]] = "NEW"
       THEN StartProcessing(so) ELSE UNCHANGED vars
    /\ \/ job' = [job EXCEPT ![so] = "completed"] /\ UNCHANGED attempts
       \/ Throw(so)

\* The attempt gets the row lock and commits.  A row past AWAITING_FULFILLMENT
\* is left alone.  Remembering the event may still fail, which repeats the job.
Process(so) ==
    /\ job[so] = "waiting"
    /\ transaction[so] = NoTransaction
    /\ IF status[so] = "AWAITING_FULFILLMENT"
       THEN StartProcessing(so) ELSE UNCHANGED vars
    /\ \/ job' = [job EXCEPT ![so] = "completed"] /\ UNCHANGED attempts
       \/ Throw(so)

JobStep(so) == Replay(so) \/ FailAttempt(so) \/ Process(so)

FulfilmentNext ==
    \/ \E o \in Orders : Place(o)
    \/ \E so \in SellerOrderIds : JobStep(so)
    \/ /\ \/ \E so \in SellerOrderIds : Request(so)
          \/ \E p \in Deletable : DeleteProduct(p)
       /\ UNCHANGED <<job, attempts>>

FulfilmentSpec == FulfilmentInit /\ [][FulfilmentNext]_fulfilmentVars

\* An attempt ends while no transaction of a request holds the row, well or not.
EndAttempt(so) ==
    /\ transaction[so] = NoTransaction
    /\ Process(so) \/ FailAttempt(so)

\* A transaction that holds the row lock finishes.  Polls repeat and workers take
\* what waits, and PostgreSQL grants a row lock in the order of the requests: an
\* attempt ends although others lock the row again and again.  Nothing says that
\* an attempt succeeds, or that somebody replays a dead letter.
FulfilmentFairSpec ==
    /\ FulfilmentSpec
    /\ \A so \in SellerOrderIds :
          /\ WF_fulfilmentVars(TransactionStep(so) /\ UNCHANGED <<job, attempts>>)
          /\ SF_fulfilmentVars(EndAttempt(so))

-----------------------------------------------------------------------------
(* Properties.                                                             *)

\* A placed seller order leaves AWAITING_FULFILLMENT, or its job ends failed
\* and waits for an operator: the start is never lost between a cancellation
\* that held the row and was rolled back, an attempt that failed after its
\* commit and the recomputations of the parent (startProcessing).
FulfilmentStarts ==
    \A so \in SellerOrderIds :
        status[so] = "AWAITING_FULFILLMENT" ~>
            \/ status[so] # "AWAITING_FULFILLMENT"
            \/ job[so] = "failed"

\* A seller order that still awaits fulfilment has a job to come or a dead letter.
StartNotForgotten ==
    \A so \in SellerOrderIds :
        status[so] = "AWAITING_FULFILLMENT" => job[so] \in {"waiting", "failed"}
=============================================================================
