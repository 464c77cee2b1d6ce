----------------------------- MODULE AuctionJobs -----------------------------
(***************************************************************************)
(* What makes an auction's deadlines happen: the delayed jobs that         *)
(* AuctionLifecycleService schedules, the processor that runs them, and    *)
(* the sweep of AuctionReconciliationService behind both. The module       *)
(* Auctions assumes that an overdue auction is closed some time; here is   *)
(* why it is.                                                              *)
(*                                                                         *)
(* A job has an id of its own: while a job with that id is there, be it    *)
(* delayed, at work or kept after it ended, adding it again does nothing,  *)
(* and one that is at work cannot be removed. Adding and removing may fail,*)
(* which the service only logs.                                            *)
(***************************************************************************)
EXTENDS Naturals, FiniteSets, FiniteSetsExt

CONSTANTS
    Lots,           \* auctions
    Sweepers,       \* backend processes, each with its interval
    BatchSize,      \* rows that a query of the sweep takes
    MaxMoves,       \* edits of the end of an auction (a bound)
    MaxFailures     \* sweeps that an exception or a crash ends (a bound)

ASSUME AuctionJobsShape ==
    /\ BatchSize \in Nat \ {0}
    /\ MaxMoves \in Nat /\ MaxFailures \in Nat

VARIABLES
    lot,            \* the status of an auction, "CLOSED" for each that is final
    due,            \* its end, or the end of its purchase window, has passed
    job,            \* what there is under the id of a job
    sweeper,        \* the batch that a process is at
    moves, failures

auctionJobsVars == <<lot, due, job, sweeper, moves, failures>>
counters == <<moves, failures>>

LotStatus == {"ABSENT", "SCHEDULED", "ACTIVE", "AWAITING_PAYMENT", "CLOSED"}
OpenLot == {"SCHEDULED", "ACTIVE"}
JobTypes == {"FINALIZE", "EXPIRE_PURCHASE_WINDOW"}

\* A misplaced job is delayed until an end that has been moved since.
JobStates == {"none", "delayed", "misplaced", "running", "kept"}

SweepPhases == {"idle", "activate", "finalize", "expire"}
Resting == [phase |-> "idle", batch |-> {}]

AuctionJobsTypeOK ==
    /\ lot \in [Lots -> LotStatus]
    /\ due \in [Lots -> BOOLEAN]
    /\ job \in [Lots -> [JobTypes -> JobStates]]
    /\ sweeper \in [Sweepers -> [phase : SweepPhases, batch : SUBSET Lots]]
    /\ moves \in 0..MaxMoves /\ failures \in 0..MaxFailures

AuctionJobsInit ==
    /\ lot = [l \in Lots |-> "ABSENT"]
    /\ due = [l \in Lots |-> FALSE]
    /\ job = [l \in Lots |-> [t \in JobTypes |-> "none"]]
    /\ sweeper = [s \in Sweepers |-> Resting]
    /\ moves = 0
    /\ failures = 0

---------------------------------------------------------------------------
(* The queue.                                                              *)

\* addDelayedJob
AddDelayedJob(jobs, l, t) ==
    IF jobs[l][t] = "none" THEN {jobs, [jobs EXCEPT ![l][t] = "delayed"]} ELSE {jobs}

\* removeScheduledJob: a delayed job that could not be removed is for an end
\* that is none any more.
RemoveScheduledJob(jobs, l, t) ==
    CASE jobs[l][t] = "delayed" ->
            {[jobs EXCEPT ![l][t] = "none"], [jobs EXCEPT ![l][t] = "misplaced"]}
      [] jobs[l][t] \in {"misplaced", "kept"} ->
            {jobs, [jobs EXCEPT ![l][t] = "none"]}
      [] OTHER -> {jobs}

\* removeOnComplete, removeOnFail: a job that has ended is forgotten some time.
ForgetJob(l, t) ==
    /\ job[l][t] = "kept"
    /\ job' = [job EXCEPT ![l][t] = "none"]
    /\ UNCHANGED <<lot, due, sweeper, counters>>

---------------------------------------------------------------------------
(* The auction.                                                            *)

\* scheduleFinalization
CreateLot(l) ==
    /\ lot[l] = "ABSENT"
    /\ lot' \in {[lot EXCEPT ![l] = s] : s \in OpenLot}
    /\ job' \in AddDelayedJob(job, l, "FINALIZE")
    /\ UNCHANGED <<due, sweeper, counters>>

\* rescheduleFinalization, after an edit that moved the end into the future
MoveEnd(l) ==
    /\ lot[l] \in OpenLot
    /\ moves < MaxMoves
    /\ moves' = moves + 1
    /\ due' = [due EXCEPT ![l] = FALSE]
    /\ lot' \in {[lot EXCEPT ![l] = s] : s \in OpenLot}
    /\ \E jobs \in RemoveScheduledJob(job, l, "FINALIZE") :
            job' \in AddDelayedJob(jobs, l, "FINALIZE")
    /\ UNCHANGED <<sweeper, failures>>

\* cancelScheduledFinalization, after a cancellation; a purchase removes nothing.
Leave(l) ==
    /\ lot[l] \in OpenLot \cup {"AWAITING_PAYMENT"}
    /\ lot' = [lot EXCEPT ![l] = "CLOSED"]
    /\ IF lot[l] \in OpenLot
       THEN \E jobs \in RemoveScheduledJob(job, l, "FINALIZE") :
                job' \in RemoveScheduledJob(jobs, l, "EXPIRE_PURCHASE_WINDOW")
       ELSE job' = job
    /\ UNCHANGED <<due, sweeper, counters>>

PassDeadline(l) ==
    /\ lot[l] \notin {"ABSENT", "CLOSED"}
    /\ ~due[l]
    /\ due' = [due EXCEPT ![l] = TRUE]
    /\ UNCHANGED <<lot, job, sweeper, counters>>

ActivateAuction(l) ==
    /\ lot' \in {lot, IF lot[l] = "SCHEDULED" /\ ~due[l] THEN [lot EXCEPT ![l] = "ACTIVE"]
                      ELSE lot}
    /\ UNCHANGED <<due, job>>

\* finalizeAuction: nothing unless the auction is open and its end has passed.
\* A winner gets a window, and the window a job (schedulePurchaseWindowExpiry).
FinalizeAuction(l, jobs) ==
    \/ /\ lot[l] \in OpenLot /\ due[l]
       /\ lot' = [lot EXCEPT ![l] = "CLOSED"]
       /\ due' = due
       /\ job' = jobs
    \/ /\ lot[l] \in OpenLot /\ due[l]
       /\ lot' = [lot EXCEPT ![l] = "AWAITING_PAYMENT"]
       /\ due' = [due EXCEPT ![l] = FALSE]
       /\ job' \in AddDelayedJob(jobs, l, "EXPIRE_PURCHASE_WINDOW")
    \/ /\ lot[l] \notin OpenLot \/ ~due[l]
       /\ lot' = lot /\ due' = due /\ job' = jobs

ExpireWindow(l, jobs) ==
    /\ lot' = IF lot[l] = "AWAITING_PAYMENT" /\ due[l] THEN [lot EXCEPT ![l] = "CLOSED"] ELSE lot
    /\ due' = due
    /\ job' = jobs

---------------------------------------------------------------------------
(* AuctionFinalizationProcessor.                                           *)

TakeJob(l, t) ==
    /\ job[l][t] = "misplaced" \/ (job[l][t] = "delayed" /\ due[l])
    /\ job' = [job EXCEPT ![l][t] = "running"]
    /\ UNCHANGED <<lot, due, sweeper, counters>>

ProcessJob(l, t) ==
    /\ job[l][t] = "running"
    /\ LET jobs == [job EXCEPT ![l][t] = "kept"]
       IN  IF t = "FINALIZE" THEN FinalizeAuction(l, jobs) ELSE ExpireWindow(l, jobs)
    /\ UNCHANGED <<sweeper, counters>>

\* Each of its attempts has failed.
FailJob(l, t) ==
    /\ job[l][t] = "running"
    /\ job' = [job EXCEPT ![l][t] = "kept"]
    /\ UNCHANGED <<lot, due, sweeper, counters>>

---------------------------------------------------------------------------
(* AuctionReconciliationService.                                           *)

\* Mutant: the query of the overdue auctions leaves out those nobody activated.
Found_ActiveOnly(phase) ==
    CASE phase = "activate" -> SUBSET {l \in Lots : lot[l] = "SCHEDULED" /\ ~due[l]}
      [] phase = "finalize" -> {{l \in Lots : lot[l] = "ACTIVE" /\ due[l]}}
      [] phase = "expire"   -> {{l \in Lots : lot[l] = "AWAITING_PAYMENT" /\ due[l]}}
      [] phase = "idle"     -> {{}}

\* The lots that the query of a phase finds; of those to activate, those that
\* have started.
Found(phase) ==
    CASE phase = "activate" -> SUBSET {l \in Lots : lot[l] = "SCHEDULED" /\ ~due[l]}
      [] phase = "finalize" -> {{l \in Lots : lot[l] \in OpenLot /\ due[l]}}
      [] phase = "expire"   -> {{l \in Lots : lot[l] = "AWAITING_PAYMENT" /\ due[l]}}
      [] phase = "idle"     -> {{}}

\* take: as many as a batch may have, in no order.
Batches(found) ==
    IF Cardinality(found) <= BatchSize THEN {found} ELSE kSubset(BatchSize, found)

NextPhase ==
    [idle |-> "activate", activate |-> "finalize", finalize |-> "expire", expire |-> "idle"]

\* The interval fires, or the batch of a phase is done: the next phase's query.
ReadBatch(s) ==
    LET phase == NextPhase[sweeper[s].phase]
    IN  /\ sweeper[s].batch = {}
        /\ \E found \in Found(phase) : \E batch \in Batches(found) :
                sweeper' = [sweeper EXCEPT ![s] = [phase |-> phase, batch |-> batch]]
        /\ UNCHANGED <<lot, due, job, counters>>

\* The rows of the batch, one after another, each as it is by now.
Reconcile(s, l) ==
    /\ l \in sweeper[s].batch
    /\ CASE sweeper[s].phase = "activate" -> ActivateAuction(l)
         [] sweeper[s].phase = "finalize" -> FinalizeAuction(l, job)
         [] sweeper[s].phase = "expire"   -> ExpireWindow(l, job)
    /\ sweeper' = [sweeper EXCEPT ![s].batch = @ \ {l}]
    /\ UNCHANGED counters

\* An exception, or a crash, ends the sweep with the rows that it has not come
\* to; finally, the process may sweep again.
FailSweep(s) ==
    /\ sweeper[s].batch # {}
    /\ failures < MaxFailures
    /\ failures' = failures + 1
    /\ sweeper' = [sweeper EXCEPT ![s] = Resting]
    /\ UNCHANGED <<lot, due, job, moves>>

AuctionJobsNext ==
    \/ \E l \in Lots :
        \/ CreateLot(l) \/ MoveEnd(l) \/ Leave(l) \/ PassDeadline(l)
        \/ \E t \in JobTypes : ForgetJob(l, t) \/ TakeJob(l, t) \/ ProcessJob(l, t) \/ FailJob(l, t)
    \/ \E s \in Sweepers :
        ReadBatch(s) \/ FailSweep(s) \/ \E l \in Lots : Reconcile(s, l)

\* The intervals go on. Nothing is assumed of the jobs.
AuctionJobsFairness ==
    \A s \in Sweepers :
        WF_auctionJobsVars(ReadBatch(s)) /\ WF_auctionJobsVars(\E l \in Lots : Reconcile(s, l))

AuctionJobsSpec == AuctionJobsInit /\ [][AuctionJobsNext]_auctionJobsVars /\ AuctionJobsFairness

---------------------------------------------------------------------------
(* Properties.                                                             *)

\* A lot whose end, or whose window, has passed does not stay open: neither a
\* job that was never added, that an older one under its id kept out, that ran
\* for an end that was moved, or that failed for good, nor a sweep that did
\* not get to the row, leaves it so.
OverdueLotsClose ==
    \A l \in Lots :
        due[l] /\ lot[l] # "CLOSED" ~> ~(due[l] /\ lot[l] # "CLOSED")
=============================================================================
