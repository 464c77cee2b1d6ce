------------------------------- MODULE Outbox -------------------------------
(***************************************************************************)
(* OutboxService, OutboxPublisherService and the consumers of the outbox:  *)
(* an event committed with the change it describes is relayed by several   *)
(* backend instances to the BullMQ queues of its aggregate type, whose     *)
(* workers apply it and remember its id in processed_events.               *)
(*                                                                         *)
(* A poll is a transaction: it locks PENDING rows with SKIP LOCKED, adds   *)
(* the jobs of each row in turn, and commits all the new statuses.  The    *)
(* jobs stay if the transaction does not commit.  An attempt of a job is   *)
(* four steps: the processed check, the effect, the insert of the id and   *)
(* the report to BullMQ.  Search-sync, seller-order-processing,            *)
(* notifications and realtime share this shape.                            *)
(***************************************************************************)
EXTENDS Naturals, FiniteSets

CONSTANTS
    Events,         \* rows of outbox_events
    Queues,
    Route,          \* queuesByAggregateType: the queues of an event
    Instances,      \* backend processes, each with a poller
    Workers,        \* the instances whose worker of a queue is at work
    MaxAttempts,    \* the `attempts` option of a job
    MaxReplays,     \* a bound on the replays to a queue of an event
    MaxFaults       \* a bound on crashes, stalls, failed calls and dropped jobs

\* Every aggregate type that the code records has a route.
ASSUME OutboxShape ==
    /\ Route \in [Events -> SUBSET Queues]
    /\ \A e \in Events : Route[e] # {}
    /\ MaxAttempts \in Nat \ {0}
    /\ Workers \in [Queues -> SUBSET Instances]
    /\ MaxReplays \in [Queues -> Nat]
    /\ MaxFaults \in Nat

VARIABLES
    event,      \* OutboxEvent.status as committed
    batch,      \* what the transaction of an instance's poll did to each row
    job,        \* the jobs in Redis
    attempts,   \* attemptsMade of a job
    worker,     \* what each instance's worker of a queue is doing
    processed,  \* ProcessedEvent rows
    applied,    \* how often an effect took place: never, once, or more (2)
    repeatable, \* deliveries with an interrupted attempt or two live jobs
    faults

outboxVars == <<event, batch, job, attempts, worker, processed, applied,
                repeatable, faults>>

Deliveries == {d \in Queues \X Events : d[1] \in Route[d[2]]}

\* replay = 0 is the publisher's job, whose id is the event's; the others are replays.
Jobs == UNION {[delivery : {d}, replay : 0..MaxReplays[d[1]]] : d \in Deliveries}
JobOf(q, e) == [delivery |-> <<q, e>>, replay |-> 0]

\* forgotten and discarded: removeOnComplete and removeOnFail dropped the job.
Absent == {"none", "forgotten", "discarded"}
Live == {"waiting", "active"}
JobState == Absent \cup Live \cup {"completed", "failed"}

Idle == [step |-> "idle"]
Attempt == [step : {"failing", "checked", "applied", "finished"}, job : Jobs,
            owner : BOOLEAN]

\* No code writes FAILED.
OutboxStatus == {"PENDING", "PUBLISHED", "FAILED"}

TypeOK ==
    /\ event \in [Events -> OutboxStatus \cup {"unrecorded"}]
    /\ batch \in [Instances -> [Events -> OutboxStatus \cup {"free", "locked"}]]
    /\ job \in [Jobs -> JobState]
    /\ attempts \in [Jobs -> 0..MaxAttempts]
    /\ worker \in [Instances -> [Queues -> Attempt \cup {Idle}]]
    /\ processed \subseteq Deliveries
    /\ applied \in [Deliveries -> 0..2]
    /\ repeatable \subseteq Deliveries
    /\ faults \in 0..MaxFaults

NoRows == [e \in Events |-> "free"]

OutboxInit ==
    /\ event = [e \in Events |-> "unrecorded"]
    /\ batch = [i \in Instances |-> NoRows]
    /\ job = [j \in Jobs |-> "none"]
    /\ attempts = [j \in Jobs |-> 0]
    /\ worker = [i \in Instances |-> [q \in Queues |-> Idle]]
    /\ processed = {}
    /\ applied = [d \in Deliveries |-> 0]
    /\ repeatable = {}
    /\ faults = 0

Fault == faults < MaxFaults /\ faults' = faults + 1

-----------------------------------------------------------------------------
(* The publisher.                                                          *)

\* The transaction of a domain change commits with its event.
Record(e) ==
    /\ event[e] = "unrecorded"
    /\ event' = [event EXCEPT ![e] = "PENDING"]
    /\ UNCHANGED <<batch, job, attempts, worker, processed, applied, repeatable,
                   faults>>

\* Mutant: the rows are read without locking them and skipping locked ones.
X_Selectable == {e \in Events : event[e] = "PENDING"}

Selectable == {e \in Events : event[e] = "PENDING"
                                /\ \A i \in Instances : batch[i][e] = "free"}

\* isPolling keeps an instance to one batch.  Which rows come first and how many the
\* limit allows is left open.
LockBatch(i) ==
    /\ batch[i] = NoRows
    /\ \E rows \in SUBSET Selectable \ {{}} :
           batch' = [batch EXCEPT ![i] =
                       [e \in Events |-> IF e \in rows THEN "locked" ELSE "free"]]
    /\ UNCHANGED <<event, job, attempts, worker, processed, applied, repeatable,
                   faults>>

\* BullMQ ignores an add whose job id is still present.
AddJobs(added) ==
    LET new == {j \in added : job[j] \in Absent} IN
    /\ job' = [j \in Jobs |-> IF j \in new THEN "waiting" ELSE job[j]]
    /\ attempts' = [j \in Jobs |-> IF j \in new THEN 0 ELSE attempts[j]]
    /\ repeatable' = repeatable \cup
         {j.delivery : j \in {k \in new :
             \E other \in Jobs : /\ other.delivery = k.delivery
                                 /\ other # k
                                 /\ job[other] \in Live}}

JobsOf(e) == {JobOf(q, e) : q \in Route[e]}

\* All the adds succeeded.
Publish(i, e) ==
    /\ batch[i][e] = "locked"
    /\ AddJobs(JobsOf(e))
    /\ batch' = [batch EXCEPT ![i][e] = "PUBLISHED"]
    /\ UNCHANGED <<event, worker, processed, applied, faults>>

\* Mutant: a failed add is logged and the row published all the same.
X_FailToPublish(i, e) ==
    /\ batch[i][e] = "locked"
    /\ Fault
    /\ \E added \in SUBSET JobsOf(e) : AddJobs(added)
    /\ batch' = [batch EXCEPT ![i][e] = "PUBLISHED"]
    /\ UNCHANGED <<event, worker, processed, applied>>

\* Mutant: a row that could not be published becomes FAILED and is not polled again.
X_GiveUpPublishing(i, e) ==
    /\ batch[i][e] = "locked"
    /\ Fault
    /\ \E added \in SUBSET JobsOf(e) : AddJobs(added)
    /\ batch' = [batch EXCEPT ![i][e] = "FAILED"]
    /\ UNCHANGED <<event, worker, processed, applied>>

\* One of them was rejected; the others, and even that one, may have taken effect.
FailToPublish(i, e) ==
    /\ batch[i][e] = "locked"
    /\ Fault
    /\ \E added \in SUBSET JobsOf(e) : AddJobs(added)
    /\ batch' = [batch EXCEPT ![i][e] = "PENDING"]
    /\ UNCHANGED <<event, worker, processed, applied>>

CommitBatch(i) ==
    /\ batch[i] # NoRows
    /\ \A e \in Events : batch[i][e] # "locked"
    /\ event' = [e \in Events |-> IF batch[i][e] = "free" THEN event[e]
                                                           ELSE batch[i][e]]
    /\ batch' = [batch EXCEPT ![i] = NoRows]
    /\ UNCHANGED <<job, attempts, worker, processed, applied, repeatable, faults>>

\* The transaction is rolled back; poll logs the error and clears isPolling.
AbortBatch(i) ==
    /\ batch[i] # NoRows
    /\ Fault
    /\ batch' = [batch EXCEPT ![i] = NoRows]
    /\ UNCHANGED <<event, job, attempts, worker, processed, applied, repeatable>>

-----------------------------------------------------------------------------
(* The consumers.  A worker has one attempt at a time.                     *)

Working(i, q) == worker[i][q] # Idle
SetStep(i, q, step) == worker' = [worker EXCEPT ![i][q].step = step]

\* Mutant: the id is inserted before the effect.
X_TakeMarked(i, j) ==
    LET q == j.delivery[1] IN
    /\ i \in Workers[q]
    /\ job[j] = "waiting"
    /\ ~Working(i, q)
    /\ job' = [job EXCEPT ![j] = "active"]
    /\ worker' = [worker EXCEPT ![i][q] =
         [step |-> IF j.delivery \in processed THEN "finished" ELSE "checked",
          job |-> j, owner |-> TRUE]]
    /\ processed' = processed \cup {j.delivery}
    /\ UNCHANGED <<event, batch, attempts, applied, repeatable, faults>>

\* Mutant: BullMQ's job ids are relied on instead of the processed check.
X_TakeUnchecked(i, j) ==
    LET q == j.delivery[1] IN
    /\ i \in Workers[q]
    /\ job[j] = "waiting"
    /\ ~Working(i, q)
    /\ job' = [job EXCEPT ![j] = "active"]
    /\ worker' = [worker EXCEPT ![i][q] = [step |-> "checked", job |-> j, owner |-> TRUE]]
    /\ UNCHANGED <<event, batch, attempts, processed, applied, repeatable, faults>>

\* An event whose id is recorded is not dispatched again.  The query that looks for the id
\* may itself fail, which only matters here if it is recorded.
Take(i, j) ==
    LET q == j.delivery[1] IN
    /\ i \in Workers[q]
    /\ job[j] = "waiting"
    /\ ~Working(i, q)
    /\ job' = [job EXCEPT ![j] = "active"]
    /\ \E step \in IF j.delivery \in processed THEN {"finished", "failing"} ELSE {"checked"} :
           worker' = [worker EXCEPT ![i][q] = [step |-> step, job |-> j, owner |-> TRUE]]
    /\ UNCHANGED <<event, batch, attempts, processed, applied, repeatable, faults>>

Apply(i, q) ==
    /\ worker[i][q].step = "checked"
    /\ LET d == worker[i][q].job.delivery IN
       applied' = [applied EXCEPT ![d] = IF @ = 0 THEN 1 ELSE 2]
    /\ SetStep(i, q, "applied")
    /\ UNCHANGED <<event, batch, job, attempts, processed, repeatable, faults>>

\* A second insert of the id violates the unique index, which is ignored.
MarkProcessed(i, q) ==
    /\ worker[i][q].step = "applied"
    /\ processed' = processed \cup {worker[i][q].job.delivery}
    /\ SetStep(i, q, "finished")
    /\ UNCHANGED <<event, batch, job, attempts, applied, repeatable, faults>>

\* The handler returned.  BullMQ refuses the report of a worker whose lock expired.
Complete(i, q) ==
    /\ worker[i][q].step = "finished"
    /\ job' = IF worker[i][q].owner
                THEN [job EXCEPT ![worker[i][q].job] = "completed"] ELSE job
    /\ worker' = [worker EXCEPT ![i][q] = Idle]
    /\ UNCHANGED <<event, batch, attempts, processed, applied, repeatable, faults>>

\* The handler threw, before the effect or after it: the job waits for its backoff, or has
\* used up its attempts.
FailAttempt(i, q) ==
    LET w == worker[i][q] IN
    /\ w.step \in {"failing", "checked", "applied"}
    /\ IF w.owner
         THEN /\ attempts' = [attempts EXCEPT ![w.job] = @ + 1]
              /\ job' = [job EXCEPT ![w.job] =
                   IF attempts[w.job] + 1 = MaxAttempts THEN "failed" ELSE "waiting"]
         ELSE UNCHANGED <<job, attempts>>
    /\ repeatable' = IF w.step = "applied" THEN repeatable \cup {w.job.delivery}
                                           ELSE repeatable
    /\ worker' = [worker EXCEPT ![i][q] = Idle]
    /\ UNCHANGED <<event, batch, processed, applied, faults>>

\* The lock of a job expires while its worker goes on: BullMQ hands it out again.
Stall(i, q) ==
    LET w == worker[i][q] IN
    /\ Working(i, q)
    /\ w.owner
    /\ Fault
    /\ job' = [job EXCEPT ![w.job] = "waiting"]
    /\ worker' = [worker EXCEPT ![i][q].owner = FALSE]
    /\ repeatable' = IF w.step \in {"checked", "applied"}
                        THEN repeatable \cup {w.job.delivery} ELSE repeatable
    /\ UNCHANGED <<event, batch, attempts, processed, applied>>

\* An instance dies: its transaction is rolled back, its jobs stall.
Crash(i) ==
    LET own == {worker[i][q].job : q \in {p \in Queues : Working(i, p)
                                                           /\ worker[i][p].owner}}
        cut == {q \in Queues : worker[i][q].step = "applied"} IN
    /\ Fault
    /\ batch' = [batch EXCEPT ![i] = NoRows]
    /\ worker' = [worker EXCEPT ![i] = [q \in Queues |-> Idle]]
    /\ job' = [j \in Jobs |-> IF j \in own THEN "waiting" ELSE job[j]]
    /\ repeatable' = repeatable \cup {worker[i][q].job.delivery : q \in cut}
    /\ UNCHANGED <<event, attempts, processed, applied>>

\* A thousand later jobs of the queue have ended.
Prune(j) ==
    /\ job[j] \in {"completed", "failed"}
    /\ Fault
    /\ job' = [job EXCEPT ![j] =
                 IF job[j] = "completed" THEN "forgotten" ELSE "discarded"]
    /\ UNCHANGED <<event, batch, attempts, worker, processed, applied, repeatable>>

-----------------------------------------------------------------------------

Poll(i) ==
    \/ LockBatch(i) \/ CommitBatch(i) \/ AbortBatch(i)
    \/ \E e \in Events : Publish(i, e) \/ FailToPublish(i, e)

Work(i, q) ==
    \/ \E j \in Jobs : j.delivery[1] = q /\ Take(i, j)
    \/ Apply(i, q) \/ MarkProcessed(i, q)

Report(i, q) == Complete(i, q) \/ FailAttempt(i, q)

OutboxNext ==
    \/ \E e \in Events : Record(e)
    \/ \E i \in Instances : Poll(i) \/ Crash(i)
    \/ \E i \in Instances, q \in Queues : Work(i, q) \/ Report(i, q) \/ Stall(i, q)
    \/ \E j \in Jobs : Prune(j)

OutboxSpec == OutboxInit /\ [][OutboxNext]_outboxVars

\* Polls repeat and a poll under way goes on; an idle worker takes a waiting job and
\* ends it, whether its handler returns or throws.
Relay(i) == \/ LockBatch(i) \/ CommitBatch(i)
            \/ \E e \in Events : Publish(i, e)

OutboxFairSpec ==
    /\ OutboxSpec
    /\ \A i \in Instances :
         /\ WF_outboxVars(Relay(i))
         /\ \A q \in Queues : WF_outboxVars(Work(i, q) \/ Report(i, q))

-----------------------------------------------------------------------------
(* Properties.                                                             *)

\* A row that some instance published stays published, whatever the other instances
\* find out when they poll (the row locks and SKIP LOCKED of publishBatch).
PublishedIsFinal ==
    [][\A e \in Events : event[e] = "PUBLISHED" => event'[e] = "PUBLISHED"]_outboxVars

\* A row is PUBLISHED only if every queue of its route accepted its job, in spite of adds
\* that fail one by one (Promise.all in publishBatch).
PublishedIsQueued ==
    \A e \in Events : event[e] = "PUBLISHED" =>
        \A q \in Route[e] : job[JobOf(q, e)] # "none"

\* A job that ended well has had its effect, and its event is remembered, even if an
\* earlier attempt died in the middle (process() of the consumers).
CompletedIsApplied ==
    \A j \in Jobs : job[j] \in {"completed", "forgotten"} =>
        j.delivery \in processed /\ applied[j.delivery] > 0

\* An effect is repeated only if an attempt was interrupted between the check and the
\* insert of the id, or two jobs of the event were live at once: a second poll, a job
\* that is added or replayed again, or one that stalls afterwards never repeats it.
RepeatedForCause ==
    \A d \in Deliveries : applied[d] = 2 => d \in repeatable

\* A committed event reaches each of its consumers: it is processed, or its job has used
\* up its attempts, if no more calls fail after some time (poll, process).
EventsSettle ==
    \A e \in Events : \A q \in Route[e] :
        event[e] = "PENDING" ~>
            \/ <<q, e>> \in processed
            \/ job[JobOf(q, e)] \in {"failed", "discarded"}

-----------------------------------------------------------------------------
(* What the properties rest on: the inductive invariant.                   *)

\* A row belongs to one transaction, which found it PENDING.
BatchSound ==
    \A i \in Instances, e \in Events : batch[i][e] # "free" =>
        /\ event[e] = "PENDING"
        /\ \A k \in Instances : batch[k][e] # "free" => k = i
        /\ batch[i][e] = "PUBLISHED" =>
               \A q \in Route[e] : job[JobOf(q, e)] # "none"

\* What is processed took effect, and a worker that marked its event knows it processed.
EffectsSound ==
    /\ \A d \in processed : applied[d] > 0
    /\ \A i \in Instances, q \in Queues :
         /\ worker[i][q].step = "applied" => applied[worker[i][q].job.delivery] > 0
         /\ worker[i][q].step = "finished" => worker[i][q].job.delivery \in processed

\* An active job has at most one owner.
OwnersSound ==
    \A i \in Instances, q \in Queues : Working(i, q) /\ worker[i][q].owner =>
        /\ job[worker[i][q].job] = "active"
        /\ \A k \in Instances, p \in Queues :
               /\ Working(k, p)
               /\ worker[k][p].owner
               /\ worker[k][p].job = worker[i][q].job
               => k = i /\ p = q

\* A job that will be attempted has an attempt left.
AttemptsLeft == \A j \in Jobs : job[j] \in Live => attempts[j] < MaxAttempts

OneLive ==
    \A j, k \in Jobs :
        /\ job[j] \in Live /\ job[k] \in Live
        /\ j.delivery = k.delivery
        /\ j.delivery \notin repeatable
        => j = k

\* Without a cause to repeat, an unmarked attempt owns its job, starts before any effect,
\* and an effect that is not marked yet is that of an attempt.
OnceSound ==
    /\ \A i \in Instances, q \in Queues :
         /\ worker[i][q].step \in {"checked", "applied"}
         /\ worker[i][q].job.delivery \notin repeatable
         => /\ worker[i][q].owner
            /\ worker[i][q].step = "checked" => applied[worker[i][q].job.delivery] = 0
    /\ \A d \in Deliveries : d \notin repeatable \cup processed /\ applied[d] > 0 =>
         \E i \in Instances, q \in Queues :
             worker[i][q].step = "applied" /\ worker[i][q].job.delivery = d

OutboxInv ==
    /\ TypeOK /\ BatchSound /\ PublishedIsQueued
    /\ CompletedIsApplied /\ EffectsSound
    /\ OwnersSound /\ AttemptsLeft /\ OneLive /\ OnceSound /\ RepeatedForCause
=============================================================================
