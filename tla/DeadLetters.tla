---------------------------- MODULE DeadLetters -----------------------------
(***************************************************************************)
(* DeadLetterListenerService and DeadLetterService on top of Outbox: every *)
(* backend instance hears the end of every job through its QueueEvents,    *)
(* keeps a row of dead_letter_events for each job that used up its         *)
(* attempts, and follows the replays that an operator starts.              *)
(*                                                                         *)
(* A row is found by a query and written by a later statement, so that the *)
(* handlers of several instances and the operator interleave between them. *)
(***************************************************************************)
EXTENDS Outbox

\* The processes that listen: backend instances, and each run of dlq:list or dlq:replay,
\* whose DlqModule starts a listener too.
CONSTANT Listeners

VARIABLES
    deadLetter, \* DeadLetterEvent.status by the job that failed, "none" for no row
    notices,    \* the events a listener has received and not dealt with
    missed,     \* the events a listener lost: it was down, or its handler threw
    replaying   \* rows between the two statements of replay()

dlVars == <<deadLetter, notices, missed, replaying>>
vars == <<outboxVars, dlVars>>

RowStatus == {"none", "PENDING", "REPLAYING", "REPLAYED", "REPLAY_FAILED"}
Unread == [replay |-> "unread"]
NoRow == [replay |-> "no row"]

\* found is what the handler read: a REPLAYING row or that there is none.
Notice == [at : Listeners, job : Jobs, outcome : {"completed", "failed"},
           found : Jobs \cup {Unread, NoRow}]

DLTypeOK ==
    /\ TypeOK
    /\ deadLetter \in [Jobs -> RowStatus]
    /\ notices \subseteq Notice
    /\ missed \subseteq Listeners \X Jobs
    /\ replaying \subseteq Jobs

Init ==
    /\ OutboxInit
    /\ deadLetter = [j \in Jobs |-> "none"]
    /\ notices = {}
    /\ missed = {}
    /\ replaying = {}

-----------------------------------------------------------------------------
(* The listeners.                                                          *)

\* The end of a job is broadcast to the listeners.
Ended == {j \in Jobs : job[j] = "active" /\ job'[j] \in {"completed", "failed"}}
Broadcast ==
    /\ notices' = notices \cup
         {[at |-> i, job |-> j, outcome |-> job'[j], found |-> Unread] :
              i \in Listeners, j \in Ended}
    /\ UNCHANGED <<deadLetter, missed, replaying>>

\* finishedOn is set and no attempt is left.
Exhausted(j) == job[j] = "failed" /\ attempts[j] >= MaxAttempts

\* handleFailed and handleCompleted do nothing if the job is gone or has not used up
\* its attempts, and handleCompleted nothing without a REPLAYING row: such a notice stays
\* in the set, as one that is read late.
Concerns(n) == IF n.outcome = "failed" THEN Exhausted(n.job)
                                       ELSE job[n.job] \notin Absent

\* Mutant: the rows are looked up by the event alone.
X_ReplayingRows(j) == {r \in Jobs : r.delivery[2] = j.delivery[2]
                                      /\ deadLetter[r] = "REPLAYING"}

ReplayingRows(j) == {r \in Jobs : r.delivery = j.delivery
                                    /\ deadLetter[r] = "REPLAYING"}

\* record(): a row that exists already is left alone.
RecordRow(j) ==
    deadLetter' = IF deadLetter[j] = "none"
                    THEN [deadLetter EXCEPT ![j] = "PENDING"] ELSE deadLetter

\* findReplayingByOutboxEventId: any of the rows that match.
FindReplaying(n) ==
    /\ n.found = Unread
    /\ Concerns(n)
    /\ \E r \in IF ReplayingRows(n.job) # {} THEN ReplayingRows(n.job) ELSE {NoRow} :
         /\ n.outcome = "completed" => r # NoRow
         /\ notices' = (notices \ {n}) \cup {[n EXCEPT !.found = r]}
    /\ UNCHANGED <<deadLetter, missed, replaying>>

HandleFailed(n) ==
    /\ n.outcome = "failed"
    /\ n.found # Unread
    /\ IF n.found = NoRow
         THEN RecordRow(n.job)
         ELSE deadLetter' = [deadLetter EXCEPT ![n.found] = "REPLAY_FAILED"]
    /\ notices' = notices \ {n}
    /\ UNCHANGED <<missed, replaying>>

HandleCompleted(n) ==
    /\ n.outcome = "completed"
    /\ n.found # Unread
    /\ deadLetter' = [deadLetter EXCEPT ![n.found] = "REPLAYED"]
    /\ notices' = notices \ {n}
    /\ UNCHANGED <<missed, replaying>>

\* Errors of a handler are logged, and a listener that starts hears only what follows.
Miss(n) ==
    /\ Fault
    /\ notices' = notices \ {n}
    /\ missed' = missed \cup {<<n.at, n.job>>}
    /\ UNCHANGED <<event, batch, job, attempts, worker, processed, applied,
                   repeatable, deadLetter, replaying>>

MissAll(i) ==
    LET lost == {n \in notices : n.at = i} IN
    /\ notices' = notices \ lost
    /\ missed' = missed \cup {<<i, n.job>> : n \in lost}
    /\ UNCHANGED <<deadLetter, replaying>>

-----------------------------------------------------------------------------
(* The operator's dlq:replay.                                              *)

\* Each replay has a job id of its own: the replays to a queue are numbered.
Fresh(d) == {j \in Jobs : /\ j.delivery = d
                          /\ j.replay > 0
                          /\ job[j] = "none"
                          /\ \A k \in Jobs : k.delivery = d /\ job[k] = "none"
                               => k.replay = 0 \/ k.replay >= j.replay}

\* The row's status is not looked at.  (Bound: a job is left for the replay.)
StartReplay(r) ==
    /\ deadLetter[r] # "none"
    /\ r \notin replaying
    /\ Fresh(r.delivery) # {}
    /\ deadLetter' = [deadLetter EXCEPT ![r] = "REPLAYING"]
    /\ replaying' = replaying \cup {r}
    /\ UNCHANGED <<outboxVars, notices, missed>>

\* Mutant: the row is taken for replayed once its job is queued.
X_EnqueueReplay(r) ==
    /\ r \in replaying
    /\ \E j \in Fresh(r.delivery) : AddJobs({j})
    /\ deadLetter' = [deadLetter EXCEPT ![r] = "REPLAYED"]
    /\ replaying' = replaying \ {r}
    /\ UNCHANGED <<event, batch, worker, processed, applied, faults>>
    /\ UNCHANGED <<notices, missed>>

\* The payload of the row is queued once more.
EnqueueReplay(r) ==
    /\ r \in replaying
    /\ \E j \in Fresh(r.delivery) : AddJobs({j})
    /\ replaying' = replaying \ {r}
    /\ UNCHANGED <<event, batch, worker, processed, applied, faults>>
    /\ UNCHANGED <<deadLetter, notices, missed>>

\* The add fails or the process ends before it: the row stays REPLAYING.
AbandonReplay(r) ==
    /\ r \in replaying
    /\ Fault
    /\ replaying' = replaying \ {r}
    /\ UNCHANGED <<event, batch, job, attempts, worker, processed, applied,
                   repeatable, deadLetter, notices, missed>>

-----------------------------------------------------------------------------

Listen(n) == FindReplaying(n) \/ HandleFailed(n) \/ HandleCompleted(n)

Next ==
    \/ \E e \in Events : Record(e) /\ UNCHANGED dlVars
    \/ \E i \in Instances : Poll(i) /\ UNCHANGED dlVars
    \/ \E i \in Instances, q \in Queues :
         \/ Work(i, q) /\ UNCHANGED dlVars
         \/ Report(i, q) /\ Broadcast
         \/ Stall(i, q) /\ UNCHANGED dlVars
    \/ \E i \in Instances : Crash(i) /\ MissAll(i)
    \/ \E j \in Jobs : Prune(j) /\ UNCHANGED dlVars
    \/ \E n \in notices : Listen(n) /\ UNCHANGED outboxVars
    \/ \E n \in notices : Miss(n)
    \/ \E r \in Jobs : StartReplay(r) \/ EnqueueReplay(r) \/ AbandonReplay(r)

Spec == Init /\ [][Next]_vars

-----------------------------------------------------------------------------
(* Properties.                                                             *)

\* A job that used up its attempts has a row once some listener has dealt with the
\* event: a replay of the same event in another queue is not taken for it.
FailureIsRecorded ==
    \A j \in Jobs, i \in Listeners :
        /\ j.replay = 0
        /\ Exhausted(j)
        /\ <<i, j>> \notin missed
        /\ ~ \E n \in notices : n.at = i /\ n.job = j /\ n.outcome = "failed"
        => deadLetter[j] # "none"

\* A row reads REPLAYED only if the event has been processed in its queue, whichever of
\* several replays ended first and whoever handled it (handleCompleted).
ReplayedIsProcessed ==
    \A r \in Jobs : deadLetter[r] = "REPLAYED" => r.delivery \in processed

-----------------------------------------------------------------------------
(* What the properties rest on: the inductive invariant.                   *)

\* A notice is of a job, a completed one tells of a processed event, and what a handler found is a row of
\* the event it was told of.
NoticesSound ==
    \A n \in notices :
        /\ job[n.job] # "none"
        /\ n.outcome = "completed" => n.job.delivery \in processed
        /\ n.found \in Jobs => /\ n.found.delivery = n.job.delivery
                               /\ deadLetter[n.found] # "none"

\* There is a row for the first job of a delivery before there are replays of it.
FirstRowFirst ==
    \A r \in Jobs :
        \/ deadLetter[r] # "none"
        \/ r \in replaying
        \/ r.replay > 0 /\ job[r] # "none"
        => \E j \in Jobs : /\ j.delivery = r.delivery
                           /\ j.replay = 0
                           /\ deadLetter[j] # "none"

DLInv ==
    /\ OutboxInv /\ DLTypeOK
    /\ NoticesSound /\ FirstRowFirst /\ FailureIsRecorded /\ ReplayedIsProcessed
=============================================================================
