---------------------------- MODULE OutboxProofs ----------------------------
(***************************************************************************)
(* Proofs about Outbox: its inductive invariant, and with it that          *)
(* published rows have their jobs, that completed jobs had their effect,   *)
(* and that an effect is repeated only for a cause. Then about DeadLetters: *)
(* its inductive invariant, which contains that of Outbox, and with it     *)
(* that a failure is recorded, that a row reads REPLAYED only for a        *)
(* processed event, and that replays do not repeat an effect without a     *)
(* cause.                                                                  *)
(***************************************************************************)
EXTENDS DeadLetters, TLAPS

LEMMA JobsFacts ==
    /\ \A j \in Jobs : j.delivery \in Deliveries /\ j.replay \in Nat
    /\ \A j, k \in Jobs : j.delivery = k.delivery /\ j.replay = k.replay => j = k
    /\ \A e \in Events : \A q \in Route[e] :
         /\ JobOf(q, e) \in Jobs
         /\ JobOf(q, e).delivery = <<q, e>>
         /\ JobOf(q, e).replay = 0
         /\ <<q, e>> \in Deliveries
<1>1. ASSUME NEW j \in Jobs
      PROVE  \E d \in Deliveries : j \in [delivery : {d}, replay : 0..MaxReplays[d[1]]]
  BY DEF Jobs
<1>2. \A d \in Deliveries : d[1] \in Queues /\ MaxReplays[d[1]] \in Nat
  BY OutboxShape DEF Deliveries
<1>3. \A j \in Jobs : j.delivery \in Deliveries /\ j.replay \in Nat
  BY <1>1, <1>2
<1>4. \A j \in Jobs : j = [delivery |-> j.delivery, replay |-> j.replay]
  BY <1>1
<1>5. \A j, k \in Jobs : j.delivery = k.delivery /\ j.replay = k.replay => j = k
  BY <1>4
<1>6. ASSUME NEW e \in Events, NEW q \in Route[e]
      PROVE  /\ JobOf(q, e) \in Jobs
             /\ JobOf(q, e).delivery = <<q, e>>
             /\ JobOf(q, e).replay = 0
             /\ <<q, e>> \in Deliveries
  <2>1. <<q, e>> \in Deliveries
    BY OutboxShape DEF Deliveries
  <2>2. 0 \in 0..MaxReplays[<<q, e>>[1]]
    BY <2>1, <1>2
  <2>3. JobOf(q, e) \in [delivery : {<<q, e>>}, replay : 0..MaxReplays[<<q, e>>[1]]]
    BY <2>2 DEF JobOf
  <2> QED
    BY <2>1, <2>3 DEF Jobs, JobOf
<1> QED
  BY <1>3, <1>5, <1>6

-----------------------------------------------------------------------------
(* Types.                                                                  *)

\* A worker that is not idle has an attempt, of a job.
LEMMA AtWork ==
    ASSUME TypeOK, NEW i \in Instances, NEW q \in Queues, worker[i][q].step # "idle"
    PROVE  /\ worker[i][q] \in Attempt
           /\ worker[i][q].job \in Jobs
           /\ worker[i][q].job.delivery \in Deliveries
           /\ worker[i][q].owner \in BOOLEAN
           /\ Working(i, q)
<1>1. worker[i][q] \in Attempt \cup {Idle}
  BY DEF TypeOK
<1>2. Working(i, q)
  BY DEF Working, Idle
<1>3. worker[i][q] \in Attempt
  BY <1>1, <1>2 DEF Working
<1> QED
  BY <1>2, <1>3, JobsFacts DEF Attempt

LEMMA WorkingIsAtWork ==
    ASSUME TypeOK, NEW i \in Instances, NEW q \in Queues, Working(i, q)
    PROVE  worker[i][q].step # "idle"
<1>1. worker[i][q] \in Attempt
  BY DEF TypeOK, Working
<1> QED
  BY <1>1 DEF Attempt

\* What SetStep does to the workers.
LEMMA SetStepFacts ==
    ASSUME TypeOK, NEW i \in Instances, NEW q \in Queues, worker[i][q].step # "idle",
           NEW step \in {"checked", "applied", "finished"}, SetStep(i, q, step)
    PROVE  /\ worker' \in [Instances -> [Queues -> Attempt \cup {Idle}]]
           /\ worker'[i][q].step = step
           /\ worker'[i][q].job = worker[i][q].job
           /\ worker'[i][q].owner = worker[i][q].owner
           /\ worker'[i][q] # Idle
           /\ \A k \in Instances, p \in Queues : k # i \/ p # q =>
                  worker'[k][p] = worker[k][p]
<1>1. worker[i][q] \in Attempt
  BY AtWork
<1>2. PICK w \in Attempt : w = worker[i][q]
  BY <1>1
<1>3. [w EXCEPT !.step = step] \in Attempt
  BY DEF Attempt
<1>4. worker' = [worker EXCEPT ![i] = [worker[i] EXCEPT ![q] = [w EXCEPT !.step = step]]]
  BY <1>2 DEF SetStep
<1>5. worker'[i][q] = [w EXCEPT !.step = step]
  BY <1>4 DEF TypeOK
<1>6. \A k \in Instances, p \in Queues : k # i \/ p # q => worker'[k][p] = worker[k][p]
  BY <1>4 DEF TypeOK
<1>7. worker' \in [Instances -> [Queues -> Attempt \cup {Idle}]]
  BY <1>3, <1>4 DEF TypeOK
<1>8. /\ [w EXCEPT !.step = step].step = step
      /\ [w EXCEPT !.step = step].job = w.job
      /\ [w EXCEPT !.step = step].owner = w.owner
  BY DEF Attempt
<1> QED
  BY <1>2, <1>5, <1>6, <1>7, <1>8 DEF Idle

\* What Stall does to them.
LEMMA LoseOwnershipFacts ==
    ASSUME TypeOK, NEW i \in Instances, NEW q \in Queues, worker[i][q].step # "idle",
           worker' = [worker EXCEPT ![i][q].owner = FALSE]
    PROVE  /\ worker' \in [Instances -> [Queues -> Attempt \cup {Idle}]]
           /\ worker'[i][q].step = worker[i][q].step
           /\ worker'[i][q].job = worker[i][q].job
           /\ worker'[i][q].owner = FALSE
           /\ \A k \in Instances, p \in Queues : k # i \/ p # q =>
                  worker'[k][p] = worker[k][p]
<1>1. worker[i][q] \in Attempt
  BY AtWork
<1>2. PICK w \in Attempt : w = worker[i][q]
  BY <1>1
<1>3. [w EXCEPT !.owner = FALSE] \in Attempt
  BY DEF Attempt
<1>4. PICK u \in Attempt : u = [w EXCEPT !.owner = FALSE]
  BY <1>3
<1>5. worker' = [worker EXCEPT ![i] = [worker[i] EXCEPT ![q] = u]]
  BY <1>2, <1>4
<1>6. /\ worker' \in [Instances -> [Queues -> Attempt \cup {Idle}]]
      /\ worker'[i][q] = u
      /\ \A k \in Instances, p \in Queues : k # i \/ p # q => worker'[k][p] = worker[k][p]
  <2>1. [worker[i] EXCEPT ![q] = u] \in [Queues -> Attempt \cup {Idle}]
    BY DEF TypeOK
  <2>2. worker'[i] = [worker[i] EXCEPT ![q] = u]
    BY <1>5 DEF TypeOK
  <2>3. \A k \in Instances : k # i => worker'[k] = worker[k]
    BY <1>5 DEF TypeOK
  <2>4. worker' \in [Instances -> [Queues -> Attempt \cup {Idle}]]
    BY <1>5, <2>1 DEF TypeOK
  <2> QED
    BY <2>2, <2>3, <2>4 DEF TypeOK
<1>7. u.step = w.step /\ u.job = w.job /\ u.owner = FALSE
  BY <1>4 DEF Attempt
<1> QED
  BY <1>2, <1>6, <1>7

\* What becomes of them when an attempt of one ends.
LEMMA GoIdleFacts ==
    ASSUME TypeOK, NEW i \in Instances, NEW q \in Queues,
           worker' = [worker EXCEPT ![i][q] = Idle]
    PROVE  /\ worker' \in [Instances -> [Queues -> Attempt \cup {Idle}]]
           /\ worker'[i][q] = Idle
           /\ \A k \in Instances, p \in Queues : k # i \/ p # q =>
                  worker'[k][p] = worker[k][p]
  BY DEF TypeOK

\* What an add does: only absent jobs change, and they wait.
LEMMA AddFacts ==
    ASSUME TypeOK, NEW added \in SUBSET Jobs, AddJobs(added)
    PROVE  /\ job' \in [Jobs -> JobState]
           /\ attempts' \in [Jobs -> 0..MaxAttempts]
           /\ repeatable' \subseteq Deliveries
           /\ repeatable \subseteq repeatable'
           /\ \A j \in Jobs : job[j] # "none" \/ j \in added => job'[j] # "none"
           /\ \A j \in Jobs : job'[j] = job[j] \/ (job'[j] = "waiting" /\ job[j] \in Absent)
           /\ \A j \in Jobs : job'[j] # job[j] => j \in added
           /\ \A j \in Jobs : attempts'[j] = IF job'[j] = job[j] THEN attempts[j] ELSE 0
           /\ \A j \in Jobs : job'[j] # job[j] =>
                 \/ j.delivery \in repeatable'
                 \/ \A other \in Jobs : /\ other.delivery = j.delivery
                                          /\ other # j
                                          => job[other] \notin Live
<1>. DEFINE new == {j \in added : job[j] \in Absent}
<1>1. /\ job' = [j \in Jobs |-> IF j \in new THEN "waiting" ELSE job[j]]
      /\ attempts' = [j \in Jobs |-> IF j \in new THEN 0 ELSE attempts[j]]
      /\ repeatable' = repeatable \cup
           {j.delivery : j \in {k \in new :
               \E other \in Jobs : /\ other.delivery = k.delivery
                                   /\ other # k
                                   /\ job[other] \in Live}}
  BY Zenon DEF AddJobs
<1>2. job' \in [Jobs -> JobState]
  BY <1>1 DEF TypeOK, JobState, Live
<1>3. attempts' \in [Jobs -> 0..MaxAttempts]
  BY <1>1, OutboxShape DEF TypeOK
<1>4. repeatable' \subseteq Deliveries /\ repeatable \subseteq repeatable'
  <2>1. \A j \in new : j.delivery \in Deliveries
    BY JobsFacts
  <2> QED
    BY <1>1, <2>1 DEF TypeOK
<1>5. ASSUME NEW j \in Jobs
      PROVE  job'[j] = job[j] \/ (job'[j] = "waiting" /\ job[j] \in Absent)
  <2>1. job'[j] = IF j \in new THEN "waiting" ELSE job[j]
    BY <1>1
  <2>2. j \in new => job[j] \in Absent
    OBVIOUS
  <2> QED
    BY <2>1, <2>2
<1>6. \A j \in Jobs : job[j] # "none" \/ j \in added => job'[j] # "none"
  BY <1>1 DEF Absent
<1>7. ASSUME NEW j \in Jobs, job'[j] # job[j], j.delivery \notin repeatable',
             NEW other \in Jobs, other.delivery = j.delivery, other # j,
             job[other] \in Live
      PROVE  FALSE
  <2>1. j \in new
    BY <1>1, <1>7
  <2> QED
    BY <1>1, <1>7, <2>1
<1>8. \A j \in Jobs : job'[j] # job[j] => j \in added
  BY <1>1
<1>9. ASSUME NEW j \in Jobs
      PROVE  attempts'[j] = IF job'[j] = job[j] THEN attempts[j] ELSE 0
  <2>1. "waiting" \notin Absent
    BY DEF Absent
  <2>2. (j \in new) <=> (job'[j] # job[j])
    BY <1>1, <2>1
  <2> QED
    BY <1>1, <2>2
<1> QED
  BY <1>2, <1>3, <1>4, <1>5, <1>6, <1>7, <1>8, <1>9

-----------------------------------------------------------------------------
(* The parts of the invariant that a kind of action cannot disturb.        *)

EffectsInv == /\ CompletedIsApplied /\ EffectsSound /\ OwnersSound /\ AttemptsLeft
              /\ OneLive /\ OnceSound /\ RepeatedForCause

LEMMA EffectsFrame ==
    ASSUME OutboxInv, UNCHANGED <<job, attempts, worker, processed, applied, repeatable>>
    PROVE  EffectsInv'
  BY DEF OutboxInv, EffectsInv, CompletedIsApplied, EffectsSound, OwnersSound, AttemptsLeft,
         OneLive, OnceSound, RepeatedForCause, Working

\* Rows are not disturbed as long as jobs do not vanish.
LEMMA RowsFrame ==
    ASSUME OutboxInv, UNCHANGED <<event, batch>>,
           \A j \in Jobs : job[j] # "none" => job'[j] # "none"
    PROVE  BatchSound' /\ PublishedIsQueued'
  BY JobsFacts DEF OutboxInv, BatchSound, PublishedIsQueued

\* Neither are the effects disturbed by adding a job for each of some deliveries.
LEMMA AddInv ==
    ASSUME OutboxInv, NEW added \in SUBSET Jobs, AddJobs(added),
           \A a, b \in added : a.delivery = b.delivery => a = b,
           UNCHANGED <<worker, processed, applied>>
    PROVE  EffectsInv'
<1>. TypeOK
  BY DEF OutboxInv
<1>. USE AddFacts
<1>1. CompletedIsApplied'
  BY DEF OutboxInv, CompletedIsApplied
<1>2. EffectsSound'
  BY DEF OutboxInv, EffectsSound
<1>3. OwnersSound'
  <2>1. ASSUME NEW i \in Instances, NEW q \in Queues, Working(i, q), worker[i][q].owner
        PROVE  job'[worker[i][q].job] = "active"
    BY <2>1, AtWork, WorkingIsAtWork DEF OutboxInv, OwnersSound, Absent
  <2> QED
    BY <2>1 DEF OutboxInv, OwnersSound, Working
<1>4. OneLive'
  <2> SUFFICES ASSUME NEW j \in Jobs, NEW k \in Jobs,
                      job'[j] \in Live, job'[k] \in Live,
                      j.delivery = k.delivery, j.delivery \notin repeatable'
               PROVE  j = k
    BY DEF OneLive
  <2>1. CASE job'[j] = job[j] /\ job'[k] = job[k]
    BY <2>1 DEF OutboxInv, OneLive
  <2>2. CASE job'[j] # job[j] /\ job'[k] # job[k]
    BY <2>2
  <2>3. CASE job'[j] # job[j] /\ job'[k] = job[k]
    BY <2>3
  <2>4. CASE job'[j] = job[j] /\ job'[k] # job[k]
    BY <2>4
  <2> QED
    BY <2>1, <2>2, <2>3, <2>4
<1>5. OnceSound'
  BY DEF OutboxInv, OnceSound
<1>6. RepeatedForCause'
  BY DEF OutboxInv, RepeatedForCause
<1>7. AttemptsLeft'
  BY OutboxShape DEF OutboxInv, AttemptsLeft
<1> QED
  BY <1>1, <1>2, <1>3, <1>4, <1>5, <1>6, <1>7 DEF EffectsInv

-----------------------------------------------------------------------------
(* The publisher preserves the invariant.                                  *)

LEMMA RecordInv ==
    ASSUME OutboxInv, NEW e \in Events, Record(e)
    PROVE  OutboxInv'
<1>1. TypeOK'
  BY DEF OutboxInv, TypeOK, Record, OutboxStatus
<1>2. BatchSound' /\ PublishedIsQueued'
  BY DEF OutboxInv, TypeOK, Record, BatchSound, PublishedIsQueued
<1>3. EffectsInv'
  BY EffectsFrame DEF Record
<1> QED
  BY <1>1, <1>2, <1>3 DEF OutboxInv, EffectsInv

LEMMA LockBatchInv ==
    ASSUME OutboxInv, NEW i \in Instances, LockBatch(i)
    PROVE  OutboxInv'
<1>1. PICK rows \in SUBSET Selectable :
          batch' = [batch EXCEPT ![i] =
                      [e \in Events |-> IF e \in rows THEN "locked" ELSE "free"]]
  BY DEF LockBatch
<1>2. TypeOK'
  BY <1>1 DEF OutboxInv, TypeOK, LockBatch, OutboxStatus
<1>3. \A k \in Instances, e \in Events :
          \/ batch'[k][e] = batch[k][e] /\ k # i
          \/ k = i /\ batch'[k][e] = "free"
          \/ k = i /\ batch'[k][e] = "locked" /\ e \in Selectable
  BY <1>1 DEF OutboxInv, TypeOK
<1>4. BatchSound' /\ PublishedIsQueued'
  BY <1>3 DEF OutboxInv, LockBatch, BatchSound, PublishedIsQueued, Selectable
<1>5. EffectsInv'
  BY EffectsFrame DEF LockBatch
<1> QED
  BY <1>2, <1>4, <1>5 DEF OutboxInv, EffectsInv

LEMMA CommitBatchInv ==
    ASSUME OutboxInv, NEW i \in Instances, CommitBatch(i)
    PROVE  /\ OutboxInv'
           /\ \A e \in Events : event[e] = "PUBLISHED" => event'[e] = "PUBLISHED"
<1>1. /\ event' = [e \in Events |-> IF batch[i][e] = "free" THEN event[e]
                                                            ELSE batch[i][e]]
      /\ batch' = [batch EXCEPT ![i] = NoRows]
      /\ \A e \in Events : batch[i][e] # "locked"
      /\ UNCHANGED <<job, attempts, worker, processed, applied, repeatable, faults>>
  BY DEF CommitBatch
<1>2. TypeOK'
  BY <1>1 DEF OutboxInv, TypeOK, NoRows, OutboxStatus
<1>3. \A e \in Events : batch[i][e] # "free" =>
          event[e] = "PENDING" /\ \A k \in Instances : k # i => batch[k][e] = "free"
  BY DEF OutboxInv, BatchSound
<1>4. \A e \in Events : event[e] = "PUBLISHED" => event'[e] = "PUBLISHED"
  BY <1>1, <1>3
<1>5. \A k \in Instances, e \in Events :
          IF k = i THEN batch'[k][e] = "free" ELSE batch'[k][e] = batch[k][e]
  BY <1>1 DEF OutboxInv, TypeOK, NoRows
<1>6. BatchSound'
  BY <1>1, <1>3, <1>5 DEF OutboxInv, BatchSound
<1>7. PublishedIsQueued'
  BY <1>1 DEF OutboxInv, BatchSound, PublishedIsQueued
<1>8. EffectsInv'
  BY <1>1, EffectsFrame
<1> QED
  BY <1>2, <1>4, <1>6, <1>7, <1>8 DEF OutboxInv, EffectsInv

LEMMA AbortBatchInv ==
    ASSUME OutboxInv, NEW i \in Instances, AbortBatch(i)
    PROVE  OutboxInv'
<1>1. TypeOK'
  BY OutboxShape DEF OutboxInv, TypeOK, AbortBatch, Fault, NoRows
<1>2. \A k \in Instances, e \in Events :
          IF k = i THEN batch'[k][e] = "free" ELSE batch'[k][e] = batch[k][e]
  BY DEF OutboxInv, TypeOK, AbortBatch, NoRows
<1>3. BatchSound' /\ PublishedIsQueued'
  BY <1>2 DEF OutboxInv, AbortBatch, BatchSound, PublishedIsQueued
<1>4. EffectsInv'
  BY EffectsFrame DEF AbortBatch
<1> QED
  BY <1>1, <1>3, <1>4 DEF OutboxInv, EffectsInv

\* One row of a batch is dealt with: all its jobs are queued if it is published.
LEMMA RowDone ==
    ASSUME OutboxInv, NEW i \in Instances, NEW e \in Events,
           batch[i][e] = "locked",
           NEW status \in {"PENDING", "PUBLISHED"},
           batch' = [batch EXCEPT ![i][e] = status],
           NEW added \in SUBSET JobsOf(e), AddJobs(added),
           status = "PUBLISHED" => added = JobsOf(e),
           UNCHANGED <<event, worker, processed, applied>>,
           faults' \in 0..MaxFaults
    PROVE  OutboxInv'
<1>. TypeOK
  BY DEF OutboxInv
<1>1. added \in SUBSET Jobs /\ \A a, b \in added : a.delivery = b.delivery => a = b
  <2>1. \A a \in added : \E q \in Route[e] : a = JobOf(q, e)
    BY DEF JobsOf
  <2>2. \A a \in added : a \in Jobs /\ a.replay = 0
    BY <2>1, JobsFacts
  <2>3. \A a, b \in added : a.delivery = b.delivery => a = b
    BY <2>2, JobsFacts
  <2> QED
    BY <2>2, <2>3
<1>2. EffectsInv'
  BY <1>1, AddInv
<1>3. \A k \in Instances, f \in Events :
          IF k = i /\ f = e THEN batch'[k][f] = status ELSE batch'[k][f] = batch[k][f]
  BY DEF TypeOK
<1>4. TypeOK'
  BY <1>1, AddFacts DEF TypeOK, OutboxStatus
<1>5. \A j \in Jobs : job[j] # "none" => job'[j] # "none"
  BY <1>1, AddFacts
<1>6. status = "PUBLISHED" => \A q \in Route[e] : job'[JobOf(q, e)] # "none"
  <2>1. \A q \in Route[e] : JobOf(q, e) \in Jobs /\ JobOf(q, e) \in JobsOf(e)
    BY JobsFacts DEF JobsOf
  <2>2. \A j \in added : job'[j] # "none"
    BY <1>1, AddFacts
  <2> QED
    BY <2>1, <2>2
<1>7. BatchSound'
  <2> SUFFICES ASSUME NEW k \in Instances, NEW f \in Events, batch'[k][f] # "free"
               PROVE  /\ event[f] = "PENDING"
                      /\ \A m \in Instances : batch'[m][f] # "free" => m = k
                      /\ batch'[k][f] = "PUBLISHED" =>
                             \A q \in Route[f] : job'[JobOf(q, f)] # "none"
    BY DEF BatchSound
  <2>1. \A m \in Instances : batch'[m][f] # "free" => batch[m][f] # "free"
    BY <1>3
  <2>2. event[f] = "PENDING" /\ \A m \in Instances : batch'[m][f] # "free" => m = k
    BY <2>1 DEF OutboxInv, BatchSound
  <2>3. CASE k = i /\ f = e
    BY <1>3, <1>6, <2>2, <2>3
  <2>4. CASE k # i \/ f # e
    <3>1. batch[k][f] = "PUBLISHED" => \A q \in Route[f] : job[JobOf(q, f)] # "none"
      BY <2>1 DEF OutboxInv, BatchSound
    <3> QED
      BY <1>3, <1>5, <2>2, <2>4, <3>1, JobsFacts
  <2> QED
    BY <2>3, <2>4
<1>8. PublishedIsQueued'
  BY <1>5, JobsFacts DEF OutboxInv, PublishedIsQueued
<1> QED
  BY <1>2, <1>4, <1>7, <1>8 DEF OutboxInv, EffectsInv

LEMMA PublishInv ==
    ASSUME OutboxInv, NEW i \in Instances, NEW e \in Events,
           Publish(i, e) \/ FailToPublish(i, e)
    PROVE  OutboxInv'
<1>1. CASE Publish(i, e)
  <2>1. JobsOf(e) \in SUBSET JobsOf(e) /\ faults' \in 0..MaxFaults
    BY <1>1 DEF Publish, OutboxInv, TypeOK
  <2> QED
    BY <1>1, <2>1, RowDone DEF Publish
<1>2. CASE FailToPublish(i, e)
  <2>1. faults' \in 0..MaxFaults
    BY <1>2, OutboxShape DEF FailToPublish, Fault, OutboxInv, TypeOK
  <2>2. PICK added \in SUBSET JobsOf(e) : AddJobs(added)
    BY <1>2 DEF FailToPublish
  <2> QED
    BY <1>2, <2>1, <2>2, RowDone DEF FailToPublish
<1> QED
  BY <1>1, <1>2

-----------------------------------------------------------------------------
(* The consumers preserve the invariant.                                   *)

LEMMA TakeInv ==
    ASSUME OutboxInv, NEW i \in Instances, NEW j \in Jobs, Take(i, j)
    PROVE  OutboxInv'
<1>. DEFINE q == j.delivery[1]
<1>. PICK step \in IF j.delivery \in processed THEN {"finished", "failing"} ELSE {"checked"} :
         worker' = [worker EXCEPT ![i][q] = [step |-> step, job |-> j, owner |-> TRUE]]
  BY DEF Take
<1>. DEFINE attempt == [step |-> step, job |-> j, owner |-> TRUE]
<1>0. /\ step \in {"finished", "failing", "checked"}
      /\ step = "finished" => j.delivery \in processed
      /\ step = "checked" => j.delivery \notin processed
  OBVIOUS
<1>1. q \in Queues /\ j.delivery \in Deliveries
  BY JobsFacts DEF Deliveries
<1>2. /\ job[j] = "waiting"
      /\ worker[i][q] = Idle
      /\ job' = [job EXCEPT ![j] = "active"]
      /\ worker' = [worker EXCEPT ![i][q] = attempt]
      /\ UNCHANGED <<event, batch, attempts, processed, applied, repeatable, faults>>
  BY DEF Take, Working
<1>3. attempt \in Attempt /\ attempt # Idle
  BY <1>0 DEF Attempt, Idle
<1>4. /\ worker' \in [Instances -> [Queues -> Attempt \cup {Idle}]]
      /\ worker'[i][q] = attempt
      /\ \A k \in Instances, p \in Queues : k # i \/ p # q => worker'[k][p] = worker[k][p]
  BY <1>1, <1>2, <1>3 DEF OutboxInv, TypeOK
<1>5. /\ job' \in [Jobs -> JobState]
      /\ job'[j] = "active"
      /\ \A k \in Jobs : k # j => job'[k] = job[k]
  BY <1>2 DEF OutboxInv, TypeOK, JobState, Live
<1>6. TypeOK'
  BY <1>2, <1>4, <1>5 DEF OutboxInv, TypeOK
<1>7. BatchSound' /\ PublishedIsQueued'
  BY <1>2, <1>5, RowsFrame
<1>8. CompletedIsApplied'
  BY <1>2, <1>5 DEF OutboxInv, CompletedIsApplied
<1>9. EffectsSound'
  BY <1>0, <1>2, <1>4 DEF OutboxInv, EffectsSound
<1>10. \A k \in Instances, p \in Queues :
           Working(k, p) /\ worker[k][p].owner => worker[k][p].job # j
  BY <1>2 DEF OutboxInv, OwnersSound
<1>11. OwnersSound'
  <2>1. ASSUME NEW k \in Instances, NEW p \in Queues, k # i \/ p # q,
               Working(k, p)', worker'[k][p].owner
        PROVE  /\ Working(k, p)
               /\ worker[k][p].owner
               /\ worker'[k][p].job = worker[k][p].job
               /\ worker[k][p].job \in Jobs
               /\ worker[k][p].job # j
               /\ job'[worker[k][p].job] = "active"
    <3>1. Working(k, p) /\ worker'[k][p] = worker[k][p] /\ worker[k][p].owner
      BY <1>4, <2>1 DEF Working
    <3>2. worker[k][p].job \in Jobs /\ worker[k][p].job # j
      BY <3>1, <1>10, AtWork, WorkingIsAtWork DEF OutboxInv
    <3> QED
      BY <3>1, <3>2, <1>5 DEF OutboxInv, OwnersSound
  <2>2. worker'[i][q].job = j
    BY <1>4
  <2>3. ASSUME NEW k \in Instances, NEW p \in Queues,
               Working(k, p)', worker'[k][p].owner
        PROVE  job'[worker'[k][p].job] = "active"
    BY <1>5, <2>1, <2>2, <2>3
  <2>4. ASSUME NEW k \in Instances, NEW p \in Queues, NEW m \in Instances, NEW r \in Queues,
               Working(k, p)', worker'[k][p].owner, Working(m, r)', worker'[m][r].owner,
               worker'[m][r].job = worker'[k][p].job
        PROVE  m = k /\ r = p
    <3>1. CASE k = i /\ p = q
      BY <3>1, <2>1, <2>2, <2>4
    <3>2. CASE m = i /\ r = q
      BY <3>2, <2>1, <2>2, <2>4
    <3>3. CASE (k # i \/ p # q) /\ (m # i \/ r # q)
      BY <3>3, <2>1, <2>4 DEF OutboxInv, OwnersSound
    <3> QED
      BY <3>1, <3>2, <3>3
  <2> QED
    BY <2>3, <2>4 DEF OwnersSound
<1>12. OneLive'
  BY <1>2, <1>5 DEF OutboxInv, OneLive, Live
<1>13. ASSUME step = "checked", j.delivery \notin repeatable
       PROVE  applied[j.delivery] = 0
  <2>1. j.delivery \notin processed
    BY <1>0, <1>13
  <2>2. applied[j.delivery] \in 0..2
    BY <1>1 DEF OutboxInv, TypeOK
  <2>. SUFFICES ASSUME applied[j.delivery] > 0 PROVE FALSE
    BY <2>2
  <2>3. PICK k \in Instances, p \in Queues :
            worker[k][p].step = "applied" /\ worker[k][p].job.delivery = j.delivery
    BY <1>1, <1>13, <2>1 DEF OutboxInv, OnceSound
  <2>4. Working(k, p) /\ worker[k][p].job \in Jobs
    BY <2>3, AtWork DEF OutboxInv
  <2>5. worker[k][p].owner
    BY <1>13, <2>3 DEF OutboxInv, OnceSound
  <2>6. job[worker[k][p].job] = "active"
    BY <2>4, <2>5 DEF OutboxInv, OwnersSound
  <2>7. worker[k][p].job = j
    BY <1>2, <1>13, <2>3, <2>4, <2>6 DEF OutboxInv, OneLive, Live
  <2> QED
    BY <1>2, <2>6, <2>7
<1>14. OnceSound'
  <2>1. ASSUME NEW k \in Instances, NEW p \in Queues,
               worker'[k][p].step \in {"checked", "applied"},
               worker'[k][p].job.delivery \notin repeatable
        PROVE  /\ worker'[k][p].owner
               /\ worker'[k][p].step = "checked" =>
                      applied[worker'[k][p].job.delivery] = 0
    <3>1. CASE k = i /\ p = q
      BY <1>4, <1>13, <2>1, <3>1
    <3>2. CASE k # i \/ p # q
      BY <1>4, <2>1, <3>2 DEF OutboxInv, OnceSound
    <3> QED
      BY <3>1, <3>2
  <2>2. ASSUME NEW d \in Deliveries, d \notin repeatable \cup processed, applied[d] > 0
        PROVE  \E k \in Instances, p \in Queues :
                   worker'[k][p].step = "applied" /\ worker'[k][p].job.delivery = d
    <3>1. PICK k \in Instances, p \in Queues :
              worker[k][p].step = "applied" /\ worker[k][p].job.delivery = d
      BY <2>2 DEF OutboxInv, OnceSound
    <3>2. k # i \/ p # q
      BY <1>2, <3>1 DEF Idle
    <3> QED
      BY <1>4, <3>1, <3>2
  <2> QED
    BY <1>2, <2>1, <2>2 DEF OnceSound
<1>15. RepeatedForCause'
  BY <1>2 DEF OutboxInv, RepeatedForCause
<1>16. AttemptsLeft'
  BY <1>2, <1>5 DEF OutboxInv, AttemptsLeft, Live
<1> QED
  BY <1>6, <1>7, <1>8, <1>9, <1>11, <1>12, <1>14, <1>15, <1>16 DEF OutboxInv

\* An attempt alone has its delivery, unless there is a cause to repeat it.
LEMMA AloneWithoutCause ==
    ASSUME OutboxInv, NEW i \in Instances, NEW q \in Queues,
           NEW k \in Instances, NEW p \in Queues,
           worker[i][q].step \in {"checked", "applied"},
           worker[k][p].step \in {"checked", "applied"},
           worker[k][p].job.delivery = worker[i][q].job.delivery,
           worker[i][q].job.delivery \notin repeatable
    PROVE  k = i /\ p = q
<1>1. /\ Working(i, q) /\ worker[i][q].job \in Jobs
      /\ Working(k, p) /\ worker[k][p].job \in Jobs
  BY AtWork DEF OutboxInv
<1>2. worker[i][q].owner /\ worker[k][p].owner
  BY DEF OutboxInv, OnceSound
<1>3. job[worker[i][q].job] = "active" /\ job[worker[k][p].job] = "active"
  BY <1>1, <1>2 DEF OutboxInv, OwnersSound
<1>4. worker[k][p].job = worker[i][q].job
  BY <1>1, <1>3 DEF OutboxInv, OneLive, Live
<1> QED
  BY <1>1, <1>2, <1>4 DEF OutboxInv, OwnersSound

LEMMA ApplyInv ==
    ASSUME OutboxInv, NEW i \in Instances, NEW q \in Queues, Apply(i, q)
    PROVE  OutboxInv'
<1>. DEFINE d == worker[i][q].job.delivery
<1>1. /\ worker[i][q].step = "checked"
      /\ applied' = [applied EXCEPT ![d] = IF @ = 0 THEN 1 ELSE 2]
      /\ SetStep(i, q, "applied")
      /\ UNCHANGED <<event, batch, job, attempts, processed, repeatable, faults>>
  BY DEF Apply
<1>2. d \in Deliveries /\ worker[i][q].job \in Jobs /\ Working(i, q) /\ TypeOK
  BY <1>1, AtWork DEF OutboxInv
<1>3. /\ worker' \in [Instances -> [Queues -> Attempt \cup {Idle}]]
      /\ worker'[i][q].step = "applied"
      /\ worker'[i][q].job = worker[i][q].job
      /\ worker'[i][q].owner = worker[i][q].owner
      /\ worker'[i][q] # Idle
      /\ \A k \in Instances, p \in Queues : k # i \/ p # q =>
             worker'[k][p] = worker[k][p]
  BY <1>1, <1>2, SetStepFacts
<1>4. /\ applied' \in [Deliveries -> 0..2]
      /\ applied'[d] = IF applied[d] = 0 THEN 1 ELSE 2
      /\ \A x \in Deliveries : x # d => applied'[x] = applied[x]
      /\ \A x \in Deliveries : applied[x] > 0 => applied'[x] > 0
  BY <1>1, <1>2 DEF TypeOK
<1>5. TypeOK'
  BY <1>1, <1>3, <1>4 DEF OutboxInv, TypeOK
<1>6. BatchSound' /\ PublishedIsQueued'
  BY <1>1, RowsFrame
<1>7. CompletedIsApplied'
  BY <1>1, <1>4, JobsFacts DEF OutboxInv, CompletedIsApplied
<1>8. EffectsSound'
  <2>1. \A x \in processed : applied'[x] > 0
    BY <1>2, <1>4 DEF OutboxInv, EffectsSound, TypeOK
  <2>2. ASSUME NEW k \in Instances, NEW p \in Queues
        PROVE  /\ worker'[k][p].step = "applied" => applied'[worker'[k][p].job.delivery] > 0
               /\ worker'[k][p].step = "finished" => worker'[k][p].job.delivery \in processed
    <3>1. CASE k = i /\ p = q
      BY <1>2, <1>3, <1>4, <3>1
    <3>2. CASE k # i \/ p # q
      <4>1. worker[k][p].step = "applied" => worker[k][p].job.delivery \in Deliveries
        BY <1>2, AtWork
      <4> QED
        BY <1>3, <1>4, <3>2, <4>1 DEF OutboxInv, EffectsSound
    <3> QED
      BY <3>1, <3>2
  <2> QED
    BY <1>1, <2>1, <2>2 DEF EffectsSound
<1>9. OwnersSound'
  BY <1>1, <1>2, <1>3 DEF OutboxInv, OwnersSound, Working
<1>10. OneLive'
  BY <1>1 DEF OutboxInv, OneLive
<1>11. OnceSound'
  <2>1. ASSUME NEW k \in Instances, NEW p \in Queues,
               worker'[k][p].step \in {"checked", "applied"},
               worker'[k][p].job.delivery \notin repeatable
        PROVE  /\ worker'[k][p].owner
               /\ worker'[k][p].step = "checked" =>
                      applied'[worker'[k][p].job.delivery] = 0
    <3>1. CASE k = i /\ p = q
      BY <1>1, <1>3, <2>1, <3>1 DEF OutboxInv, OnceSound
    <3>2. CASE k # i \/ p # q
      <4>1. worker'[k][p] = worker[k][p] /\ worker[k][p].job.delivery \in Deliveries
        BY <1>2, <1>3, <2>1, <3>2, AtWork
      <4>2. worker[k][p].job.delivery # d
        BY <1>1, <2>1, <3>2, <4>1, AloneWithoutCause
      <4> QED
        BY <1>4, <2>1, <4>1, <4>2 DEF OutboxInv, OnceSound
    <3> QED
      BY <3>1, <3>2
  <2>2. ASSUME NEW x \in Deliveries, x \notin repeatable \cup processed, applied'[x] > 0
        PROVE  \E k \in Instances, p \in Queues :
                   worker'[k][p].step = "applied" /\ worker'[k][p].job.delivery = x
    <3>1. CASE x = d
      BY <1>3, <3>1
    <3>2. CASE x # d
      <4>1. PICK k \in Instances, p \in Queues :
                worker[k][p].step = "applied" /\ worker[k][p].job.delivery = x
        BY <1>4, <2>2, <3>2 DEF OutboxInv, OnceSound
      <4> QED
        BY <1>1, <1>3, <4>1
    <3> QED
      BY <3>1, <3>2
  <2> QED
    BY <1>1, <2>1, <2>2 DEF OnceSound
<1>12. RepeatedForCause'
  <2>1. d \notin repeatable => applied[d] = 0
    BY <1>1 DEF OutboxInv, OnceSound
  <2> QED
    BY <1>1, <1>4, <2>1 DEF OutboxInv, RepeatedForCause
<1>13. AttemptsLeft'
  BY <1>1 DEF OutboxInv, AttemptsLeft
<1> QED
  BY <1>5, <1>6, <1>7, <1>8, <1>9, <1>10, <1>11, <1>12, <1>13 DEF OutboxInv

LEMMA MarkProcessedInv ==
    ASSUME OutboxInv, NEW i \in Instances, NEW q \in Queues, MarkProcessed(i, q)
    PROVE  OutboxInv'
<1>. DEFINE d == worker[i][q].job.delivery
<1>1. /\ worker[i][q].step = "applied"
      /\ processed' = processed \cup {d}
      /\ SetStep(i, q, "finished")
      /\ UNCHANGED <<event, batch, job, attempts, applied, repeatable, faults>>
  BY DEF MarkProcessed
<1>2. d \in Deliveries /\ worker[i][q].job \in Jobs /\ Working(i, q) /\ TypeOK
  BY <1>1, AtWork DEF OutboxInv
<1>3. /\ worker' \in [Instances -> [Queues -> Attempt \cup {Idle}]]
      /\ worker'[i][q].step = "finished"
      /\ worker'[i][q].job = worker[i][q].job
      /\ worker'[i][q].owner = worker[i][q].owner
      /\ worker'[i][q] # Idle
      /\ \A k \in Instances, p \in Queues : k # i \/ p # q =>
             worker'[k][p] = worker[k][p]
  BY <1>1, <1>2, SetStepFacts
<1>4. TypeOK'
  BY <1>1, <1>2, <1>3 DEF OutboxInv, TypeOK
<1>5. BatchSound' /\ PublishedIsQueued'
  BY <1>1, RowsFrame
<1>6. CompletedIsApplied'
  BY <1>1 DEF OutboxInv, CompletedIsApplied
<1>7. EffectsSound'
  <2>1. applied[d] > 0
    BY <1>1 DEF OutboxInv, EffectsSound
  <2> QED
    BY <1>1, <1>3, <2>1 DEF OutboxInv, EffectsSound
<1>8. OwnersSound'
  BY <1>1, <1>2, <1>3 DEF OutboxInv, OwnersSound, Working
<1>9. OneLive'
  BY <1>1 DEF OutboxInv, OneLive
<1>10. OnceSound'
  <2>1. ASSUME NEW k \in Instances, NEW p \in Queues,
               worker'[k][p].step \in {"checked", "applied"}
        PROVE  worker'[k][p] = worker[k][p]
    BY <1>3, <2>1
  <2>2. ASSUME NEW x \in Deliveries, x \notin repeatable \cup processed', applied[x] > 0
        PROVE  \E k \in Instances, p \in Queues :
                   worker'[k][p].step = "applied" /\ worker'[k][p].job.delivery = x
    <3>1. PICK k \in Instances, p \in Queues :
              worker[k][p].step = "applied" /\ worker[k][p].job.delivery = x
      BY <1>1, <2>2 DEF OutboxInv, OnceSound
    <3>2. k # i \/ p # q
      BY <1>1, <2>2, <3>1
    <3> QED
      BY <1>3, <3>1, <3>2
  <2> QED
    BY <1>1, <2>1, <2>2 DEF OutboxInv, OnceSound
<1>11. RepeatedForCause'
  BY <1>1 DEF OutboxInv, RepeatedForCause
<1>12. AttemptsLeft'
  BY <1>1 DEF OutboxInv, AttemptsLeft
<1> QED
  BY <1>4, <1>5, <1>6, <1>7, <1>8, <1>9, <1>10, <1>11, <1>12 DEF OutboxInv

\* The end of an attempt: its job, if the worker still owns it, has ended or waits, and
\* an attempt cut off between its effect and the insert of its id is a cause to repeat.
LEMMA EndAttemptInv ==
    ASSUME OutboxInv, NEW i \in Instances, NEW q \in Queues, worker[i][q].step # "idle",
           NEW end \in {"completed", "failed", "waiting"},
           end = "completed" => worker[i][q].step = "finished",
           worker' = [worker EXCEPT ![i][q] = Idle],
           job' = IF worker[i][q].owner THEN [job EXCEPT ![worker[i][q].job] = end]
                                        ELSE job,
           repeatable' = IF worker[i][q].step = "applied"
                           THEN repeatable \cup {worker[i][q].job.delivery}
                           ELSE repeatable,
           attempts' \in [Jobs -> 0..MaxAttempts],
           AttemptsLeft',
           UNCHANGED <<event, batch, processed, applied, faults>>
    PROVE  OutboxInv'
<1>. DEFINE j == worker[i][q].job
            d == j.delivery
<1>1. d \in Deliveries /\ j \in Jobs /\ Working(i, q) /\ TypeOK /\ worker[i][q].owner \in BOOLEAN
  BY AtWork DEF OutboxInv
<1>2. /\ worker' \in [Instances -> [Queues -> Attempt \cup {Idle}]]
      /\ worker'[i][q] = Idle
      /\ \A k \in Instances, p \in Queues : k # i \/ p # q => worker'[k][p] = worker[k][p]
  BY <1>1, GoIdleFacts
<1>3. /\ job' \in [Jobs -> JobState]
      /\ worker[i][q].owner => job'[j] = end
      /\ \A k \in Jobs : job'[k] # job[k] => k = j /\ worker[i][q].owner /\ job'[k] = end
  <2>1. end \in JobState
    BY DEF JobState, Live
  <2> QED
    BY <1>1, <2>1 DEF TypeOK
<1>4. /\ repeatable \subseteq repeatable'
      /\ repeatable' \subseteq Deliveries
      /\ worker[i][q].step = "applied" => d \in repeatable'
  BY <1>1 DEF TypeOK
<1>5. worker[i][q].owner => job[j] = "active"
  BY <1>1 DEF OutboxInv, OwnersSound
<1>6. TypeOK'
  BY <1>1, <1>2, <1>3, <1>4 DEF TypeOK
<1>7. BatchSound' /\ PublishedIsQueued'
  BY <1>3, RowsFrame
<1>8. CompletedIsApplied'
  <2>1. worker[i][q].step = "finished" => d \in processed /\ applied[d] > 0
    BY DEF OutboxInv, EffectsSound
  <2> QED
    BY <1>3, <2>1 DEF OutboxInv, CompletedIsApplied
<1>9. EffectsSound'
  BY <1>2 DEF OutboxInv, EffectsSound, Idle
<1>10. \A k \in Instances, p \in Queues :
           worker'[k][p] # Idle => (k # i \/ p # q) /\ worker'[k][p] = worker[k][p]
  BY <1>2
<1>11. OwnersSound'
  <2>1. ASSUME NEW k \in Instances, NEW p \in Queues, Working(k, p)', worker'[k][p].owner
        PROVE  /\ Working(k, p) /\ worker'[k][p] = worker[k][p] /\ worker[k][p].owner
               /\ job'[worker[k][p].job] = "active"
    <3>1. Working(k, p) /\ worker'[k][p] = worker[k][p] /\ worker[k][p].owner
      BY <1>10, <2>1 DEF Working
    <3>2. worker[k][p].job \in Jobs /\ job[worker[k][p].job] = "active"
      BY <1>1, <3>1, AtWork, WorkingIsAtWork DEF OutboxInv, OwnersSound
    <3>3. ~(worker[k][p].job = j /\ worker[i][q].owner)
      BY <1>1, <1>10, <2>1, <3>1 DEF OutboxInv, OwnersSound, Working
    <3> QED
      BY <1>3, <3>1, <3>2, <3>3
  <2> QED
    BY <2>1 DEF OutboxInv, OwnersSound
<1>12. OneLive'
  <2>1. \A k \in Jobs : job'[k] \in Live => job[k] \in Live
    BY <1>3, <1>5 DEF Live
  <2> QED
    BY <1>4, <2>1 DEF OutboxInv, OneLive
<1>13. OnceSound'
  <2>1. ASSUME NEW k \in Instances, NEW p \in Queues,
               worker'[k][p].step \in {"checked", "applied"}
        PROVE  worker'[k][p] = worker[k][p]
    BY <1>2, <2>1 DEF Idle
  <2>2. ASSUME NEW x \in Deliveries, x \notin repeatable' \cup processed, applied[x] > 0
        PROVE  \E k \in Instances, p \in Queues :
                   worker'[k][p].step = "applied" /\ worker'[k][p].job.delivery = x
    <3>1. PICK k \in Instances, p \in Queues :
              worker[k][p].step = "applied" /\ worker[k][p].job.delivery = x
      BY <1>4, <2>2 DEF OutboxInv, OnceSound
    <3>2. k # i \/ p # q
      BY <1>4, <2>2, <3>1
    <3> QED
      BY <1>2, <3>1, <3>2
  <2> QED
    BY <1>4, <2>1, <2>2 DEF OutboxInv, OnceSound
<1>14. RepeatedForCause'
  BY <1>4 DEF OutboxInv, RepeatedForCause
<1> QED
  BY <1>6, <1>7, <1>8, <1>9, <1>11, <1>12, <1>13, <1>14 DEF OutboxInv

LEMMA CompleteInv ==
    ASSUME OutboxInv, NEW i \in Instances, NEW q \in Queues, Complete(i, q)
    PROVE  OutboxInv'
<1>1. /\ worker[i][q].step = "finished"
      /\ job' = IF worker[i][q].owner
                   THEN [job EXCEPT ![worker[i][q].job] = "completed"] ELSE job
      /\ worker' = [worker EXCEPT ![i][q] = Idle]
      /\ UNCHANGED <<event, batch, attempts, processed, applied, repeatable, faults>>
  BY DEF Complete
<1>2. attempts' \in [Jobs -> 0..MaxAttempts]
  BY <1>1 DEF OutboxInv, TypeOK
<1>3. AttemptsLeft'
  BY <1>1 DEF OutboxInv, TypeOK, AttemptsLeft, Live
<1> QED
  BY <1>1, <1>2, <1>3, EndAttemptInv

LEMMA FailAttemptInv ==
    ASSUME OutboxInv, NEW i \in Instances, NEW q \in Queues, FailAttempt(i, q)
    PROVE  OutboxInv'
<1>. DEFINE j == worker[i][q].job
            end == IF attempts[j] + 1 = MaxAttempts THEN "failed" ELSE "waiting"
<1>1. /\ worker[i][q].step \in {"failing", "checked", "applied"}
      /\ repeatable' = IF worker[i][q].step = "applied"
                         THEN repeatable \cup {worker[i][q].job.delivery} ELSE repeatable
      /\ worker' = [worker EXCEPT ![i][q] = Idle]
      /\ UNCHANGED <<event, batch, processed, applied, faults>>
  BY DEF FailAttempt
<1>2. worker[i][q].step # "idle" /\ j \in Jobs /\ Working(i, q)
  BY <1>1, AtWork DEF OutboxInv
<1>3. IF worker[i][q].owner
        THEN /\ attempts' = [attempts EXCEPT ![j] = @ + 1]
             /\ job' = [job EXCEPT ![j] = end]
        ELSE UNCHANGED <<job, attempts>>
  BY DEF FailAttempt
<1>4. CASE worker[i][q].owner
  <2>1. attempts[j] \in Nat /\ attempts[j] < MaxAttempts
    BY <1>2, <1>4 DEF OutboxInv, TypeOK, OwnersSound, AttemptsLeft, Live
  <2>2. attempts' \in [Jobs -> 0..MaxAttempts]
    <3>1. attempts[j] + 1 \in 0..MaxAttempts
      BY <2>1, OutboxShape
    <3> QED
      BY <1>2, <1>3, <1>4, <3>1 DEF OutboxInv, TypeOK
  <2>3. AttemptsLeft'
    <3>1. attempts'[j] = attempts[j] + 1 /\ job'[j] = end
      BY <1>2, <1>3, <1>4 DEF OutboxInv, TypeOK
    <3>2. job'[j] \in Live => attempts'[j] < MaxAttempts
      BY <2>1, <3>1, OutboxShape DEF Live
    <3>3. \A k \in Jobs : k # j => attempts'[k] = attempts[k] /\ job'[k] = job[k]
      BY <1>2, <1>3, <1>4 DEF OutboxInv, TypeOK
    <3> QED
      BY <3>2, <3>3 DEF OutboxInv, AttemptsLeft
  <2>4. job' = IF worker[i][q].owner THEN [job EXCEPT ![j] = end] ELSE job
    BY <1>3, <1>4
  <2>5. end \in {"completed", "failed", "waiting"} /\ end # "completed"
    OBVIOUS
  <2> QED
    BY <1>1, <1>2, <2>2, <2>3, <2>4, <2>5, EndAttemptInv
<1>5. CASE ~worker[i][q].owner
  <2>1. attempts' \in [Jobs -> 0..MaxAttempts] /\ AttemptsLeft'
    BY <1>3, <1>5 DEF OutboxInv, TypeOK, AttemptsLeft
  <2>2. job' = IF worker[i][q].owner THEN [job EXCEPT ![j] = "waiting"] ELSE job
    BY <1>3, <1>5
  <2> QED
    BY <1>1, <1>2, <2>1, <2>2, EndAttemptInv
<1> QED
  BY <1>4, <1>5

-----------------------------------------------------------------------------
(* Faults preserve the invariant.                                          *)

LEMMA StallInv ==
    ASSUME OutboxInv, NEW i \in Instances, NEW q \in Queues, Stall(i, q)
    PROVE  OutboxInv'
<1>. DEFINE j == worker[i][q].job
            d == j.delivery
<1>1. /\ worker[i][q].step # "idle" /\ worker[i][q].owner /\ Fault
      /\ job' = [job EXCEPT ![j] = "waiting"]
      /\ worker' = [worker EXCEPT ![i][q].owner = FALSE]
      /\ repeatable' = IF worker[i][q].step \in {"checked", "applied"}
                         THEN repeatable \cup {d} ELSE repeatable
      /\ UNCHANGED <<event, batch, attempts, processed, applied>>
  BY WorkingIsAtWork DEF Stall, OutboxInv
<1>2. d \in Deliveries /\ j \in Jobs /\ Working(i, q) /\ TypeOK
  BY <1>1, AtWork DEF OutboxInv
<1>3. /\ worker' \in [Instances -> [Queues -> Attempt \cup {Idle}]]
      /\ worker'[i][q].step = worker[i][q].step
      /\ worker'[i][q].job = worker[i][q].job
      /\ worker'[i][q].owner = FALSE
      /\ \A k \in Instances, p \in Queues : k # i \/ p # q => worker'[k][p] = worker[k][p]
  BY <1>1, <1>2, LoseOwnershipFacts
<1>4. /\ job' \in [Jobs -> JobState]
      /\ job'[j] = "waiting" /\ job[j] = "active"
      /\ \A k \in Jobs : k # j => job'[k] = job[k]
  BY <1>1, <1>2 DEF OutboxInv, TypeOK, OwnersSound, JobState, Live
<1>5. /\ repeatable \subseteq repeatable'
      /\ repeatable' \subseteq Deliveries
      /\ worker[i][q].step \in {"checked", "applied"} => d \in repeatable'
  BY <1>1, <1>2 DEF TypeOK
<1>6. faults' \in 0..MaxFaults
  BY <1>1, OutboxShape DEF OutboxInv, TypeOK, Fault
<1>7. TypeOK'
  BY <1>1, <1>2, <1>3, <1>4, <1>5, <1>6 DEF TypeOK
<1>8. BatchSound' /\ PublishedIsQueued'
  BY <1>1, <1>4, RowsFrame
<1>9. CompletedIsApplied'
  BY <1>1, <1>4 DEF OutboxInv, CompletedIsApplied
<1>10. \A k \in Instances, p \in Queues :
           worker'[k][p].step = worker[k][p].step /\ worker'[k][p].job = worker[k][p].job
  BY <1>3
<1>11. EffectsSound'
  BY <1>1, <1>10 DEF OutboxInv, EffectsSound
<1>12. OwnersSound'
  <2>1. ASSUME NEW k \in Instances, NEW p \in Queues, Working(k, p)', worker'[k][p].owner
        PROVE  /\ Working(k, p) /\ worker'[k][p] = worker[k][p] /\ worker[k][p].owner
               /\ job'[worker[k][p].job] = "active"
    <3>1. Working(k, p) /\ worker'[k][p] = worker[k][p] /\ worker[k][p].owner
      BY <1>3, <2>1 DEF Working
    <3>2. worker[k][p].job \in Jobs /\ job[worker[k][p].job] = "active"
      BY <1>2, <3>1, AtWork, WorkingIsAtWork DEF OutboxInv, OwnersSound
    <3>3. k # i \/ p # q
      BY <1>3, <2>1
    <3>4. worker[k][p].job # j
      BY <1>1, <1>2, <3>1, <3>3 DEF OutboxInv, OwnersSound
    <3> QED
      BY <1>4, <3>1, <3>2, <3>4
  <2> QED
    BY <2>1 DEF OutboxInv, OwnersSound
<1>13. AttemptsLeft'
  BY <1>1, <1>4 DEF OutboxInv, AttemptsLeft, Live
<1>14. OneLive'
  BY <1>4, <1>5 DEF OutboxInv, OneLive, Live
<1>15. OnceSound'
  <2>1. ASSUME NEW k \in Instances, NEW p \in Queues,
               worker'[k][p].step \in {"checked", "applied"},
               worker'[k][p].job.delivery \notin repeatable'
        PROVE  worker'[k][p] = worker[k][p]
    BY <1>3, <1>5, <2>1
  <2>2. \A k \in Instances, p \in Queues :
            /\ worker'[k][p].step \in {"checked", "applied"}
            /\ worker'[k][p].job.delivery \notin repeatable'
            => /\ worker'[k][p].owner
               /\ worker'[k][p].step = "checked" => applied[worker'[k][p].job.delivery] = 0
    BY <1>5, <2>1 DEF OutboxInv, OnceSound
  <2>3. \A x \in Deliveries : x \notin repeatable' \cup processed /\ applied[x] > 0 =>
            \E k \in Instances, p \in Queues :
                worker'[k][p].step = "applied" /\ worker'[k][p].job.delivery = x
    BY <1>5, <1>10 DEF OutboxInv, OnceSound
  <2> QED
    BY <1>1, <2>2, <2>3 DEF OnceSound
<1>16. RepeatedForCause'
  BY <1>1, <1>5 DEF OutboxInv, RepeatedForCause
<1> QED
  BY <1>7, <1>8, <1>9, <1>11, <1>12, <1>13, <1>14, <1>15, <1>16 DEF OutboxInv

LEMMA CrashInv ==
    ASSUME OutboxInv, NEW i \in Instances, Crash(i)
    PROVE  OutboxInv'
<1>. DEFINE own == {worker[i][q].job : q \in {p \in Queues : Working(i, p)
                                                              /\ worker[i][p].owner}}
            cut == {q \in Queues : worker[i][q].step = "applied"}
<1>1. /\ Fault
      /\ batch' = [batch EXCEPT ![i] = NoRows]
      /\ worker' = [worker EXCEPT ![i] = [q \in Queues |-> Idle]]
      /\ job' = [k \in Jobs |-> IF k \in own THEN "waiting" ELSE job[k]]
      /\ repeatable' = repeatable \cup {worker[i][q].job.delivery : q \in cut}
      /\ UNCHANGED <<event, attempts, processed, applied>>
  BY DEF Crash
<1>2. TypeOK
  BY DEF OutboxInv
<1>3. /\ worker' \in [Instances -> [Queues -> Attempt \cup {Idle}]]
      /\ \A k \in Instances, p \in Queues :
             IF k = i THEN worker'[k][p] = Idle ELSE worker'[k][p] = worker[k][p]
  BY <1>1, <1>2 DEF TypeOK
<1>4. ASSUME NEW k \in own
      PROVE  k \in Jobs /\ job[k] = "active"
  <2>1. PICK p \in Queues : Working(i, p) /\ worker[i][p].owner /\ k = worker[i][p].job
    BY <1>4
  <2> QED
    BY <1>2, <2>1, AtWork, WorkingIsAtWork DEF OutboxInv, OwnersSound
<1>5. /\ job' \in [Jobs -> JobState]
      /\ \A k \in Jobs : job'[k] = job[k] \/ (job[k] = "active" /\ job'[k] = "waiting")
      /\ \A k \in Jobs : k \notin own => job'[k] = job[k]
  <2>1. "waiting" \in JobState
    BY DEF JobState, Live
  <2> HIDE DEF own
  <2> QED
    BY <1>1, <1>2, <1>4, <2>1 DEF TypeOK
<1>6. /\ repeatable \subseteq repeatable'
      /\ \A p \in Queues :
             worker[i][p].step = "applied" => worker[i][p].job.delivery \in repeatable'
  BY <1>1
<1>7. repeatable' \subseteq Deliveries
  <2>1. \A p \in cut : worker[i][p].job.delivery \in Deliveries
    BY <1>2, AtWork
  <2> QED
    BY <1>1, <1>2, <2>1 DEF TypeOK
<1>8. \A k \in Instances, e \in Events :
          IF k = i THEN batch'[k][e] = "free" ELSE batch'[k][e] = batch[k][e]
  BY <1>1, <1>2 DEF TypeOK, NoRows
<1>9. faults' \in 0..MaxFaults
  BY <1>1, <1>2, OutboxShape DEF TypeOK, Fault
<1>10. TypeOK'
  <2>1. batch' \in [Instances -> [Events -> OutboxStatus \cup {"free", "locked"}]]
    BY <1>1, <1>2 DEF TypeOK, NoRows
  <2> QED
    BY <1>1, <1>2, <1>3, <1>5, <1>7, <1>9, <2>1 DEF TypeOK
<1>11. \A k \in Jobs : job[k] # "none" => job'[k] # "none"
  BY <1>5
<1>12. BatchSound' /\ PublishedIsQueued'
  <2>1. \A k \in Instances, e \in Events :
            batch'[k][e] # "free" => k # i /\ batch'[k][e] = batch[k][e]
    BY <1>8
  <2>2. \A e \in Events : \A q \in Route[e] :
            job[JobOf(q, e)] # "none" => job'[JobOf(q, e)] # "none"
    BY <1>11, JobsFacts
  <2>3. PublishedIsQueued'
    BY <1>1, <2>2 DEF OutboxInv, PublishedIsQueued
  <2>4. ASSUME NEW k \in Instances, NEW e \in Events, batch'[k][e] # "free"
        PROVE  /\ event[e] = "PENDING"
               /\ \A m \in Instances : batch'[m][e] # "free" => m = k
               /\ batch'[k][e] = "PUBLISHED" =>
                      \A q \in Route[e] : job'[JobOf(q, e)] # "none"
    BY <2>1, <2>2, <2>4 DEF OutboxInv, BatchSound
  <2> QED
    BY <1>1, <2>3, <2>4 DEF BatchSound
<1>13. CompletedIsApplied'
  BY <1>1, <1>5 DEF OutboxInv, CompletedIsApplied
<1>14. EffectsSound'
  BY <1>1, <1>3 DEF OutboxInv, EffectsSound, Idle
<1>15. OwnersSound'
  <2>1. ASSUME NEW k \in Instances, NEW p \in Queues, Working(k, p)', worker'[k][p].owner
        PROVE  /\ Working(k, p) /\ worker'[k][p] = worker[k][p] /\ worker[k][p].owner
               /\ job'[worker[k][p].job] = "active"
    <3>1. k # i /\ Working(k, p) /\ worker'[k][p] = worker[k][p] /\ worker[k][p].owner
      BY <1>3, <2>1 DEF Working
    <3>2. worker[k][p].job \in Jobs /\ job[worker[k][p].job] = "active"
      BY <1>2, <3>1, AtWork, WorkingIsAtWork DEF OutboxInv, OwnersSound
    <3>3. worker[k][p].job \notin own
      BY <3>1 DEF OutboxInv, OwnersSound
    <3> QED
      BY <1>5, <3>1, <3>2, <3>3
  <2> QED
    BY <2>1 DEF OutboxInv, OwnersSound
<1>16. AttemptsLeft'
  BY <1>1, <1>5 DEF OutboxInv, AttemptsLeft, Live
<1>17. OneLive'
  BY <1>5, <1>6 DEF OutboxInv, OneLive, Live
<1>18. OnceSound'
  <2>1. \A k \in Instances, p \in Queues :
            /\ worker'[k][p].step \in {"checked", "applied"}
            /\ worker'[k][p].job.delivery \notin repeatable'
            => /\ worker'[k][p].owner
               /\ worker'[k][p].step = "checked" => applied[worker'[k][p].job.delivery] = 0
    BY <1>3, <1>6 DEF OutboxInv, OnceSound, Idle
  <2>2. ASSUME NEW x \in Deliveries, x \notin repeatable' \cup processed, applied[x] > 0
        PROVE  \E k \in Instances, p \in Queues :
                   worker'[k][p].step = "applied" /\ worker'[k][p].job.delivery = x
    <3>1. PICK k \in Instances, p \in Queues :
              worker[k][p].step = "applied" /\ worker[k][p].job.delivery = x
      BY <1>6, <2>2 DEF OutboxInv, OnceSound
    <3>2. k # i
      BY <1>6, <2>2, <3>1
    <3> QED
      BY <1>3, <3>1, <3>2
  <2> QED
    BY <1>1, <2>1, <2>2 DEF OnceSound
<1>19. RepeatedForCause'
  BY <1>1, <1>6 DEF OutboxInv, RepeatedForCause
<1> QED
  BY <1>10, <1>12, <1>13, <1>14, <1>15, <1>16, <1>17, <1>18, <1>19 DEF OutboxInv

LEMMA PruneInv ==
    ASSUME OutboxInv, NEW j \in Jobs, Prune(j)
    PROVE  OutboxInv'
<1>1. /\ job[j] \in {"completed", "failed"}
      /\ Fault
      /\ job' = [job EXCEPT ![j] = IF job[j] = "completed" THEN "forgotten" ELSE "discarded"]
      /\ UNCHANGED <<event, batch, attempts, worker, processed, applied, repeatable>>
  BY DEF Prune
<1>2. /\ job' \in [Jobs -> JobState]
      /\ job'[j] = IF job[j] = "completed" THEN "forgotten" ELSE "discarded"
      /\ \A k \in Jobs : k # j => job'[k] = job[k]
  BY <1>1 DEF OutboxInv, TypeOK, JobState, Absent
<1>3. faults' \in 0..MaxFaults
  BY <1>1, OutboxShape DEF OutboxInv, TypeOK, Fault
<1>4. TypeOK'
  BY <1>1, <1>2, <1>3 DEF OutboxInv, TypeOK
<1>5. BatchSound' /\ PublishedIsQueued'
  BY <1>1, <1>2, RowsFrame
<1>6. CompletedIsApplied'
  BY <1>1, <1>2 DEF OutboxInv, CompletedIsApplied
<1>7. EffectsSound' /\ OnceSound' /\ RepeatedForCause'
  BY <1>1 DEF OutboxInv, EffectsSound, OnceSound, RepeatedForCause
<1>8. OwnersSound'
  BY <1>1, <1>2 DEF OutboxInv, OwnersSound, Working
<1>9. \A k \in Jobs : job'[k] \in Live => job[k] \in Live
  BY <1>2 DEF Live
<1>10. AttemptsLeft' /\ OneLive'
  BY <1>1, <1>9 DEF OutboxInv, AttemptsLeft, OneLive
<1> QED
  BY <1>4, <1>5, <1>6, <1>7, <1>8, <1>10 DEF OutboxInv

-----------------------------------------------------------------------------
(* The theorems.                                                           *)

LEMMA InitInv ==
    ASSUME OutboxInit
    PROVE  OutboxInv
<1>1. \A i \in Instances, q \in Queues : worker[i][q] = Idle
  BY DEF OutboxInit
<1>2. \A j \in Jobs : job[j] = "none"
  BY DEF OutboxInit
<1>3. TypeOK
  BY OutboxShape DEF OutboxInit, TypeOK, NoRows, JobState, Absent
<1>4. BatchSound /\ PublishedIsQueued
  BY DEF OutboxInit, NoRows, BatchSound, PublishedIsQueued
<1>5. CompletedIsApplied /\ OneLive /\ AttemptsLeft
  BY <1>2 DEF CompletedIsApplied, OneLive, AttemptsLeft, Live
<1>6. EffectsSound /\ OwnersSound /\ OnceSound /\ RepeatedForCause
  BY <1>1 DEF OutboxInit, EffectsSound, OwnersSound, OnceSound, RepeatedForCause,
              Working, Idle
<1> QED
  BY <1>3, <1>4, <1>5, <1>6 DEF OutboxInv

LEMMA StutterInv ==
    ASSUME OutboxInv, UNCHANGED outboxVars
    PROVE  OutboxInv'
<1>1. UNCHANGED <<event, batch, job, attempts, worker, processed, applied, repeatable,
                  faults>>
  BY DEF outboxVars
<1>2. TypeOK' /\ BatchSound' /\ PublishedIsQueued'
  BY <1>1 DEF OutboxInv, TypeOK, BatchSound, PublishedIsQueued
<1>3. EffectsInv'
  BY <1>1, EffectsFrame
<1> QED
  BY <1>2, <1>3 DEF OutboxInv, EffectsInv

LEMMA NextInv ==
    ASSUME OutboxInv, OutboxNext
    PROVE  OutboxInv'
<1>1. ASSUME NEW e \in Events, Record(e)
      PROVE  OutboxInv'
  BY <1>1, RecordInv
<1>2. ASSUME NEW i \in Instances, Poll(i)
      PROVE  OutboxInv'
  BY <1>2, LockBatchInv, CommitBatchInv, AbortBatchInv, PublishInv DEF Poll
<1>3. ASSUME NEW i \in Instances, NEW q \in Queues, Work(i, q) \/ Report(i, q) \/ Stall(i, q)
      PROVE  OutboxInv'
  BY <1>3, TakeInv, ApplyInv, MarkProcessedInv, CompleteInv, FailAttemptInv, StallInv
     DEF Work, Report
<1> QED
  BY <1>1, <1>2, <1>3, CrashInv, PruneInv DEF OutboxNext

\* Every reachable state of the publishers and the consumers satisfies the invariant.
THEOREM OutboxSound == OutboxSpec => []OutboxInv
<1>1. OutboxInv /\ [OutboxNext]_outboxVars => OutboxInv'
  BY NextInv, StutterInv
<1> QED
  BY InitInv, <1>1, PTL DEF OutboxSpec

\* The variables keep their types: a job has at most MaxAttempts attempts.
THEOREM OutboxTypeCorrect == OutboxSpec => []TypeOK
<1>1. OutboxInv => TypeOK
  BY DEF OutboxInv
<1> QED
  BY OutboxSound, <1>1, PTL

\* A row that is PUBLISHED has its job in every queue of its route.
THEOREM PublishedQueued == OutboxSpec => []PublishedIsQueued
<1>1. OutboxInv => PublishedIsQueued
  BY DEF OutboxInv
<1> QED
  BY OutboxSound, <1>1, PTL

\* A job that completed had its effect, and its event is remembered.
THEOREM CompletedApplied == OutboxSpec => []CompletedIsApplied
<1>1. OutboxInv => CompletedIsApplied
  BY DEF OutboxInv
<1> QED
  BY OutboxSound, <1>1, PTL

\* An effect that was repeated had an interrupted attempt or two live jobs.
THEOREM RepeatedOnlyForCause == OutboxSpec => []RepeatedForCause
<1>1. OutboxInv => RepeatedForCause
  BY DEF OutboxInv
<1> QED
  BY OutboxSound, <1>1, PTL

LEMMA NextPublished ==
    ASSUME OutboxInv, OutboxNext, NEW e \in Events, event[e] = "PUBLISHED"
    PROVE  event'[e] = "PUBLISHED"
<1>1. ASSUME NEW f \in Events, Record(f)
      PROVE  event'[e] = "PUBLISHED"
  BY <1>1 DEF Record, OutboxInv, TypeOK
<1>2. ASSUME NEW i \in Instances, Poll(i)
      PROVE  event'[e] = "PUBLISHED"
  BY <1>2, CommitBatchInv DEF Poll, LockBatch, AbortBatch, Publish, FailToPublish
<1>3. ASSUME NEW i \in Instances, NEW q \in Queues, Work(i, q) \/ Report(i, q) \/ Stall(i, q)
      PROVE  UNCHANGED event
  BY <1>3 DEF Work, Report, Take, Apply, MarkProcessed, Complete, FailAttempt, Stall
<1>4. ASSUME NEW i \in Instances, Crash(i)
      PROVE  UNCHANGED event
  BY <1>4 DEF Crash
<1>5. ASSUME NEW j \in Jobs, Prune(j)
      PROVE  UNCHANGED event
  BY <1>5 DEF Prune
<1> QED
  BY <1>1, <1>2, <1>3, <1>4, <1>5 DEF OutboxNext

\* No poll takes a published row back.
THEOREM PublishedFinal == OutboxSpec => PublishedIsFinal
<1>1. OutboxInv /\ [OutboxNext]_outboxVars =>
          [\A e \in Events : event[e] = "PUBLISHED" => event'[e] = "PUBLISHED"]_outboxVars
  BY NextPublished
<1> QED
  BY OutboxSound, <1>1, PTL DEF OutboxSpec, PublishedIsFinal

-----------------------------------------------------------------------------
(* DeadLetters.                                                            *)

\* A listener has dealt with the failure of a job.
DealtWith(i, j) ==
    /\ Exhausted(j)
    /\ <<i, j>> \notin missed
    /\ ~ \E n \in notices : n.at = i /\ n.job = j /\ n.outcome = "failed"

LEMMA RecordedIfDealtWith ==
    FailureIsRecorded <=>
        \A j \in Jobs, i \in Listeners :
            j.replay = 0 /\ DealtWith(i, j) => deadLetter[j] # "none"
  BY DEF FailureIsRecorded, DealtWith

\* The marks of a notice are not jobs.
LEMMA UnreadIsNoJob == Unread \notin Jobs /\ NoRow \notin Jobs
<1>1. \A j \in Jobs : DOMAIN j = {"delivery", "replay"}
  BY DEF Jobs
<1>2. DOMAIN Unread = {"replay"} /\ DOMAIN NoRow = {"replay"}
  BY DEF Unread, NoRow
<1> QED
  BY <1>1, <1>2

-----------------------------------------------------------------------------
(* What a step of Outbox does to jobs, by kind of step.                    *)

\* Events stay processed, jobs do not vanish, and the operator alone adds replays.
JobsMove ==
    /\ processed \subseteq processed'
    /\ \A j \in Jobs : job[j] # "none" => job'[j] # "none"
    /\ \A j \in Jobs : j.replay > 0 /\ job[j] = "none" => job'[j] = "none"

NoneFails == \A j \in Jobs : Exhausted(j)' => Exhausted(j)

LEMMA AddMoves ==
    ASSUME TypeOK, NEW added \in SUBSET Jobs, AddJobs(added)
    PROVE  /\ \A j \in Jobs : job[j] # "none" => job'[j] # "none"
           /\ \A j \in Jobs : j \notin added => job'[j] = job[j]
           /\ \A j \in Jobs : Exhausted(j)' => Exhausted(j)
<1>1. /\ \A j \in Jobs : job[j] # "none" => job'[j] # "none"
      /\ \A j \in Jobs : job'[j] # job[j] => j \in added
      /\ \A j \in Jobs : job'[j] = job[j] \/ job'[j] = "waiting"
      /\ \A j \in Jobs : attempts'[j] = IF job'[j] = job[j] THEN attempts[j] ELSE 0
  BY AddFacts
<1> QED
  BY <1>1 DEF Exhausted

LEMMA PublisherMoves ==
    ASSUME OutboxInv,
           (\E e \in Events : Record(e)) \/ (\E i \in Instances : Poll(i))
    PROVE  JobsMove /\ NoneFails
<1>1. CASE UNCHANGED <<job, attempts, processed>>
  BY <1>1 DEF JobsMove, NoneFails, Exhausted
<1>2. ASSUME NEW e \in Events, NEW added \in SUBSET JobsOf(e), AddJobs(added),
             UNCHANGED processed
      PROVE  JobsMove /\ NoneFails
  <2>1. \A j \in JobsOf(e) : j \in Jobs /\ j.replay = 0
    BY JobsFacts DEF JobsOf
  <2>2. added \in SUBSET Jobs
    BY <2>1
  <2>3. \A j \in Jobs : j.replay > 0 => j \notin added
    BY <2>1, JobsFacts
  <2> QED
    BY <1>2, <2>2, <2>3, AddMoves DEF JobsMove, NoneFails, OutboxInv
<1>3. ASSUME NEW i \in Instances, NEW e \in Events, Publish(i, e) \/ FailToPublish(i, e)
      PROVE  JobsMove /\ NoneFails
  <2>1. \E added \in SUBSET JobsOf(e) : AddJobs(added)
    BY <1>3 DEF Publish, FailToPublish
  <2>2. UNCHANGED processed
    BY <1>3 DEF Publish, FailToPublish
  <2> QED
    BY <1>2, <2>1, <2>2
<1>4. ASSUME NEW i \in Instances, LockBatch(i) \/ CommitBatch(i) \/ AbortBatch(i)
      PROVE  JobsMove /\ NoneFails
  BY <1>1, <1>4 DEF LockBatch, CommitBatch, AbortBatch
<1>5. ASSUME NEW e \in Events, Record(e)
      PROVE  JobsMove /\ NoneFails
  BY <1>1, <1>5 DEF Record
<1> QED
  BY <1>3, <1>4, <1>5 DEF Poll

LEMMA WorkerMoves ==
    ASSUME OutboxInv, NEW i \in Instances, NEW q \in Queues, Work(i, q) \/ Stall(i, q)
    PROVE  JobsMove /\ NoneFails
<1>1. ASSUME NEW j \in Jobs, NEW to \in {"waiting", "active"},
             job' = [job EXCEPT ![j] = to], job[j] # "none", UNCHANGED <<attempts, processed>>
      PROVE  JobsMove /\ NoneFails
  BY <1>1 DEF JobsMove, NoneFails, Exhausted, OutboxInv, TypeOK
<1>2. ASSUME NEW j \in Jobs, Take(i, j)
      PROVE  JobsMove /\ NoneFails
  BY <1>1, <1>2 DEF Take
<1>3. CASE Apply(i, q) \/ MarkProcessed(i, q)
  BY <1>3 DEF Apply, MarkProcessed, JobsMove, NoneFails, Exhausted
<1>4. CASE Stall(i, q)
  <2>1. worker[i][q].job \in Jobs /\ job[worker[i][q].job] = "active"
    BY <1>4, AtWork, WorkingIsAtWork DEF Stall, OutboxInv, OwnersSound
  <2> QED
    BY <1>1, <1>4, <2>1 DEF Stall
<1> QED
  BY <1>2, <1>3, <1>4 DEF Work

LEMMA ReportMoves ==
    ASSUME OutboxInv, NEW i \in Instances, NEW q \in Queues, Report(i, q)
    PROVE  /\ JobsMove
           /\ \A j \in Jobs : Exhausted(j)' => Exhausted(j) \/ j \in Ended
<1>. DEFINE j == worker[i][q].job
<1>1. worker[i][q].step # "idle"
  BY DEF Report, Complete, FailAttempt
<1>2. j \in Jobs /\ Working(i, q)
  BY <1>1, AtWork DEF OutboxInv
<1>3. worker[i][q].owner => job[j] = "active"
  BY <1>2 DEF OutboxInv, OwnersSound
<1>4. \A k \in Jobs : k # j \/ ~worker[i][q].owner => job'[k] = job[k] /\ attempts'[k] = attempts[k]
  BY <1>2 DEF Report, Complete, FailAttempt, OutboxInv, TypeOK
<1>5. worker[i][q].owner => job'[j] \in {"completed", "failed", "waiting"}
  BY <1>2 DEF Report, Complete, FailAttempt, OutboxInv, TypeOK
<1>6. UNCHANGED processed
  BY DEF Report, Complete, FailAttempt
<1>7. \A k \in Jobs : Exhausted(k)' => Exhausted(k) \/ k \in Ended
  BY <1>2, <1>3, <1>4 DEF Exhausted, Ended
<1>8. \A k \in Jobs : job[k] # "none" => job'[k] # "none"
  BY <1>4, <1>5
<1>9. \A k \in Jobs : job[k] = "none" => job'[k] = "none"
  BY <1>3, <1>4
<1> QED
  BY <1>6, <1>7, <1>8, <1>9 DEF JobsMove

LEMMA CrashPruneMoves ==
    ASSUME OutboxInv,
           (\E i \in Instances : Crash(i)) \/ (\E j \in Jobs : Prune(j))
    PROVE  JobsMove /\ NoneFails
<1>1. ASSUME NEW i \in Instances, Crash(i)
      PROVE  JobsMove /\ NoneFails
  <2>. DEFINE own == {worker[i][q].job : q \in {p \in Queues : Working(i, p)
                                                               /\ worker[i][p].owner}}
  <2>1. \A k \in own : k \in Jobs /\ job[k] = "active"
    BY AtWork, WorkingIsAtWork DEF OutboxInv, OwnersSound
  <2>2. /\ job' = [k \in Jobs |-> IF k \in own THEN "waiting" ELSE job[k]]
        /\ UNCHANGED <<attempts, processed>>
    BY <1>1 DEF Crash
  <2> HIDE DEF own
  <2> QED
    BY <2>1, <2>2 DEF JobsMove, NoneFails, Exhausted
<1>2. ASSUME NEW j \in Jobs, Prune(j)
      PROVE  JobsMove /\ NoneFails
  BY <1>2 DEF Prune, JobsMove, NoneFails, Exhausted, OutboxInv, TypeOK
<1> QED
  BY <1>1, <1>2

-----------------------------------------------------------------------------
(* The listeners and the operator: the parts a step leaves alone.          *)

RowsInv == DLTypeOK /\ NoticesSound /\ FirstRowFirst /\ ReplayedIsProcessed

\* Steps of Outbox leave the rows alone; the notices that are new are unread and true.
LEMMA RowsKept ==
    ASSUME DLInv, OutboxInv', JobsMove, UNCHANGED <<deadLetter, replaying>>,
           missed' \subseteq Listeners \X Jobs,
           notices' \subseteq Notice,
           \A n \in notices' \ notices :
               /\ n.found = Unread
               /\ job'[n.job] # "none"
               /\ n.outcome = "completed" => n.job.delivery \in processed'
    PROVE  RowsInv'
<1>1. DLTypeOK'
  BY DEF DLInv, DLTypeOK, OutboxInv
<1>2. NoticesSound'
  <2>1. \A n \in notices : n.job \in Jobs
    BY DEF DLInv, DLTypeOK, Notice
  <2>2. Unread \notin Jobs
    BY UnreadIsNoJob
  <2>3. ASSUME NEW n \in notices'
        PROVE  /\ job'[n.job] # "none"
               /\ n.outcome = "completed" => n.job.delivery \in processed'
               /\ n.found \in Jobs => /\ n.found.delivery = n.job.delivery
                                      /\ deadLetter[n.found] # "none"
    <3>1. CASE n \in notices
      BY <2>1, <3>1 DEF DLInv, NoticesSound, JobsMove
    <3>2. CASE n \notin notices
      BY <2>2, <3>2
    <3> QED
      BY <3>1, <3>2
  <2> QED
    BY <2>3 DEF NoticesSound
<1>3. FirstRowFirst'
  BY DEF DLInv, FirstRowFirst, JobsMove
<1>4. ReplayedIsProcessed'
  BY DEF DLInv, ReplayedIsProcessed, JobsMove
<1> QED
  BY <1>1, <1>2, <1>3, <1>4 DEF RowsInv

LEMMA QuietInv ==
    ASSUME DLInv, OutboxInv', JobsMove, NoneFails, UNCHANGED dlVars
    PROVE  DLInv'
<1>1. UNCHANGED <<deadLetter, notices, missed, replaying>>
  BY DEF dlVars
<1>2. RowsInv'
  BY <1>1, RowsKept DEF DLInv, DLTypeOK
<1>3. FailureIsRecorded'
  BY <1>1 DEF DLInv, FailureIsRecorded, NoneFails
<1> QED
  BY <1>2, <1>3 DEF DLInv, RowsInv

LEMMA DLReportInv ==
    ASSUME DLInv, NEW i \in Instances, NEW q \in Queues, Report(i, q), Broadcast
    PROVE  DLInv'
<1>1. OutboxInv'
  BY CompleteInv, FailAttemptInv DEF DLInv, Report
<1>2. JobsMove /\ \A j \in Jobs : Exhausted(j)' => Exhausted(j) \/ j \in Ended
  BY ReportMoves DEF DLInv
<1>. DEFINE heard == {[at |-> k, job |-> j, outcome |-> job'[j], found |-> Unread] :
                         k \in Listeners, j \in Ended}
<1>3. notices' = notices \cup heard /\ UNCHANGED <<deadLetter, missed, replaying>>
  BY DEF Broadcast
<1>4. ASSUME NEW n \in heard
      PROVE  /\ n \in Notice
             /\ n.found = Unread
             /\ job'[n.job] # "none"
             /\ n.outcome = "completed" => n.job.delivery \in processed'
  <2>1. PICK k \in Listeners, j \in Ended :
            n = [at |-> k, job |-> j, outcome |-> job'[j], found |-> Unread]
    OBVIOUS
  <2>2. j \in Jobs /\ job'[j] \in {"completed", "failed"}
    BY DEF Ended
  <2>3. job'[j] = "completed" => j.delivery \in processed'
    BY <1>1, <2>2 DEF OutboxInv, CompletedIsApplied
  <2> QED
    BY <2>1, <2>2, <2>3 DEF Notice
<1>5. RowsInv'
  <2>1. notices' \subseteq Notice
    BY <1>3, <1>4 DEF DLInv, DLTypeOK
  <2>2. \A n \in notices' \ notices : n \in heard
    BY <1>3
  <2> HIDE DEF heard
  <2>3. missed' \subseteq Listeners \X Jobs
    BY <1>3 DEF DLInv, DLTypeOK
  <2> QED
    BY <1>1, <1>2, <1>3, <1>4, <2>1, <2>2, <2>3, RowsKept
<1>6. FailureIsRecorded'
  <2> SUFFICES ASSUME NEW j \in Jobs, NEW k \in Listeners,
                      j.replay = 0, Exhausted(j)', <<k, j>> \notin missed',
                      ~ \E n \in notices' : n.at = k /\ n.job = j /\ n.outcome = "failed"
               PROVE  deadLetter'[j] # "none"
    BY DEF FailureIsRecorded
  <2>1. j \notin Ended
    <3> SUFFICES ASSUME j \in Ended PROVE FALSE
      OBVIOUS
    <3>1. [at |-> k, job |-> j, outcome |-> job'[j], found |-> Unread] \in notices'
      BY <1>3
    <3>2. job'[j] = "failed"
      BY DEF Exhausted
    <3> QED
      BY <3>1, <3>2
  <2>2. Exhausted(j)
    BY <1>2, <2>1
  <2>3. ~ \E n \in notices : n.at = k /\ n.job = j /\ n.outcome = "failed"
    BY <1>3
  <2> QED
    BY <1>3, <2>2, <2>3 DEF DLInv, FailureIsRecorded
<1> QED
  BY <1>1, <1>5, <1>6 DEF DLInv, RowsInv

LEMMA DLCrashInv ==
    ASSUME DLInv, NEW i \in Instances, Crash(i), MissAll(i)
    PROVE  DLInv'
<1>1. OutboxInv'
  BY CrashInv DEF DLInv
<1>2. JobsMove /\ NoneFails
  BY CrashPruneMoves DEF DLInv
<1>. DEFINE lost == {n \in notices : n.at = i}
<1>3. /\ notices' = notices \ lost
      /\ missed' = missed \cup {<<i, n.job>> : n \in lost}
      /\ UNCHANGED <<deadLetter, replaying>>
  BY DEF MissAll
<1>4. \A n \in lost : n.at \in Listeners /\ n.job \in Jobs
  BY DEF DLInv, DLTypeOK, Notice
<1>5. missed' \subseteq Listeners \X Jobs /\ notices' \subseteq Notice
  BY <1>3, <1>4 DEF DLInv, DLTypeOK
<1>6. RowsInv'
  BY <1>1, <1>2, <1>3, <1>5, RowsKept
<1>7. FailureIsRecorded'
  <2> SUFFICES ASSUME NEW j \in Jobs, NEW k \in Listeners,
                      j.replay = 0, Exhausted(j)', <<k, j>> \notin missed',
                      ~ \E n \in notices' : n.at = k /\ n.job = j /\ n.outcome = "failed"
               PROVE  deadLetter'[j] # "none"
    BY DEF FailureIsRecorded
  <2>1. Exhausted(j) /\ <<k, j>> \notin missed
    BY <1>2, <1>3 DEF NoneFails
  <2>2. ASSUME NEW n \in notices, n.at = k, n.job = j, n.outcome = "failed"
        PROVE  FALSE
    <3>1. n \in lost
      BY <1>3, <2>2
    <3> QED
      BY <1>3, <2>2, <3>1
  <2> QED
    BY <1>3, <2>1, <2>2 DEF DLInv, FailureIsRecorded
<1> QED
  BY <1>1, <1>6, <1>7 DEF DLInv, RowsInv

\* A fault alone disturbs nothing.
LEMMA FaultInv ==
    ASSUME OutboxInv, Fault,
           UNCHANGED <<event, batch, job, attempts, worker, processed, applied, repeatable>>
    PROVE  OutboxInv'
<1>1. TypeOK'
  BY OutboxShape DEF OutboxInv, TypeOK, Fault
<1>2. BatchSound' /\ PublishedIsQueued'
  BY RowsFrame DEF OutboxInv
<1>3. EffectsInv'
  BY EffectsFrame
<1> QED
  BY <1>1, <1>2, <1>3 DEF OutboxInv, EffectsInv

LEMMA FindReplayingInv ==
    ASSUME DLInv, NEW n \in notices, FindReplaying(n), UNCHANGED outboxVars
    PROVE  DLInv'
<1>1. OutboxInv'
  BY StutterInv DEF DLInv
<1>2. UNCHANGED <<job, attempts, processed>>
  BY DEF outboxVars
<1>3. PICK r \in IF ReplayingRows(n.job) # {} THEN ReplayingRows(n.job) ELSE {NoRow} :
          notices' = (notices \ {n}) \cup {[n EXCEPT !.found = r]}
  BY DEF FindReplaying
<1>. DEFINE m == [n EXCEPT !.found = r]
<1>4. r \in Jobs \cup {NoRow} /\ n \in Notice
  BY <1>3 DEF ReplayingRows, DLInv, DLTypeOK
<1>5. m \in Notice /\ m.at = n.at /\ m.job = n.job /\ m.outcome = n.outcome /\ m.found = r
  BY <1>4 DEF Notice
<1>6. r \in Jobs => r.delivery = n.job.delivery /\ deadLetter[r] # "none"
  BY <1>3, UnreadIsNoJob DEF ReplayingRows
<1>7. UNCHANGED <<deadLetter, missed, replaying>>
  BY DEF FindReplaying
<1>8. DLTypeOK' /\ FirstRowFirst' /\ ReplayedIsProcessed'
  <2>1. notices' \subseteq Notice
    BY <1>3, <1>5 DEF DLInv, DLTypeOK
  <2> QED
    BY <1>1, <1>2, <1>7, <2>1
       DEF DLInv, DLTypeOK, OutboxInv, FirstRowFirst, ReplayedIsProcessed
<1>9. NoticesSound'
  <2>1. /\ job[m.job] # "none"
        /\ m.outcome = "completed" => m.job.delivery \in processed
        /\ m.found \in Jobs => /\ m.found.delivery = m.job.delivery
                               /\ deadLetter[m.found] # "none"
    BY <1>5, <1>6 DEF DLInv, NoticesSound
  <2>2. notices' = (notices \ {n}) \cup {m}
    BY <1>3
  <2> HIDE DEF m
  <2>3. \A x \in notices' : x \in notices \/ x = m
    BY <2>2
  <2> QED
    BY <1>2, <1>7, <2>1, <2>3 DEF DLInv, NoticesSound
<1>10. FailureIsRecorded'
  <2> SUFFICES ASSUME NEW j \in Jobs, NEW k \in Listeners,
                      j.replay = 0, Exhausted(j)', <<k, j>> \notin missed',
                      ~ \E x \in notices' : x.at = k /\ x.job = j /\ x.outcome = "failed"
               PROVE  deadLetter'[j] # "none"
    BY DEF FailureIsRecorded
  <2>1. ASSUME NEW x \in notices, x.at = k, x.job = j, x.outcome = "failed"
        PROVE  FALSE
    <3>1. CASE x = n
      BY <1>3, <1>5, <2>1, <3>1
    <3>2. CASE x # n
      BY <1>3, <2>1, <3>2
    <3> QED
      BY <3>1, <3>2
  <2> QED
    BY <1>2, <1>7, <2>1 DEF DLInv, FailureIsRecorded, Exhausted
<1> QED
  BY <1>1, <1>8, <1>9, <1>10 DEF DLInv

\* A handler writes a row and is done with its notice; rows do not vanish.
LEMMA NoticeDone ==
    ASSUME DLInv, NEW n \in notices, UNCHANGED outboxVars,
           notices' = notices \ {n}, UNCHANGED <<missed, replaying>>,
           deadLetter' \in [Jobs -> RowStatus],
           \A j \in Jobs : deadLetter[j] # "none" => deadLetter'[j] # "none",
           \A j \in Jobs : deadLetter'[j] # "none" => deadLetter[j] # "none" \/ j = n.job,
           \A j \in Jobs : deadLetter'[j] = "REPLAYED" => j.delivery \in processed,
           n.outcome = "failed" /\ n.job.replay = 0 => deadLetter'[n.job] # "none"
    PROVE  DLInv'
<1>1. OutboxInv'
  BY StutterInv DEF DLInv
<1>2. UNCHANGED <<job, attempts, processed>>
  BY DEF outboxVars
<1>3. DLTypeOK' /\ ReplayedIsProcessed'
  BY <1>1, <1>2 DEF DLInv, DLTypeOK, OutboxInv, ReplayedIsProcessed
<1>4. NoticesSound'
  BY <1>2 DEF DLInv, NoticesSound
<1>5. n.job \in Jobs /\ job[n.job] # "none"
  BY DEF DLInv, DLTypeOK, Notice, NoticesSound
<1>6. FirstRowFirst'
  <2> SUFFICES ASSUME NEW r \in Jobs,
                      \/ deadLetter'[r] # "none"
                      \/ r \in replaying
                      \/ r.replay > 0 /\ job[r] # "none"
               PROVE  \E j \in Jobs : /\ j.delivery = r.delivery
                                     /\ j.replay = 0
                                     /\ deadLetter'[j] # "none"
    BY <1>2 DEF FirstRowFirst
  <2>1. CASE deadLetter[r] # "none" \/ r \in replaying \/ (r.replay > 0 /\ job[r] # "none")
    BY <2>1 DEF DLInv, FirstRowFirst
  <2>2. CASE deadLetter[r] = "none" /\ deadLetter'[r] # "none" /\ r.replay = 0
    BY <2>2
  <2>3. CASE deadLetter[r] = "none" /\ deadLetter'[r] # "none" /\ r.replay # 0
    <3>1. r = n.job /\ r.replay > 0
      BY <2>3, JobsFacts
    <3> QED
      BY <1>5, <3>1 DEF DLInv, FirstRowFirst
  <2> QED
    BY <2>1, <2>2, <2>3
<1>7. FailureIsRecorded'
  <2> SUFFICES ASSUME NEW j \in Jobs, NEW k \in Listeners,
                      j.replay = 0, Exhausted(j)', <<k, j>> \notin missed',
                      ~ \E x \in notices' : x.at = k /\ x.job = j /\ x.outcome = "failed"
               PROVE  deadLetter'[j] # "none"
    BY DEF FailureIsRecorded
  <2>1. CASE n.at = k /\ n.job = j /\ n.outcome = "failed"
    BY <2>1
  <2>2. CASE ~(n.at = k /\ n.job = j /\ n.outcome = "failed")
    <3>1. ~ \E x \in notices : x.at = k /\ x.job = j /\ x.outcome = "failed"
      BY <2>2
    <3>2. Exhausted(j)
      BY <1>2 DEF Exhausted
    <3> QED
      BY <3>1, <3>2 DEF DLInv, FailureIsRecorded
  <2> QED
    BY <2>1, <2>2
<1> QED
  BY <1>1, <1>3, <1>4, <1>6, <1>7 DEF DLInv

LEMMA HandleFailedInv ==
    ASSUME DLInv, NEW n \in notices, HandleFailed(n), UNCHANGED outboxVars
    PROVE  DLInv'
<1>1. n.job \in Jobs /\ n.found \in Jobs \cup {NoRow} /\ deadLetter \in [Jobs -> RowStatus]
  BY DEF DLInv, DLTypeOK, Notice, HandleFailed
<1>2. notices' = notices \ {n} /\ UNCHANGED <<missed, replaying>>
  BY DEF HandleFailed
<1>3. CASE n.found = NoRow
  <2>1. deadLetter' = IF deadLetter[n.job] = "none"
                        THEN [deadLetter EXCEPT ![n.job] = "PENDING"] ELSE deadLetter
    BY <1>3 DEF HandleFailed, RecordRow
  <2>2. /\ deadLetter' \in [Jobs -> RowStatus]
        /\ deadLetter'[n.job] # "none"
        /\ \A j \in Jobs : j # n.job => deadLetter'[j] = deadLetter[j]
        /\ deadLetter'[n.job] = "REPLAYED" => deadLetter[n.job] = "REPLAYED"
    BY <1>1, <2>1 DEF RowStatus
  <2>3. \A j \in Jobs : deadLetter'[j] = "REPLAYED" => j.delivery \in processed
    BY <2>2 DEF DLInv, ReplayedIsProcessed
  <2> QED
    BY <1>2, <2>2, <2>3, NoticeDone
<1>4. CASE n.found # NoRow
  <2>1. /\ n.found \in Jobs /\ deadLetter[n.found] # "none"
        /\ n.found.delivery = n.job.delivery
        /\ deadLetter' = [deadLetter EXCEPT ![n.found] = "REPLAY_FAILED"]
    BY <1>1, <1>4 DEF HandleFailed, DLInv, NoticesSound
  <2>2. /\ deadLetter' \in [Jobs -> RowStatus]
        /\ deadLetter'[n.found] = "REPLAY_FAILED"
        /\ \A j \in Jobs : j # n.found => deadLetter'[j] = deadLetter[j]
    BY <1>1, <2>1 DEF RowStatus
  <2>3. \A j \in Jobs : deadLetter'[j] = "REPLAYED" => j.delivery \in processed
    BY <2>2 DEF DLInv, ReplayedIsProcessed
  <2>4. n.job.replay = 0 => deadLetter[n.job] # "none"
    <3>1. \E j \in Jobs : j.delivery = n.job.delivery /\ j.replay = 0 /\ deadLetter[j] # "none"
      BY <2>1 DEF DLInv, FirstRowFirst
    <3> QED
      BY <1>1, <3>1, JobsFacts
  <2>5. \A j \in Jobs : deadLetter[j] # "none" <=> deadLetter'[j] # "none"
    BY <2>1, <2>2
  <2> QED
    BY <1>1, <1>2, <2>2, <2>3, <2>4, <2>5, NoticeDone
<1> QED
  BY <1>3, <1>4

LEMMA HandleCompletedInv ==
    ASSUME DLInv, NEW n \in notices, HandleCompleted(n), UNCHANGED outboxVars
    PROVE  DLInv'
<1>1. /\ n.job \in Jobs /\ n.found \in Jobs \cup {NoRow} /\ deadLetter \in [Jobs -> RowStatus]
      /\ n.job.delivery \in processed
      /\ n.outcome # "failed"
  BY DEF DLInv, DLTypeOK, Notice, NoticesSound, HandleCompleted
<1>2. notices' = notices \ {n} /\ UNCHANGED <<missed, replaying>>
  BY DEF HandleCompleted
<1>3. deadLetter' = [deadLetter EXCEPT ![n.found] = "REPLAYED"]
  BY DEF HandleCompleted
<1>4. CASE n.found = NoRow
  <2>1. deadLetter' = deadLetter
    BY <1>1, <1>3, <1>4, UnreadIsNoJob
  <2> QED
    BY <1>1, <1>2, <2>1, NoticeDone DEF DLInv, ReplayedIsProcessed
<1>5. CASE n.found # NoRow
  <2>1. /\ n.found \in Jobs /\ deadLetter[n.found] # "none"
        /\ n.found.delivery \in processed
    BY <1>1, <1>5 DEF DLInv, NoticesSound
  <2>2. /\ deadLetter' \in [Jobs -> RowStatus]
        /\ deadLetter'[n.found] = "REPLAYED"
        /\ \A j \in Jobs : j # n.found => deadLetter'[j] = deadLetter[j]
    BY <1>1, <1>3, <2>1 DEF RowStatus
  <2>3. \A j \in Jobs : deadLetter'[j] = "REPLAYED" => j.delivery \in processed
    BY <2>1, <2>2 DEF DLInv, ReplayedIsProcessed
  <2>4. \A j \in Jobs : deadLetter[j] # "none" <=> deadLetter'[j] # "none"
    BY <2>1, <2>2
  <2> QED
    BY <1>1, <1>2, <2>2, <2>3, <2>4, NoticeDone
<1> QED
  BY <1>1, <1>4, <1>5

LEMMA MissInv ==
    ASSUME DLInv, NEW n \in notices, Miss(n)
    PROVE  DLInv'
<1>1. OutboxInv'
  BY FaultInv DEF Miss, DLInv
<1>2. JobsMove /\ NoneFails
  BY DEF Miss, JobsMove, NoneFails, Exhausted
<1>3. /\ notices' = notices \ {n}
      /\ missed' = missed \cup {<<n.at, n.job>>}
      /\ UNCHANGED <<job, attempts, deadLetter, replaying>>
  BY DEF Miss
<1>4. missed' \subseteq Listeners \X Jobs /\ notices' \subseteq Notice
  BY <1>3 DEF DLInv, DLTypeOK, Notice
<1>5. RowsInv'
  BY <1>1, <1>2, <1>3, <1>4, RowsKept
<1>6. FailureIsRecorded'
  <2> SUFFICES ASSUME NEW j \in Jobs, NEW k \in Listeners,
                      j.replay = 0, Exhausted(j)', <<k, j>> \notin missed',
                      ~ \E x \in notices' : x.at = k /\ x.job = j /\ x.outcome = "failed"
               PROVE  deadLetter'[j] # "none"
    BY DEF FailureIsRecorded
  <2>1. Exhausted(j) /\ <<k, j>> \notin missed /\ ~(n.at = k /\ n.job = j)
    BY <1>3 DEF Exhausted
  <2>2. ~ \E x \in notices : x.at = k /\ x.job = j /\ x.outcome = "failed"
    BY <1>3, <2>1
  <2> QED
    BY <1>3, <2>1, <2>2 DEF DLInv, FailureIsRecorded
<1> QED
  BY <1>1, <1>5, <1>6 DEF DLInv, RowsInv

LEMMA StartReplayInv ==
    ASSUME DLInv, NEW r \in Jobs, StartReplay(r)
    PROVE  DLInv'
<1>1. OutboxInv'
  BY StutterInv DEF DLInv, StartReplay
<1>2. UNCHANGED <<job, attempts, processed, notices, missed>>
  BY DEF outboxVars, StartReplay
<1>3. /\ deadLetter' \in [Jobs -> RowStatus]
      /\ deadLetter[r] # "none"
      /\ deadLetter'[r] = "REPLAYING"
      /\ \A j \in Jobs : j # r => deadLetter'[j] = deadLetter[j]
      /\ replaying' = replaying \cup {r}
  BY DEF StartReplay, DLInv, DLTypeOK, RowStatus
<1>4. DLTypeOK'
  BY <1>1, <1>2, <1>3 DEF DLInv, DLTypeOK, OutboxInv
<1>5. \A j \in Jobs : deadLetter[j] # "none" <=> deadLetter'[j] # "none"
  BY <1>3
<1>6. NoticesSound' /\ FailureIsRecorded'
  BY <1>2, <1>5 DEF DLInv, NoticesSound, FailureIsRecorded, Exhausted
<1>7. FirstRowFirst'
  BY <1>2, <1>3, <1>5 DEF DLInv, FirstRowFirst
<1>8. ReplayedIsProcessed'
  BY <1>2, <1>3 DEF DLInv, ReplayedIsProcessed
<1> QED
  BY <1>1, <1>4, <1>6, <1>7, <1>8 DEF DLInv

LEMMA EnqueueReplayInv ==
    ASSUME DLInv, NEW r \in Jobs, EnqueueReplay(r)
    PROVE  DLInv'
<1>1. PICK j \in Fresh(r.delivery) : AddJobs({j})
  BY DEF EnqueueReplay
<1>2. j \in Jobs /\ j.delivery = r.delivery
  BY DEF Fresh
<1>3. /\ r \in replaying
      /\ replaying' = replaying \ {r}
      /\ UNCHANGED <<event, batch, worker, processed, applied, faults>>
      /\ UNCHANGED <<deadLetter, notices, missed>>
  BY DEF EnqueueReplay
<1>4. /\ \A k \in Jobs : job[k] # "none" => job'[k] # "none"
      /\ \A k \in Jobs : k # j => job'[k] = job[k]
      /\ \A k \in Jobs : Exhausted(k)' => Exhausted(k)
  <2>1. {j} \in SUBSET Jobs /\ \A k \in Jobs : k # j => k \notin {j}
    BY <1>2
  <2> QED
    BY <1>1, <2>1, AddMoves DEF DLInv, OutboxInv
<1>5. OutboxInv'
  <2>1. EffectsInv'
    <3>1. {j} \in SUBSET Jobs /\ \A a, b \in {j} : a.delivery = b.delivery => a = b
      BY <1>2
    <3> QED
      BY <1>1, <1>3, <3>1, AddInv DEF DLInv
  <2>2. BatchSound' /\ PublishedIsQueued'
    BY <1>3, <1>4, RowsFrame DEF DLInv
  <2>3. TypeOK'
    <3>1. /\ job' \in [Jobs -> JobState]
          /\ attempts' \in [Jobs -> 0..MaxAttempts]
          /\ repeatable' \subseteq Deliveries
      <4>1. {j} \in SUBSET Jobs
        BY <1>2
      <4> QED
        BY <1>1, <4>1, AddFacts DEF DLInv, OutboxInv
    <3> QED
      BY <1>3, <3>1 DEF DLInv, OutboxInv, TypeOK
  <2> QED
    BY <2>1, <2>2, <2>3 DEF OutboxInv, EffectsInv
<1>6. DLTypeOK'
  BY <1>3, <1>5 DEF DLInv, DLTypeOK, OutboxInv
<1>7. NoticesSound'
  <2>1. \A n \in notices : n.job \in Jobs
    BY DEF DLInv, DLTypeOK, Notice
  <2> QED
    BY <1>3, <1>4, <2>1 DEF DLInv, NoticesSound
<1>8. FirstRowFirst'
  BY <1>2, <1>3, <1>4 DEF DLInv, FirstRowFirst
<1>9. FailureIsRecorded' /\ ReplayedIsProcessed'
  BY <1>3, <1>4 DEF DLInv, FailureIsRecorded, ReplayedIsProcessed
<1> QED
  BY <1>5, <1>6, <1>7, <1>8, <1>9 DEF DLInv

LEMMA AbandonReplayInv ==
    ASSUME DLInv, NEW r \in Jobs, AbandonReplay(r)
    PROVE  DLInv'
<1>1. OutboxInv'
  BY FaultInv DEF AbandonReplay, DLInv
<1>2. /\ replaying' \subseteq replaying
      /\ UNCHANGED <<job, attempts, processed, deadLetter, notices, missed>>
  BY DEF AbandonReplay
<1>3. DLTypeOK'
  BY <1>1, <1>2 DEF DLInv, DLTypeOK, OutboxInv
<1>4. NoticesSound' /\ FirstRowFirst' /\ FailureIsRecorded' /\ ReplayedIsProcessed'
  BY <1>2 DEF DLInv, NoticesSound, FirstRowFirst, FailureIsRecorded, Exhausted,
              ReplayedIsProcessed
<1> QED
  BY <1>1, <1>3, <1>4 DEF DLInv

-----------------------------------------------------------------------------
(* The theorems.                                                           *)

LEMMA DLInitInv ==
    ASSUME Init
    PROVE  DLInv
<1>1. OutboxInv
  BY InitInv DEF Init
<1>2. \A j \in Jobs : job[j] = "none"
  BY DEF Init, OutboxInit
<1>3. DLTypeOK
  BY <1>1 DEF Init, OutboxInv, DLTypeOK, RowStatus
<1>4. NoticesSound /\ ReplayedIsProcessed
  BY DEF Init, NoticesSound, ReplayedIsProcessed
<1>5. FirstRowFirst /\ FailureIsRecorded
  BY <1>2 DEF Init, FirstRowFirst, FailureIsRecorded, Exhausted
<1> QED
  BY <1>1, <1>3, <1>4, <1>5 DEF DLInv

LEMMA DLNextInv ==
    ASSUME DLInv, Next
    PROVE  DLInv'
<1>1. OutboxInv
  BY DEF DLInv
<1>2. ASSUME NEW e \in Events, Record(e), UNCHANGED dlVars
      PROVE  DLInv'
  BY <1>1, <1>2, RecordInv, PublisherMoves, QuietInv
<1>3. ASSUME NEW i \in Instances, Poll(i), UNCHANGED dlVars
      PROVE  DLInv'
  <2>1. OutboxInv'
    BY <1>1, <1>3, LockBatchInv, CommitBatchInv, AbortBatchInv, PublishInv DEF Poll
  <2> QED
    BY <1>1, <1>3, <2>1, PublisherMoves, QuietInv
<1>4. ASSUME NEW i \in Instances, NEW q \in Queues, Work(i, q) \/ Stall(i, q),
             UNCHANGED dlVars
      PROVE  DLInv'
  <2>1. OutboxInv'
    BY <1>1, <1>4, TakeInv, ApplyInv, MarkProcessedInv, StallInv DEF Work
  <2> QED
    BY <1>1, <1>4, <2>1, WorkerMoves, QuietInv
<1>5. ASSUME NEW j \in Jobs, Prune(j), UNCHANGED dlVars
      PROVE  DLInv'
  BY <1>1, <1>5, PruneInv, CrashPruneMoves, QuietInv
<1>6. ASSUME NEW n \in notices, Listen(n), UNCHANGED outboxVars
      PROVE  DLInv'
  BY <1>6, FindReplayingInv, HandleFailedInv, HandleCompletedInv DEF Listen
<1>7. ASSUME NEW r \in Jobs, StartReplay(r) \/ EnqueueReplay(r) \/ AbandonReplay(r)
      PROVE  DLInv'
  BY <1>7, StartReplayInv, EnqueueReplayInv, AbandonReplayInv
<1> QED
  BY <1>2, <1>3, <1>4, <1>5, <1>6, <1>7, DLReportInv, DLCrashInv, MissInv DEF Next

LEMMA DLStutterInv ==
    ASSUME DLInv, UNCHANGED vars
    PROVE  DLInv'
<1>1. OutboxInv' /\ UNCHANGED dlVars /\ UNCHANGED <<job, attempts, processed>>
  BY StutterInv DEF DLInv, vars, outboxVars
<1>2. JobsMove /\ NoneFails
  BY <1>1 DEF JobsMove, NoneFails, Exhausted
<1> QED
  BY <1>1, <1>2, QuietInv

\* Every reachable state of the outbox with its listeners and an operator satisfies the
\* invariant.
THEOREM DeadLettersSound == Spec => []DLInv
<1>1. DLInv /\ [Next]_vars => DLInv'
  BY DLNextInv, DLStutterInv
<1> QED
  BY DLInitInv, <1>1, PTL DEF Spec

\* The variables keep their types.
THEOREM DLTypeCorrect == Spec => []DLTypeOK
<1>1. DLInv => DLTypeOK
  BY DEF DLInv
<1> QED
  BY DeadLettersSound, <1>1, PTL

\* A job that used up its attempts has a row once a listener has dealt with its end.
THEOREM FailureRecorded == Spec => []FailureIsRecorded
<1>1. DLInv => FailureIsRecorded
  BY DEF DLInv
<1> QED
  BY DeadLettersSound, <1>1, PTL

\* A row reads REPLAYED only if the event has been processed in its queue.
THEOREM ReplayedProcessed == Spec => []ReplayedIsProcessed
<1>1. DLInv => ReplayedIsProcessed
  BY DEF DLInv
<1> QED
  BY DeadLettersSound, <1>1, PTL

\* Replays do not repeat an effect without a cause either.
THEOREM ReplaysRepeatForCause == Spec => []RepeatedForCause
<1>1. DLInv => RepeatedForCause
  BY DEF DLInv, OutboxInv
<1> QED
  BY DeadLettersSound, <1>1, PTL
=============================================================================
