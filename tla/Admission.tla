------------------------------- MODULE Admission --------------------------------
(***************************************************************************)
(* Admission control: which jobs may run, under a global and a per-user     *)
(* limit on active jobs.  The state is that of the tables processing_jobs,  *)
(* job_admissions and admission_counters, and of the API replicas and       *)
(* workers that are between two transactions.  One action is one database   *)
(* transaction; row locks (job, then admission, then counters) make it      *)
(* atomic.  What is NOT atomic in the code is not atomic here: a status     *)
(* read before the lock, a candidate list read before its rows are locked,  *)
(* a worker whose decision is based on an earlier read.                     *)
(***************************************************************************)
EXTENDS Integers, FiniteSets

CONSTANTS Jobs, Users, Owner, Global,
          Pinned,        \* jobs with an explicit sidecar preference
          Schedulers,    \* API replicas, each runs a scheduler loop
          Batch,         \* how many candidates one promotion pass looks at
          GlobalLimits,  \* the configured global limits a restart may bring
          UserLimits     \* the configured per-user limits a restart may bring

Keys == Users \cup {Global}

ASSUME AdmissionAssumption ==
    /\ IsFiniteSet(Jobs)
    /\ Owner \in [Jobs -> Users]
    /\ Global \notin Users
    /\ Pinned \subseteq Jobs
    /\ Batch \in Nat \ {0}
    /\ GlobalLimits \subseteq Nat /\ GlobalLimits # {}
    /\ UserLimits \subseteq Nat /\ UserLimits # {}

VARIABLES
    status,      \* processing_jobs.status; "absent" before creation
    adm,         \* job_admissions.state; "none" when there is no row
    ahead,       \* ahead[j]: the jobs that were queued when j entered the queue:
                 \* the order of job_admissions.queued_at
    dispatched,  \* jobs whose first-stage outbox row has been written
    active,      \* admission_counters.active
    limit,       \* admission_counters.limit
    laneUp,      \* the preferred sidecar's cached telemetry status is "ok"
    candidates,  \* per scheduler: ids read by promotion, not yet looked at
    cancelling,  \* cancel requests past the status check, before the lock
    deleting,    \* delete requests past the status check
    running      \* jobs a worker is executing (possibly a stale worker)

rows     == <<status, adm, ahead, dispatched, active>>
requests == <<candidates, cancelling, deleting>>
vars     == <<rows, limit, laneUp, requests, running>>

ActiveStatus   == {"pending", "processing"}
TerminalStatus == {"completed", "failed", "cancelled"}
FinishedState  == {"finished", "failed"}

TypeOK ==
    /\ status \in [Jobs -> {"absent", "deleted"} \cup ActiveStatus \cup TerminalStatus]
    /\ adm \in [Jobs -> {"none", "queued", "admitted"} \cup FinishedState]
    /\ ahead \in [Jobs -> SUBSET Jobs]
    /\ dispatched \in SUBSET Jobs
    /\ active \in [Keys -> Nat]
    /\ limit \in [Keys -> Nat]
    /\ laneUp \in BOOLEAN
    /\ candidates \in [Schedulers -> SUBSET Jobs]
    /\ cancelling \in SUBSET Jobs
    /\ deleting \in SUBSET Jobs
    /\ running \in SUBSET Jobs

---------------------------------------------------------------------------------
(* admission.py *)

ChargedTo(j) == {Global, Owner[j]}

\* Mutant: the limit itself is let through (> for >=).
AtLimitOffByOne(k) == limit[k] > 0 /\ active[k] > limit[k]

\* A limit of 0 or less switches the check off.
AtLimit(k) == limit[k] > 0 /\ active[k] >= limit[k]

\* _write_admission(QUEUED): queued_at is set once, a re-queued row keeps it.
Queue(j) ==
    /\ ahead' = IF adm[j] = "queued" THEN ahead
                ELSE [ahead EXCEPT ![j] = {i \in Jobs : adm[i] = "queued"}]
    /\ adm' = [adm EXCEPT ![j] = "queued"]
    /\ UNCHANGED <<active, dispatched>>

\* Both counters, the admission row and the outbox row, in one transaction.
Admit(j) ==
    /\ adm' = [adm EXCEPT ![j] = "admitted"]
    /\ ahead' = [ahead EXCEPT ![j] = {}]
    /\ active' = [k \in Keys |-> IF k \in ChargedTo(j) THEN active[k] + 1 ELSE active[k]]
    /\ dispatched' = dispatched \cup {j}

\* An explicit preference fails closed on any status but "ok"; the limits are
\* read under the counter locks.
MustQueue(j) == (j \in Pinned /\ ~laneUp) \/ \E k \in ChargedTo(j) : AtLimit(k)

AdmitOrQueue(j) == IF MustQueue(j) THEN Queue(j) ELSE Admit(j)

\* Mutant: a duplicate terminal write decrements again.
FinishTwice(j, target) ==
    /\ adm' = IF adm[j] \in {"admitted", "queued"}
              THEN [adm EXCEPT ![j] = target] ELSE adm
    /\ active' = [k \in Keys |-> IF adm[j] # "none" /\ k \in ChargedTo(j) /\ active[k] > 0
                                 THEN active[k] - 1 ELSE active[k]]
    /\ ahead' = [ahead EXCEPT ![j] = {}]
    /\ UNCHANGED dispatched

\* Mutant: the decrement is neither conditional nor clamped at zero.
FinishUnclamped(j, target) ==
    /\ adm' = IF adm[j] \in {"admitted", "queued"}
              THEN [adm EXCEPT ![j] = target] ELSE adm
    /\ active' = [k \in Keys |-> IF k \in ChargedTo(j) THEN active[k] - 1 ELSE active[k]]
    /\ ahead' = [ahead EXCEPT ![j] = {}]
    /\ UNCHANGED dispatched

\* finish_job_admission: only the transaction that moves the row out of
\* "admitted" decrements, and never below zero; a queued row just ends.
FinishAdmission(j, target) ==
    /\ adm' = IF adm[j] \in {"admitted", "queued"}
              THEN [adm EXCEPT ![j] = target] ELSE adm
    /\ active' = [k \in Keys |-> IF adm[j] = "admitted" /\ k \in ChargedTo(j) /\ active[k] > 0
                                 THEN active[k] - 1 ELSE active[k]]
    /\ ahead' = [ahead EXCEPT ![j] = {}]
    /\ UNCHANGED dispatched

---------------------------------------------------------------------------------
(* The API *)

\* _create_and_dispatch_job: the job row and its admission commit together.
Create(j) ==
    /\ status[j] = "absent"
    /\ status' = [status EXCEPT ![j] = "pending"]
    /\ AdmitOrQueue(j)
    /\ UNCHANGED <<limit, laneUp, requests, running>>

\* cancel_job reads the status first ...
CancelCheck(j) ==
    /\ status[j] \in ActiveStatus
    /\ cancelling' = cancelling \cup {j}
    /\ UNCHANGED <<rows, limit, laneUp, candidates, deleting, running>>

\* ... then locks the row and writes 'cancelled' without reading it again.
CancelCommit(j) ==
    /\ j \in cancelling
    /\ cancelling' = cancelling \ {j}
    /\ IF status[j] = "deleted"
       THEN UNCHANGED rows
       ELSE /\ status' = [status EXCEPT ![j] = "cancelled"]
            /\ FinishAdmission(j, "failed")
    /\ UNCHANGED <<limit, laneUp, candidates, deleting, running>>

\* delete_job refuses active jobs, releases the admission "belt and braces" ...
DeleteFinish(j) ==
    /\ status[j] \in TerminalStatus
    /\ deleting' = deleting \cup {j}
    /\ FinishAdmission(j, "finished")
    /\ UNCHANGED <<status, limit, laneUp, candidates, cancelling, running>>

\* ... and deletes the row, with its admission and outbox rows, in a second one.
DeleteRow(j) ==
    /\ j \in deleting
    /\ deleting' = deleting \ {j}
    /\ status' = [status EXCEPT ![j] = "deleted"]
    /\ adm' = [adm EXCEPT ![j] = "none"]
    /\ ahead' = [ahead EXCEPT ![j] = {}]
    /\ dispatched' = dispatched \ {j}
    /\ UNCHANGED <<active, limit, laneUp, candidates, cancelling, running>>

\* An API restart drops what the processes were in the middle of and
\* reconciles the limits from the settings; active counts are not touched.
Restart(g, u) ==
    /\ limit' = [k \in Keys |-> IF k = Global THEN g ELSE u]
    /\ candidates' = [s \in Schedulers |-> {}]
    /\ cancelling' = {}
    /\ deleting' = {}
    /\ UNCHANGED <<rows, laneUp, running>>

LaneChanges ==
    /\ laneUp' = ~laneUp
    /\ UNCHANGED <<rows, limit, requests, running>>

---------------------------------------------------------------------------------
(* The scheduler loop *)

Promotable == {j \in Jobs : adm[j] = "queued" /\ status[j] \in ActiveStatus}

\* ORDER BY queued_at LIMIT Batch, read before any lock is taken.
OldestPromotable ==
    {j \in Promotable : Cardinality(Promotable \cap ahead[j]) < Batch}

Discover(s) ==
    /\ candidates[s] = {}
    /\ Promotable # {}
    /\ candidates' = [candidates EXCEPT ![s] = OldestPromotable]
    /\ UNCHANGED <<rows, limit, laneUp, cancelling, deleting, running>>

\* Mutant: the candidate list is trusted, nothing is re-validated.
PromoteStale(s, j) ==
    /\ j \in candidates[s]
    /\ candidates[s] \cap ahead[j] = {}
    /\ candidates' = [candidates EXCEPT ![s] = @ \ {j}]
    /\ AdmitOrQueue(j)
    /\ UNCHANGED <<status, limit, laneUp, cancelling, deleting, running>>

\* Mutant: the pass stops at the first candidate that must stay queued.
PromoteInOrder(s, j) ==
    /\ j \in candidates[s]
    /\ candidates[s] \cap ahead[j] = {}
    /\ candidates' = [candidates EXCEPT ![s] = IF MustQueue(j) THEN {} ELSE @ \ {j}]
    /\ IF j \in Promotable
       THEN AdmitOrQueue(j) /\ UNCHANGED status
       ELSE UNCHANGED rows
    /\ UNCHANGED <<limit, laneUp, cancelling, deleting, running>>

\* One candidate: lock job and admission, re-validate both, admit or re-queue.
Promote(s, j) ==
    /\ j \in candidates[s]
    /\ candidates[s] \cap ahead[j] = {}
    /\ candidates' = [candidates EXCEPT ![s] = @ \ {j}]
    /\ IF j \in Promotable
       THEN AdmitOrQueue(j) /\ UNCHANGED status
       ELSE UNCHANGED rows
    /\ UNCHANGED <<limit, laneUp, cancelling, deleting, running>>

---------------------------------------------------------------------------------
(* The workers, as admission sees them *)

\* FAILED is startable while admission is held: a retry, not a redelivery.
Startable == {j \in Jobs : \/ status[j] \in ActiveStatus
                           \/ status[j] = "failed" /\ adm[j] = "admitted"}

\* Mutant: the start update carries no condition on the job's status.
StartAnyway(j) ==
    /\ j \in dispatched \ running
    /\ status' = [status EXCEPT ![j] = "processing"]
    /\ running' = running \cup {j}
    /\ UNCHANGED <<adm, ahead, dispatched, active, limit, laneUp, requests>>

\* The conditional start update: a delivery of the first stage begins, or a
\* redelivery begins again.
Start(j) ==
    /\ j \in (dispatched \cap Startable) \ running
    /\ status' = [status EXCEPT ![j] = "processing"]
    /\ running' = running \cup {j}
    /\ UNCHANGED <<adm, ahead, dispatched, active, limit, laneUp, requests>>

\* Mutant: the terminal write forgets the admission.
CompleteWithoutRelease(j) ==
    /\ j \in running
    /\ running' = running \ {j}
    /\ IF status[j] \in {"cancelled", "failed", "deleted"}
       THEN UNCHANGED rows
       ELSE /\ status' = [status EXCEPT ![j] = "completed"]
            /\ UNCHANGED <<adm, ahead, dispatched, active>>
    /\ UNCHANGED <<limit, laneUp, requests>>

\* The last stage finishes: the status is re-read under the job lock, so a
\* cancellation or failure that won is left alone.
Complete(j) ==
    /\ j \in running
    /\ running' = running \ {j}
    /\ IF status[j] \in {"cancelled", "failed", "deleted"}
       THEN UNCHANGED rows
       ELSE /\ status' = [status EXCEPT ![j] = "completed"]
            /\ FinishAdmission(j, "finished")
    /\ UNCHANGED <<limit, laneUp, requests>>

\* Retries or capacity exhausted: a conditional write on an active status.
Exhaust(j) ==
    /\ j \in running
    /\ running' = running \ {j}
    /\ IF status[j] = "deleted"
       THEN UNCHANGED rows
       ELSE /\ status' = IF status[j] \in ActiveStatus
                         THEN [status EXCEPT ![j] = "failed"] ELSE status
            /\ FinishAdmission(j, "failed")
    /\ UNCHANGED <<limit, laneUp, requests>>

\* No transcript could be generated: the failure is written from the state the
\* worker loaded when it started, with no condition on the row.  Exhausted
\* downloads do the same: under the row lock, they test the status they loaded.
FailEmpty(j) ==
    /\ j \in running
    /\ running' = running \ {j}
    /\ IF status[j] = "deleted"
       THEN UNCHANGED rows
       ELSE /\ status' = [status EXCEPT ![j] = "failed"]
            /\ FinishAdmission(j, "failed")
    /\ UNCHANGED <<limit, laneUp, requests>>

\* The worker process dies, or is terminated by a revoke; the broker keeps the
\* message, so Start is enabled again.
Die(j) ==
    /\ j \in running
    /\ running' = running \ {j}
    /\ UNCHANGED <<rows, limit, laneUp, requests>>

---------------------------------------------------------------------------------
Init ==
    /\ status = [j \in Jobs |-> "absent"]
    /\ adm = [j \in Jobs |-> "none"]
    /\ ahead = [j \in Jobs |-> {}]
    /\ dispatched = {}
    /\ active = [k \in Keys |-> 0]
    /\ \E g \in GlobalLimits, u \in UserLimits :
          limit = [k \in Keys |-> IF k = Global THEN g ELSE u]
    /\ laneUp \in BOOLEAN
    /\ candidates = [s \in Schedulers |-> {}]
    /\ cancelling = {} /\ deleting = {} /\ running = {}

Api(j)    == Create(j) \/ CancelCheck(j) \/ CancelCommit(j) \/ DeleteFinish(j) \/ DeleteRow(j)
WorkerEnd(j) == Complete(j) \/ Exhaust(j) \/ FailEmpty(j)
Worker(j) == Start(j) \/ WorkerEnd(j) \/ Die(j)
Scheduler(s) == Discover(s) \/ \E j \in Jobs : Promote(s, j)

Next ==
    \/ \E j \in Jobs : Api(j) \/ Worker(j)
    \/ \E s \in Schedulers : Scheduler(s)
    \/ \E g \in GlobalLimits, u \in UserLimits : Restart(g, u)
    \/ LaneChanges

Spec == Init /\ [][Next]_vars

\* A replica keeps sweeping, and not every one of its passes is cut short by a
\* restart before it reaches a given candidate; a published message is
\* eventually consumed (acks_late redelivers it), and not every delivery of a
\* job is killed.  Nothing is assumed of sidecars, users or operators.
Fairness ==
    /\ \A s \in Schedulers :
          WF_vars(Discover(s)) /\ \A j \in Jobs : SF_vars(Promote(s, j))
    /\ \A j \in Jobs : WF_vars(Start(j)) /\ SF_vars(WorkerEnd(j))

FairSpec == Spec /\ Fairness

---------------------------------------------------------------------------------
(* Properties *)

\* The jobs that hold capacity, and those of them that key k counts.
Holders == {j \in Jobs : adm[j] = "admitted"}
HoldersOf(k) == {j \in Holders : k = Global \/ Owner[j] = k}

\* Counters never drift: after any interleaving of admissions, promotions by
\* several replicas, duplicate terminal writes, cancellations, deletions and
\* restarts, each admission_counters row equals the number of admitted jobs.
CountersExact == \A k \in Keys : active[k] = Cardinality(HoldersOf(k))

\* No leak: a job in a terminal state holds no capacity and no queue place,
\* whichever of the racing writers made it terminal.
TerminalReleased ==
    \A j \in Jobs : status[j] \in TerminalStatus => adm[j] \in FinishedState

\* The converse: nothing runs outside admission.  An active, started job is
\* admitted, and every admitted job has had its first stage written to the
\* outbox, so it cannot hold capacity without anything that would run it.
RunsOnlyAdmitted ==
    /\ \A j \in Jobs : status[j] = "processing" => adm[j] = "admitted"
    /\ Holders \subseteq dispatched

\* Admission control implements the pool of capacity: a job is admitted only
\* when the jobs that really hold capacity leave room under both limits, and a
\* release gives back exactly one place.
Pool == INSTANCE CapacityPool WITH held <- Holders
ImplementsPool == Pool!PoolSpec

\* Exactly-once release: a finished admission never comes back to life; the
\* only thing that can still happen to it is the deletion of its job.
FinishedIsFinal ==
    [][\A j \in Jobs : adm[j] \in FinishedState => adm'[j] \in {adm[j], "none"}]_vars

\* A cancel request is answered "Only pending or processing jobs can be
\* cancelled" for any other status (routes/jobs.py).
OnlyActiveIsCancelled ==
    [][\A j \in Jobs : status[j] # "cancelled" /\ status'[j] = "cancelled"
                        => status[j] \in ActiveStatus]_vars

\* "when capacity has freed, a queued job becomes admitted" (scheduler.py): a
\* job that does not insist on a sidecar leaves the queue, even while a job
\* ahead of it waits for a lane that is down.
QueueMoves == \A j \in Jobs \ Pinned : adm[j] = "queued" ~> adm[j] # "queued"
=================================================================================
