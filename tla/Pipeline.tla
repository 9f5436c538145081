-------------------------------- MODULE Pipeline --------------------------------
(***************************************************************************)
(* One admitted job on its way through the worker tasks: process_transcript, *)
(* process_video_download, and process_slides or process_snapshots.  Tasks   *)
(* are messages of an at-least-once broker; they find each other through the  *)
(* job row (status, celery_task_id), the step rows (status, claim_token) and  *)
(* the outbox.  An action is one database transaction, or one call to the     *)
(* broker between two transactions; a worker may die, and the broker may      *)
(* refuse a message, between any two of them.                                 *)
(*                                                                           *)
(* A claim_token is minted per incarnation of a delivery.  Here a live        *)
(* incarnation's token is its message; when it ends, a token it leaves behind *)
(* becomes Orphan, since nobody can present it again.  A token means nothing  *)
(* unless its step is running: here it is cleared when the step settles, the  *)
(* code clears it when the step is next reset or overwrites it with a claim.  *)
(***************************************************************************)
EXTENDS Integers

CONSTANTS Ids,       \* task ids: messages that exist at one time
          None, Orphan,
          Modes,     \* what a job asks for: "captions", "snapshots", "slides", "both"
          Faults,    \* what may go wrong: a subset of FaultKinds
          Retried,   \* the steps whose failure a user may retry
          Overruns   \* a task may outlive ORPHANED_CLAIM_TTL_SECONDS

FaultKinds == {"kill",       \* a worker dies while it works
               "timeout",    \* the hard time limit ends a task
               "gap",        \* ... between its commit and the .delay that follows
               "redis",      \* the broker refuses a message
               "duplicate",  \* an outbox row is published twice
               "error"}      \* an exception before a handler is set up to record it

ASSUME PipelineAssumption ==
    /\ None \notin Ids /\ Orphan \notin Ids /\ None # Orphan
    /\ Modes \subseteq {"captions", "snapshots", "slides", "both"}
    /\ Faults \subseteq FaultKinds
    /\ Retried \subseteq {"transcribe", "download", "snapshots", "slides"}
    /\ Overruns \in BOOLEAN

VARIABLES
    mode,        \* processing_mode and extract_snapshots, fixed at creation: "both" is a
                 \* slide job that asks for snapshots too, as it does by default
    status,      \* processing_jobs.status
    taskId,      \* processing_jobs.celery_task_id
    admitted,    \* job_admissions.state = 'admitted'
    step, claim, \* job_steps.status, claim_token
    outbox,      \* stages with a pending outbox row
    creating,    \* the create request has not yet dispatched the job
    cancelling,  \* a cancel request is past its status check
    asked,       \* steps the user has retried (bound: once each of Retried)
    place,       \* where each message is: free, queued, or in which part of its task
    stage,       \* the task each message is for
    tries,       \* self.request.retries
    loaded       \* status and celery_task_id in the ORM object a task loaded

job      == <<mode, status, taskId, admitted>>
steps    == <<step, claim>>
requests == <<creating, cancelling, asked>>
broker   == <<place, stage, tries, loaded>>
vars     == <<job, steps, outbox, requests, broker>>

Stages == {"transcribe", "download", "snapshots", "slides"}
Visual == {"snapshots", "slides"}
SlideMode == mode \in {"slides", "both"}       \* processing_mode = slide_aware
Frames    == mode \in {"snapshots", "both"}    \* extract_snapshots

\* The step that process_transcript and process_video_download dispatch next.
Dependent == IF SlideMode THEN "slides" ELSE "snapshots"

Active == {"pending", "processing"}
Ended  == {"failed", "cancelled"}
Running == {"started", "working", "downloading", "handover", "loaded", "exhausted"}

TypeOK ==
    /\ mode \in Modes
    /\ status \in Active \cup Ended \cup {"completed"}
    /\ taskId \in Ids \cup {None}
    /\ admitted \in BOOLEAN /\ creating \in BOOLEAN /\ cancelling \in BOOLEAN
    /\ step \in [Stages -> {"pending", "running", "completed", "failed", "skipped"}]
    /\ claim \in [Stages -> Ids \cup {None, Orphan}]
    /\ outbox \subseteq Stages /\ asked \subseteq Stages
    /\ place \in [Ids -> {"free", "queued"} \cup Running]
    /\ stage \in [Ids -> Stages]
    /\ tries \in [Ids -> 0..2]
    /\ loaded \in [Ids -> [status : Active \cup Ended \cup {"completed"},
                           task : Ids \cup {None}]]

---------------------------------------------------------------------------------
(* job_steps.py *)

\* Mutant: any worker settles a running step.
OwnsRunning(m, s) == step[s] = "running" /\ m \in Ids

Owns(m, s) == step[s] = "running" /\ claim[s] = m

\* A claim older than the TTL: its worker is dead, the hard time limit has
\* killed it by then, unless the limit is configured above the TTL.
Overdue(s) == step[s] = "running" /\ (claim[s] = Orphan \/ Overruns)

\* Mutants: a running step can always be claimed; a finished one too.
ClaimableRunning(s) == status \notin Ended /\ step[s] \in {"pending", "failed", "running"}
ClaimableDone(s) ==
    status \notin Ended /\ (step[s] \in {"pending", "failed", "completed"} \/ Overdue(s))

Ready(s)     == status \notin Ended /\ step[s] \in {"pending", "failed"}
Claimable(s) == status \notin Ended /\ (step[s] \in {"pending", "failed"} \/ Overdue(s))

\* claim_step, complete_step and fail_step as the step and claim functions
\* they leave; the last two do nothing without the claim.
Claim(m, s) ==
    /\ step' = [step EXCEPT ![s] = "running"]
    /\ claim' = [claim EXCEPT ![s] = m]

Settle(m, s, result) ==
    /\ step' = IF Owns(m, s) THEN [step EXCEPT ![s] = result] ELSE step
    /\ claim' = [t \in Stages |-> IF claim[t] # m THEN claim[t]
                                  ELSE IF t = s THEN None ELSE Orphan]

\* The incarnation of m ends; what it still claims is orphaned.
Abandon(m) ==
    /\ claim' = [t \in Stages |-> IF claim[t] = m THEN Orphan ELSE claim[t]]
    /\ UNCHANGED step

---------------------------------------------------------------------------------
(* Messages *)

Take(m, s) == place[m] = "queued" /\ stage[m] = s
At(m, p)   == place[m] = p

Move(m, p) ==
    /\ place' = [place EXCEPT ![m] = p]
    /\ UNCHANGED <<stage, tries, loaded>>

\* The task loads the job and goes on to p.
LoadAndMove(m, p) ==
    /\ place' = [place EXCEPT ![m] = p]
    /\ loaded' = [loaded EXCEPT ![m] = [status |-> status, task |-> taskId]]
    /\ UNCHANGED <<stage, tries>>

\* Nothing loaded yet, or no longer.
NotLoaded == [status |-> "pending", task |-> None]

Ack(m) ==
    /\ place' = [place EXCEPT ![m] = "free"]
    /\ stage' = [stage EXCEPT ![m] = "transcribe"]
    /\ tries' = [tries EXCEPT ![m] = 0]
    /\ loaded' = [loaded EXCEPT ![m] = NotLoaded]

\* The message is in the queue again, with n attempts behind it: redelivered
\* (n unchanged) or retried by self.retry, under the same task id.
Requeue(m, n) ==
    /\ place' = [place EXCEPT ![m] = "queued"]
    /\ tries' = [tries EXCEPT ![m] = n]
    /\ loaded' = [loaded EXCEPT ![m] = NotLoaded]
    /\ UNCHANGED stage

\* .delay(job_id): a new message for stage s; m, if not None, is acknowledged.
Send(s, m) ==
    \E n \in Ids \ {taskId} :
        /\ place[n] = "free"
        /\ place' = [i \in Ids |-> IF i = n THEN "queued" ELSE IF i = m THEN "free" ELSE place[i]]
        /\ stage' = [i \in Ids |-> IF i = n THEN s ELSE IF i = m THEN "transcribe" ELSE stage[i]]
        /\ tries' = [i \in Ids |-> IF i \in {n, m} THEN 0 ELSE tries[i]]
        /\ loaded' = [i \in Ids |-> IF i = m THEN NotLoaded ELSE loaded[i]]

Keep   == UNCHANGED <<mode, requests>>
Release == admitted' = FALSE

---------------------------------------------------------------------------------
(* process_transcript *)

\* The conditional start update, with the guards before it: no other delivery
\* is installed, and the job is active or a failed one that is still admitted.
Startable(m) ==
    /\ taskId \in {None, m}
    /\ status \in Active \/ (status = "failed" /\ admitted)

StartTranscript(m) ==
    /\ Take(m, "transcribe") /\ Startable(m)
    /\ status' = "processing"
    /\ taskId' = m
    /\ Move(m, "started")
    /\ Keep /\ UNCHANGED <<admitted, steps, outbox>>

SkipTranscript(m) ==
    /\ Take(m, "transcribe") /\ ~Startable(m)
    /\ Ack(m)
    /\ Keep /\ UNCHANGED <<status, taskId, admitted, steps, outbox>>

\* The claim; _mark_stage_delivered consumes a row still pending.
ClaimTranscribe(m) ==
    /\ At(m, "started") /\ Claimable("transcribe")
    /\ Claim(m, "transcribe")
    /\ outbox' = outbox \ {"transcribe"}
    /\ Move(m, "working")
    /\ Keep /\ UNCHANGED <<status, taskId, admitted>>

\* No claim: the delivery is acknowledged; celery_task_id stays installed.
TranscribeRefused(m) ==
    /\ At(m, "started") /\ ~Ready("transcribe")
    /\ Ack(m)
    /\ Keep /\ UNCHANGED <<status, taskId, admitted, steps, outbox>>

\* The transcript is saved, its step completed (whether or not that succeeded)
\* and the download claimed, in one transaction.
Transcribed(m) ==
    /\ At(m, "working") /\ stage[m] = "transcribe" /\ Claimable("download")
    /\ step' = [s \in Stages |-> IF s = "download" THEN "running"
                                 ELSE IF Owns(m, s) THEN "completed" ELSE step[s]]
    /\ claim' = [s \in Stages |-> IF s = "download" THEN m
                                  ELSE IF Owns(m, s) THEN None ELSE claim[s]]
    /\ Move(m, "downloading")
    /\ Keep /\ UNCHANGED <<status, taskId, admitted, outbox>>

\* Without a download to do the job is completed, unless it ended meanwhile.
TranscriptOnly(m) ==
    /\ At(m, "working") /\ stage[m] = "transcribe" /\ ~Ready("download")
    /\ Ack(m)
    /\ IF status \in Ended
       THEN Abandon(m) /\ UNCHANGED <<status, taskId, admitted>>
       ELSE /\ Settle(m, "transcribe", "completed")
            /\ status' = "completed" /\ taskId' = None /\ Release
    /\ Keep /\ UNCHANGED outbox

\* ... or dispatches what the video is for, when it loaded the job with the video
\* there: the stage was reaped from a live worker, which has downloaded it since.
TranscriptAgain(m) ==
    /\ At(m, "working") /\ stage[m] = "transcribe"
    /\ step["download"] = "completed" /\ (SlideMode \/ Frames)
    /\ Settle(m, "transcribe", "completed")
    /\ taskId' = None
    /\ Move(m, "handover")
    /\ Keep /\ UNCHANGED <<status, admitted, outbox>>

\* No transcript: FAILED is written with no condition on the row.
TranscriptEmpty(m) ==
    /\ At(m, "working") /\ stage[m] = "transcribe"
    /\ Settle(m, "transcribe", "failed")
    /\ status' = "failed" /\ Release
    /\ Ack(m)
    /\ Keep /\ UNCHANGED <<taskId, outbox>>

\* An exception, at work or because the hand-over could not be sent.
TranscriptRaises(m) ==
    /\ stage[m] = "transcribe"
    /\ \/ At(m, "started") \/ At(m, "working")
       \/ At(m, "handover") /\ "redis" \in Faults
    /\ Settle(m, "transcribe", "failed")
    /\ IF tries[m] < 2
       THEN Requeue(m, tries[m] + 1) /\ UNCHANGED <<status, admitted>>
       ELSE /\ status' = IF status \in Active THEN "failed" ELSE status
            /\ Release /\ Ack(m)
    /\ Keep /\ UNCHANGED <<taskId, outbox>>

\* The download done in line; it commits the step and frees celery_task_id.
DownloadedInline(m) ==
    /\ At(m, "downloading")
    /\ IF status \in Ended \/ ~Owns(m, "download")
       THEN Settle(m, "download", "failed") /\ Ack(m) /\ UNCHANGED taskId
       ELSE Settle(m, "download", "completed") /\ Move(m, "handover") /\ taskId' = None
    /\ Keep /\ UNCHANGED <<status, admitted, outbox>>

\* Mutant: a failed download completes the job all the same.
InlineDownloadSwallowed(m) ==
    /\ At(m, "downloading")
    /\ Settle(m, "download", "failed")
    /\ IF status \in Ended THEN UNCHANGED <<status, admitted>>
       ELSE status' = "completed" /\ Release
    /\ taskId' = None
    /\ Ack(m)
    /\ Keep /\ UNCHANGED outbox

\* ... failed: left to the durable download-only task.
InlineDownloadFailed(m) ==
    /\ At(m, "downloading")
    /\ Settle(m, "download", "failed")
    /\ taskId' = None
    /\ outbox' = outbox \cup {"download"}
    /\ Ack(m)
    /\ Keep /\ UNCHANGED <<status, admitted>>

\* .delay of the dependent task, after the commit and not through the outbox.
HandOver(m) ==
    /\ At(m, "handover")
    /\ Send(Dependent, m)
    /\ Keep /\ UNCHANGED <<status, taskId, admitted, steps, outbox>>

---------------------------------------------------------------------------------
(* process_video_download *)

ClaimDownload(m) ==
    /\ Take(m, "download") /\ Claimable("download")
    /\ Claim(m, "download")
    /\ outbox' = outbox \ {"download"}
    /\ LoadAndMove(m, "working")
    /\ Keep /\ UNCHANGED <<status, taskId, admitted>>

DownloadRefused(m) ==
    /\ Take(m, "download") /\ ~Ready("download")
    /\ Ack(m)
    /\ Keep /\ UNCHANGED <<status, taskId, admitted, steps, outbox>>

\* An assignment to an ORM attribute is written only when it differs from the
\* value the task loaded.
Assigned(old, was, new) == IF was = new THEN old ELSE new

\* The dependent step is dispatched if it is still pending.
DownloadDone(m) ==
    /\ At(m, "working") /\ stage[m] = "download"
    /\ IF status \in Ended \/ ~Owns(m, "download")
       THEN Settle(m, "download", "failed") /\ Ack(m) /\ UNCHANGED <<status, taskId>>
       ELSE /\ Settle(m, "download", "completed")
            /\ IF step[Dependent] = "pending"
               THEN /\ status' = Assigned(status, loaded[m].status, "processing")
                    /\ taskId' = Assigned(taskId, loaded[m].task, None)
                    /\ Move(m, "handover")
               ELSE Ack(m) /\ UNCHANGED <<status, taskId>>
    /\ Keep /\ UNCHANGED <<admitted, outbox>>

\* Mutant: one attempt too many.
DownloadFailedOnceMore(m) ==
    /\ At(m, "working") /\ stage[m] = "download"
    /\ Settle(m, "download", "failed")
    /\ IF tries[m] <= 2 THEN Requeue(m, tries[m] + 1) ELSE Move(m, "exhausted")
    /\ Keep /\ UNCHANGED <<status, taskId, admitted, outbox>>

DownloadFailed(m) ==
    /\ At(m, "working") /\ stage[m] = "download"
    /\ Settle(m, "download", "failed")
    /\ IF tries[m] < 2 THEN Requeue(m, tries[m] + 1) ELSE Move(m, "exhausted")
    /\ Keep /\ UNCHANGED <<status, taskId, admitted, outbox>>

\* The broker refuses the hand-over: the exception leaves the task.
HandOverRefused(m) ==
    /\ At(m, "handover") /\ stage[m] = "download" /\ "redis" \in Faults
    /\ Ack(m)
    /\ Keep /\ UNCHANGED <<status, taskId, admitted, steps, outbox>>

Claimed == \E s \in Stages : step[s] = "running"

FailSteps ==
    /\ step' = [s \in Stages |-> IF step[s] = "pending" THEN "failed" ELSE step[s]]
    /\ UNCHANGED claim

\* Mutant: the job fails and keeps its admission.
DownloadExhaustedHolds(m) ==
    /\ At(m, "exhausted") /\ stage[m] = "download"
    /\ IF loaded[m].status \in Active /\ ~Claimed
       THEN /\ status' = "failed"
            /\ taskId' = Assigned(taskId, loaded[m].task, None)
            /\ FailSteps
       ELSE UNCHANGED <<status, taskId, steps>>
    /\ Ack(m)
    /\ Keep /\ UNCHANGED <<admitted, outbox>>

\* _terminalize_download_exhausted: the row is locked, but the status tested is
\* the one loaded when the task began.
DownloadExhausted(m) ==
    /\ At(m, "exhausted") /\ stage[m] = "download"
    /\ IF loaded[m].status \in Active /\ ~Claimed
       THEN /\ status' = "failed" /\ Release
            /\ taskId' = Assigned(taskId, loaded[m].task, None)
            /\ FailSteps
       ELSE UNCHANGED <<status, taskId, admitted, steps>>
    /\ Ack(m)
    /\ Keep /\ UNCHANGED outbox

---------------------------------------------------------------------------------
(* process_snapshots and process_slides *)

\* The guards, on the job as loaded; only slides looks at celery_task_id, and at
\* the mode.
Admissible(m) ==
    /\ status \in Active
    /\ stage[m] = "slides" => SlideMode /\ taskId \in {None, m}

TakeVisual(m) == \E s \in Visual : Take(m, s)

LoadVisual(m) ==
    /\ TakeVisual(m) /\ Admissible(m)
    /\ LoadAndMove(m, "loaded")
    /\ Keep /\ UNCHANGED <<status, taskId, admitted, steps, outbox>>

SkipVisual(m) ==
    /\ TakeVisual(m) /\ ~Admissible(m)
    /\ Ack(m)
    /\ Keep /\ UNCHANGED <<status, taskId, admitted, steps, outbox>>

\* Mutant: the claim writes the status, whatever the row says.
ClaimVisualWrites(m) ==
    /\ At(m, "loaded") /\ Claimable(stage[m])
    /\ Claim(m, stage[m])
    /\ status' = "processing"
    /\ taskId' = IF stage[m] = "slides" THEN m ELSE taskId
    /\ outbox' = outbox \ {stage[m]}
    /\ Move(m, "working")
    /\ Keep /\ UNCHANGED admitted

\* Slides install their task id with the claim; snapshots leave the job row.
ClaimVisual(m) ==
    /\ At(m, "loaded") /\ Claimable(stage[m])
    /\ Claim(m, stage[m])
    /\ IF stage[m] = "slides"
       THEN /\ status' = Assigned(status, loaded[m].status, "processing")
            /\ taskId' = Assigned(taskId, loaded[m].task, m)
       ELSE UNCHANGED <<status, taskId>>
    /\ outbox' = outbox \ {stage[m]}
    /\ Move(m, "working")
    /\ Keep /\ UNCHANGED admitted

VisualRefused(m) ==
    /\ At(m, "loaded") /\ ~Ready(stage[m])
    /\ Ack(m)
    /\ Keep /\ UNCHANGED <<status, taskId, admitted, steps, outbox>>

Snapshotting(m, p) == At(m, p) /\ stage[m] = "snapshots"
Sliding(m, p)      == At(m, p) /\ stage[m] = "slides"

\* The video is gone: in the transaction of the claim the job fails.
SnapshotsNoVideo(m) ==
    /\ Snapshotting(m, "loaded") /\ Claimable("snapshots")
    /\ step' = [step EXCEPT !["snapshots"] = "failed"]
    /\ claim' = [claim EXCEPT !["snapshots"] = None]
    /\ status' = "failed" /\ Release
    /\ Ack(m)
    /\ Keep /\ UNCHANGED <<taskId, outbox>>

\* Mutant: the finalizer does not look at the job again.
SnapshotsDoneBlindly(m) ==
    /\ Snapshotting(m, "working")
    /\ Ack(m)
    /\ IF ~Owns(m, "snapshots")
       THEN Abandon(m) /\ UNCHANGED <<status, admitted>>
       ELSE /\ Settle(m, "snapshots", "completed")
            /\ IF SlideMode THEN UNCHANGED <<status, admitted>>
               ELSE status' = "completed" /\ Release
    /\ Keep /\ UNCHANGED <<taskId, outbox>>

\* Finalized under the job lock, and only with the claim.  The job of a slide
\* job is left to its slides.
SnapshotsDone(m) ==
    /\ Snapshotting(m, "working")
    /\ Ack(m)
    /\ IF status \in Ended \/ ~Owns(m, "snapshots")
       THEN Abandon(m) /\ UNCHANGED <<status, admitted>>
       ELSE /\ Settle(m, "snapshots", "completed")
            /\ IF SlideMode THEN UNCHANGED <<status, admitted>>
               ELSE status' = "completed" /\ Release
    /\ Keep /\ UNCHANGED <<taskId, outbox>>

\* The exception path fails the job with or without the claim, but no slide job.
SnapshotsFailed(m) ==
    /\ Snapshotting(m, "loaded") \/ Snapshotting(m, "working")
    /\ Settle(m, "snapshots", "failed")
    /\ IF SlideMode THEN UNCHANGED <<status, admitted>>
       ELSE status' = (IF status \in Active THEN "failed" ELSE status) /\ Release
    /\ Ack(m)
    /\ Keep /\ UNCHANGED <<taskId, outbox>>

\* No sidecar slot: one retry, then the job is given up.
SlidesNoSlot(m) ==
    /\ Sliding(m, "loaded")
    /\ IF tries[m] < 1 THEN Requeue(m, tries[m] + 1) ELSE Move(m, "exhausted")
    /\ Keep /\ UNCHANGED <<status, taskId, admitted, steps, outbox>>

\* _terminalize_capacity_exhausted: the status is read under the lock.
SlidesExhausted(m) ==
    /\ Sliding(m, "exhausted")
    /\ IF status \in Active /\ ~Claimed
       THEN status' = "failed" /\ taskId' = None /\ Release /\ FailSteps
       ELSE UNCHANGED <<status, taskId, admitted, steps>>
    /\ Ack(m)
    /\ Keep /\ UNCHANGED outbox

\* _finish: slides are optional, so their failure completes the job too.
SlidesEnd(m, result) ==
    /\ Sliding(m, "working")
    /\ Ack(m)
    /\ IF status \in Ended
       THEN Settle(m, "slides", "failed") /\ UNCHANGED <<status, taskId, admitted>>
       ELSE IF ~Owns(m, "slides")
       THEN Abandon(m) /\ UNCHANGED <<status, taskId, admitted>>
       ELSE Settle(m, "slides", result) /\ status' = "completed" /\ taskId' = None /\ Release
    /\ Keep /\ UNCHANGED outbox

\* An exception before _finish exists: nothing is recorded.
SlidesRaises(m) ==
    /\ "error" \in Faults
    /\ Sliding(m, "loaded") \/ Sliding(m, "working")
    /\ Abandon(m)
    /\ Ack(m)
    /\ Keep /\ UNCHANGED <<status, taskId, admitted, outbox>>

---------------------------------------------------------------------------------
(* Dispatch, maintenance, users and failures *)

\* publish_outbox: .delay, and the row is marked published.
Publish(s) ==
    /\ s \in outbox
    /\ Send(s, None)
    /\ outbox' = outbox \ {s}
    /\ Keep /\ UNCHANGED <<status, taskId, admitted, steps>>

\* The publisher dies after .delay: its claim rolls back, the row is pending.
PublishAgain(s) ==
    /\ "duplicate" \in Faults /\ s \in outbox
    /\ Send(s, None)
    /\ Keep /\ UNCHANGED <<status, taskId, admitted, steps, outbox>>

\* _create_and_dispatch_job found nothing to publish (a sweep was faster, or
\* the broker hiccuped) and sends the task itself.
DispatchDirectly ==
    /\ "duplicate" \in Faults /\ creating
    /\ Send("transcribe", None)
    /\ creating' = FALSE
    /\ UNCHANGED <<job, steps, outbox, cancelling, asked>>

\* Mutant: the dead delivery stays installed.
ReapKeepsTask(s) ==
    /\ Overdue(s) /\ status = "processing"
    /\ step' = [step EXCEPT ![s] = "pending"]
    /\ claim' = [claim EXCEPT ![s] = None]
    /\ outbox' = outbox \cup {s}
    /\ Keep /\ UNCHANGED <<status, taskId, admitted, broker>>

\* reap_orphaned_steps.
Reap(s) ==
    /\ Overdue(s) /\ status = "processing"
    /\ step' = [step EXCEPT ![s] = "pending"]
    /\ claim' = [claim EXCEPT ![s] = None]
    /\ taskId' = None
    /\ outbox' = outbox \cup {s}
    /\ Keep /\ UNCHANGED <<status, admitted, broker>>

\* retry_job_step: reset and outbox row in one transaction.
RetryStep(s) ==
    /\ step[s] = "failed" /\ s \in Retried \ asked
    /\ asked' = asked \cup {s}
    /\ step' = [step EXCEPT ![s] = "pending"]
    /\ claim' = [claim EXCEPT ![s] = None]
    /\ outbox' = outbox \cup {s}
    /\ UNCHANGED <<job, creating, cancelling, broker>>

CancelCheck ==
    /\ status \in Active
    /\ cancelling' = TRUE
    /\ UNCHANGED <<job, steps, outbox, creating, asked, broker>>

\* The revoke that follows reaches the installed delivery, or comes too late.
CancelCommit ==
    /\ cancelling
    /\ cancelling' = FALSE
    /\ status' = "cancelled" /\ taskId' = None /\ Release
    /\ \/ UNCHANGED <<broker, steps>>
       \/ taskId # None /\ place[taskId] # "free" /\ Ack(taskId) /\ Abandon(taskId)
    /\ UNCHANGED <<mode, outbox, creating, asked>>

\* A worker dies; late acknowledgement redelivers the message.
Die(m) ==
    /\ place[m] \in Running
    /\ (IF At(m, "handover") THEN "gap" ELSE "kill") \in Faults
    /\ Requeue(m, tries[m])
    /\ Abandon(m)
    /\ Keep /\ UNCHANGED <<status, taskId, admitted, outbox>>

\* task_time_limit: the worker is killed too, but Celery acknowledges a message
\* that timed out (acks_on_failure_or_timeout is not changed from its default).
TimeOut(m) ==
    /\ "timeout" \in Faults
    /\ At(m, "working") \/ At(m, "downloading")
    /\ Ack(m)
    /\ Abandon(m)
    /\ Keep /\ UNCHANGED <<status, taskId, admitted, outbox>>

---------------------------------------------------------------------------------
Init ==
    /\ mode \in Modes
    /\ status = "pending" /\ taskId = None /\ admitted = TRUE
    /\ step = [s \in Stages |->
                 IF \/ s = "transcribe"
                    \/ s = "download" /\ mode # "captions"
                    \/ s = "snapshots" /\ Frames
                    \/ s = "slides" /\ SlideMode
                 THEN "pending" ELSE "skipped"]
    /\ claim = [s \in Stages |-> None]
    /\ outbox = {"transcribe"}
    /\ creating = TRUE /\ cancelling = FALSE /\ asked = {}
    /\ place = [m \in Ids |-> "free"]
    /\ stage = [m \in Ids |-> "transcribe"]
    /\ tries = [m \in Ids |-> 0]
    /\ loaded = [m \in Ids |-> NotLoaded]

\* A delivery is taken up, and claims its stage or finds it claimed or done ...
Receives(m) == StartTranscript(m) \/ SkipTranscript(m) \/ LoadVisual(m) \/ SkipVisual(m)
Begins(m) ==
    \/ ClaimTranscribe(m) \/ TranscribeRefused(m)
    \/ ClaimDownload(m) \/ DownloadRefused(m)
    \/ ClaimVisual(m) \/ VisualRefused(m)

\* ... does it, with success or not, and hands over to the next.
Succeeds(m) ==
    \/ Transcribed(m) \/ TranscriptOnly(m) \/ TranscriptAgain(m)
    \/ DownloadedInline(m) \/ DownloadDone(m)
    \/ SnapshotsDone(m) \/ SlidesEnd(m, "completed")
Fails(m) ==
    \/ TranscriptEmpty(m) \/ TranscriptRaises(m) \/ InlineDownloadFailed(m)
    \/ DownloadFailed(m) \/ HandOverRefused(m)
    \/ SnapshotsNoVideo(m) \/ SnapshotsFailed(m)
    \/ SlidesNoSlot(m) \/ SlidesEnd(m, "failed") \/ SlidesRaises(m)
Concludes(m) == HandOver(m) \/ DownloadExhausted(m) \/ SlidesExhausted(m)

Task(m) == Receives(m) \/ Begins(m) \/ Succeeds(m) \/ Concludes(m)

Next ==
    \/ \E m \in Ids : Task(m) \/ Fails(m) \/ Die(m) \/ TimeOut(m)
    \/ \E s \in Stages : Publish(s) \/ PublishAgain(s) \/ Reap(s) \/ RetryStep(s)
    \/ DispatchDirectly \/ CancelCheck \/ CancelCommit

Spec == Init /\ [][Next]_vars

\* The maintenance loop sweeps and reaps, and workers consume.  A stage is not
\* killed for ever: begun again and again, it is claimed and done some day.
FairSpec ==
    /\ Spec
    /\ \A s \in Stages : WF_vars(Publish(s)) /\ WF_vars(Reap(s))
    /\ \A m \in Ids : /\ WF_vars(Task(m))
                      /\ SF_vars(Begins(m))
                      /\ SF_vars(Succeeds(m))

---------------------------------------------------------------------------------
(* Properties *)

\* The claim token gives each stage to one live worker at a time, across
\* redelivery, duplicate messages, reaping and user retries.
OneWorkerPerStep ==
    \A m, n \in Ids :
        m # n /\ stage[m] = stage[n] => ~(At(m, "working") /\ At(n, "working"))

\* "never report a false completed conversion" (tasks.py): a job becomes
\* completed only when its transcript, its video and the step that the video is
\* for have been done; slides are optional, they may have failed.  What nobody
\* does is the snapshots of a slide job: they are left pending, and alone.
CompletedTruthfully ==
    [][status # "completed" /\ status' = "completed"
       => /\ step'["transcribe"] = "completed"
          /\ step'["download"] \in {"completed", "skipped"}
          /\ \/ step'[Dependent] \in {"completed", "skipped"}
             \/ SlideMode /\ step'["slides"] = "failed"
          /\ \A s \in Stages :
                step'[s] \in {"pending", "running"} => s = "snapshots" /\ SlideMode]_vars

\* A failed or cancelled job is never resurrected, by whatever worker comes late.
EndedIsFinal == [][(status \in Ended) => (status' \in Ended)]_vars

\* A completed conversion is never reopened: its admission has been released.
NeverReopened == [][(status = "completed") => (status' \notin Active)]_vars

\* A stage that is done is never done again.
DoneOnce == [][\A s \in Stages : step[s] = "completed" => step'[s] = "completed"]_vars

\* Fencing: a running step is settled only in a step of the worker whose token
\* it carries (or that takes it over in the same transaction), even when the
\* reaper or a reclaim takes it from a worker that is still alive.
SettledByOwner ==
    [][\A s \in Stages :
          step[s] = "running" /\ step'[s] \in {"completed", "failed"}
          => \E m \in Ids :
                /\ place'[m] # place[m]
                /\ \/ claim[s] = m /\ place[m] \in {"working", "downloading"}
                   \/ stage[m] = s /\ place[m] = "loaded"]_vars

\* The job holds its admission exactly as long as it is active.
HeldWhileActive == admitted <=> status \in Active

\* The outbox and the reaper close "the commit-then-crash dispatch gap"
\* (models.py): an admitted job comes to an end.
Ends == <>(status \notin Active)
=================================================================================
