-------------------------------- MODULE Summarize --------------------------------
(***************************************************************************)
(* The summary of one job: the requests that ask for it (POST summarize, step  *)
(* retry, cancel), the outbox rows that carry them, the deliveries of           *)
(* summarize_transcript_task that work on them, and the reaper.  A generation    *)
(* (processing_jobs.force_generation) numbers the requests; a delivery carries   *)
(* the one it was dispatched for and tests it, under the job-row lock, before     *)
(* it deletes, stores or completes anything.                                     *)
(*                                                                             *)
(* An action is one database transaction, or one call to the broker between     *)
(* two.  Claim tokens are as in Pipeline: a live delivery's is its message.      *)
(***************************************************************************)
EXTENDS Integers, FiniteSets

CONSTANTS Ids,         \* task ids: messages that exist at one time
          None, Orphan,
          Busy,        \* the task id of the conversion's own task
          MaxGen,      \* bound on force_generation
          MaxRows,     \* bound on the outbox rows of the stage
          MaxDocs,     \* bound on the documents of one generation
          MaxRetries,  \* max_retries of the task
          Asks,        \* what users may ask for: a subset of AskKinds
          Scenarios    \* the conversion's state at first, and what may go wrong

AskKinds   == {"summarize", "force", "retry", "cancel"}
FaultKinds == {"kill",       \* a worker dies, its message is redelivered
               "timeout",    \* the hard time limit: killed and acknowledged
               "gap",        \* a publisher dies between its commit and .delay
               "duplicate",  \* ... or between .delay and marking the row
               "redis",      \* the broker refuses a message
               "lane",       \* no slot, a lane that vanishes, a lost lease
               "early"}      \* an exception before the step is claimed

ASSUME SummarizeAssumption ==
    /\ None \notin Ids /\ Orphan \notin Ids /\ Busy \notin Ids
    /\ None # Orphan /\ None # Busy
    /\ MaxGen \in Nat /\ MaxRows \in Nat /\ MaxDocs \in Nat /\ MaxRetries \in Nat
    /\ Asks \subseteq AskKinds
    /\ Scenarios \subseteq [conv : {"processing", "completed"}, faults : SUBSET FaultKinds]

VARIABLES
    conv,        \* processing_jobs.status, as the conversion leaves it
    summ,        \* processing_jobs.summarize_status
    gen,         \* processing_jobs.force_generation
    taskId,      \* processing_jobs.celery_task_id
    step, claim, \* job_steps.status and claim_token of "summarize"
    docs,        \* summary documents stored, counted by generation
    rows, made,  \* outbox rows of the stage by id, and how many there are
    sending,     \* for each row the generation its live publisher is to send
    place,       \* where each message is: free, queued, or in which part of its task
    force, mine, \* the arguments force and force_generation of each message
    tries,       \* self.request.retries
    revoked,     \* tasks a revoke is on its way to
    asking,      \* a non-forced POST summarize is past its unlocked checks
    retrying,    \* summarize_status as loaded by a step retry in progress
    cancelling,  \* a cancel request is past its status check
    faults       \* what may go wrong: chosen from Scenarios, and constant

job      == <<conv, summ, gen, taskId>>
stepRow  == <<step, claim>>
outbox   == <<rows, made, sending>>
broker   == <<place, force, mine, tries, revoked>>
requests == <<asking, retrying, cancelling, faults>>
vars     == <<job, stepRow, docs, outbox, broker, requests>>

Gens     == 0..MaxGen
RowIds   == 1..MaxRows
Statuses == {"none", "processing", "completed", "failed"}
Live     == {"pending", "publishing", "published"}
Row      == [state : Live \cup {"delivered"}, force : BOOLEAN, gen : Gens]
Running  == {"installed", "leased", "claimed", "laneless", "generating", "saved", "discarded"}

\* A row not yet written.
NoRow == [state |-> "delivered", force |-> FALSE, gen |-> 0]

TypeOK ==
    /\ conv \in {"processing", "completed", "failed"}
    /\ summ \in Statuses
    /\ gen \in Gens
    /\ taskId \in Ids \cup {None, Busy}
    /\ step \in {"pending", "running", "completed", "failed"}
    /\ claim \in Ids \cup {None, Orphan}
    /\ docs \in [Gens -> 0..MaxDocs]
    /\ rows \in [RowIds -> Row] /\ made \in 0..MaxRows
    /\ sending \in [RowIds -> Gens]
    /\ place \in [Ids -> {"free", "queued"} \cup Running]
    /\ force \in [Ids -> BOOLEAN] /\ mine \in [Ids -> Gens]
    /\ tries \in [Ids -> 0..MaxRetries]
    /\ revoked \subseteq Ids
    /\ asking \in BOOLEAN /\ cancelling \in BOOLEAN
    /\ retrying \in Statuses \cup {None}
    /\ faults \subseteq FaultKinds

---------------------------------------------------------------------------------
(* The step row, the documents and the messages *)

Owns(m)  == step = "running" /\ claim = m
Overdue  == step = "running" /\ claim = Orphan
Claimable == conv # "failed" /\ (step \in {"pending", "failed"} \/ Overdue)

\* The incarnation of m ends; a claim it still holds is orphaned.
Abandon(m) ==
    /\ claim' = IF claim = m THEN Orphan ELSE claim
    /\ UNCHANGED step

\* fail_step, by an incarnation that ends: _release_summarize_claim.
ReleaseClaim(m) ==
    /\ step' = IF Owns(m) THEN "failed" ELSE step
    /\ claim' = IF claim = m THEN None ELSE claim

NoDocs == \A g \in Gens : docs[g] = 0

Move(m, from, to) ==
    /\ place[m] = from
    /\ place' = [place EXCEPT ![m] = to]
    /\ UNCHANGED <<force, mine, tries, revoked>>

\* The message is acknowledged: its id is free.
Ack(m) ==
    /\ place' = [place EXCEPT ![m] = "free"]
    /\ force' = [force EXCEPT ![m] = FALSE]
    /\ mine' = [mine EXCEPT ![m] = 0]
    /\ tries' = [tries EXCEPT ![m] = 0]
    /\ revoked' = revoked \ {m}

\* Redelivered (n unchanged) or retried by self.retry, under the same id.
Requeue(m, n) ==
    /\ place' = [place EXCEPT ![m] = "queued"]
    /\ tries' = [tries EXCEPT ![m] = n]
    /\ UNCHANGED <<force, mine, revoked>>

\* task.delay(job_id, f, g)
Delay(f, g) ==
    \E n \in Ids \ {taskId} :
        /\ place[n] = "free"
        /\ place' = [place EXCEPT ![n] = "queued"]
        /\ force' = [force EXCEPT ![n] = f]
        /\ mine' = [mine EXCEPT ![n] = g]
        /\ UNCHANGED <<tries, revoked>>

\* The revoke of the installed task, if it has not ended, is sent.
SendRevoke ==
    revoked' = IF taskId \in Ids /\ place[taskId] # "free" THEN revoked \cup {taskId} ELSE revoked

\* enqueue_first_stage; g = 0: the dispatcher mints the generation.
Enqueue(f, g) ==
    /\ made < MaxRows
    /\ made' = made + 1
    /\ rows' = [rows EXCEPT ![made + 1] = [state |-> "pending", force |-> f, gen |-> g]]
    /\ UNCHANGED sending

\* _mint_force_generation
Mint == gen < MaxGen /\ gen' = gen + 1

\* _mark_stage_delivered: the newest live row of the stage, whoever wrote it.
MarkDelivered ==
    /\ rows' = [r \in RowIds |->
                  IF rows[r].state \in Live /\ \A s \in RowIds : s > r => rows[s].state \notin Live
                  THEN [rows[r] EXCEPT !.state = "delivered"] ELSE rows[r]]
    /\ UNCHANGED <<made, sending>>

---------------------------------------------------------------------------------
(* Requests *)

\* The mint, the status, the cleared task id and the outbox row are committed
\* together; the revoke of the task that was installed follows.
Begin(f) ==
    /\ summ # "failed"
    /\ Mint /\ Enqueue(f, gen + 1)
    /\ summ' = "processing"
    /\ taskId' = None
    /\ IF summ = "processing" THEN SendRevoke ELSE UNCHANGED revoked
    /\ UNCHANGED <<conv, stepRow, docs, place, force, mine, tries>>

ForceSummarize ==
    /\ "force" \in Asks
    /\ Begin(TRUE)
    /\ UNCHANGED requests

\* Without force a stored summary is returned, and one in progress reported.
SummarizeChecks ==
    /\ "summarize" \in Asks /\ ~asking
    /\ NoDocs /\ summ # "processing"
    /\ asking' = TRUE
    /\ UNCHANGED <<job, stepRow, docs, outbox, broker, retrying, cancelling, faults>>

SummarizeCommits ==
    /\ asking /\ asking' = FALSE
    /\ Begin(FALSE)
    /\ UNCHANGED <<retrying, cancelling, faults>>

\* "Summarization was cancelled; cannot force-start"
SummarizeRefused ==
    /\ asking /\ asking' = FALSE
    /\ summ = "failed"
    /\ UNCHANGED <<job, stepRow, docs, outbox, broker, retrying, cancelling, faults>>

\* retry_job_step loads the job ...
RetryLoads ==
    /\ "retry" \in Asks /\ retrying = None /\ step = "failed"
    /\ retrying' = summ
    /\ UNCHANGED <<job, stepRow, docs, outbox, broker, asking, cancelling, faults>>

\* ... locks it, resets the step and dispatches.  The status is an assignment
\* to the loaded object: written only if that one differs.
RetryCommits ==
    /\ retrying # None /\ retrying' = None
    /\ step = "failed"
    /\ step' = "pending" /\ claim' = None
    /\ Mint /\ Enqueue(TRUE, gen + 1)
    /\ summ' = IF retrying = "processing" THEN summ ELSE "processing"
    /\ UNCHANGED <<conv, taskId, docs, broker, asking, cancelling, faults>>

\* "Step is not retryable"
RetryRefused ==
    /\ retrying # None /\ retrying' = None
    /\ step # "failed"
    /\ UNCHANGED <<job, stepRow, docs, outbox, broker, asking, cancelling, faults>>

CancelChecks ==
    /\ "cancel" \in Asks /\ ~cancelling /\ summ = "processing"
    /\ cancelling' = TRUE
    /\ UNCHANGED <<job, stepRow, docs, outbox, broker, asking, retrying, faults>>

\* The row is fenced whatever it says by now, then the task is revoked.
CancelCommits ==
    /\ cancelling /\ cancelling' = FALSE
    /\ summ' = "failed" /\ taskId' = None
    /\ SendRevoke
    /\ UNCHANGED <<conv, gen, stepRow, docs, outbox, place, force, mine, tries, asking, retrying, faults>>

\* SIGTERM ends the delivery at any point; a queued message is discarded.
Revoke(m) ==
    /\ m \in revoked
    /\ Ack(m) /\ Abandon(m)
    /\ UNCHANGED <<job, docs, outbox, requests>>

---------------------------------------------------------------------------------
(* publish_outbox *)

\* A forced row whose summarization was cancelled is dropped.
DropRow(r) ==
    /\ rows[r].state = "pending" /\ rows[r].force /\ summ # "processing"
    /\ rows' = [rows EXCEPT ![r].state = "delivered"]
    /\ UNCHANGED <<job, stepRow, docs, made, sending, broker, requests>>

\* The claim of the row and the minted generation are committed before .delay.
ClaimRow(r) ==
    /\ rows[r].state = "pending" /\ (rows[r].force => summ = "processing")
    /\ IF rows[r].gen = 0
       THEN Mint /\ sending' = [sending EXCEPT ![r] = gen + 1]
       ELSE UNCHANGED gen /\ sending' = [sending EXCEPT ![r] = rows[r].gen]
    /\ rows' = [rows EXCEPT ![r].state = "publishing"]
    /\ UNCHANGED <<conv, summ, taskId, stepRow, docs, made, broker, requests>>

\* .delay, and the row is marked published unless a worker was faster.
SendRow(r) ==
    /\ sending[r] # 0
    /\ Delay(rows[r].force, sending[r])
    /\ sending' = [sending EXCEPT ![r] = 0]
    /\ rows' = [rows EXCEPT ![r].state = IF @ = "publishing" THEN "published" ELSE @]
    /\ UNCHANGED <<job, stepRow, docs, made, requests>>

\* The broker refuses: the row is pending again, with the payload it had.
SendRefused(r) ==
    /\ "redis" \in faults /\ sending[r] # 0
    /\ sending' = [sending EXCEPT ![r] = 0]
    /\ rows' = [rows EXCEPT ![r].state = IF @ = "publishing" THEN "pending" ELSE @]
    /\ UNCHANGED <<job, stepRow, docs, made, broker, requests>>

\* The publisher dies after its commit: before .delay ...
PublisherDies(r) ==
    /\ "gap" \in faults /\ sending[r] # 0
    /\ sending' = [sending EXCEPT ![r] = 0]
    /\ UNCHANGED <<job, stepRow, docs, rows, made, broker, requests>>

\* ... or after it, so that the row will be sent a second time.
PublisherDiesLate(r) ==
    /\ "duplicate" \in faults /\ sending[r] # 0
    /\ Delay(rows[r].force, sending[r])
    /\ sending' = [sending EXCEPT ![r] = 0]
    /\ UNCHANGED <<job, stepRow, docs, rows, made, requests>>

\* run_maintenance_cycle: a row in 'publishing' for five minutes, longer than a
\* publisher lives with it, is pending again.
ReclaimRow(r) ==
    /\ rows[r].state = "publishing" /\ sending[r] = 0
    /\ rows' = [rows EXCEPT ![r].state = "pending"]
    /\ UNCHANGED <<job, stepRow, docs, made, sending, broker, requests>>

---------------------------------------------------------------------------------
(* summarize_transcript_task *)

Newest(m) == mine[m] = gen

\* _fail_summarize_owned: only for the delivery that is installed, of the
\* newest generation, and still wanted.  The incarnation ends.
FailOwned(m) ==
    IF taskId = m /\ summ = "processing" /\ Newest(m)
    THEN summ' = "failed" /\ taskId' = None /\ ReleaseClaim(m)
    ELSE UNCHANGED <<summ, taskId>> /\ Abandon(m)

\* Mutant: the install does not look at summarize_status.
InstallableCancelled(m) == Newest(m) /\ taskId \in {None, m}

\* The guards on the loaded job, the test of the generation under the lock and
\* the conditional install, which repeats the guards.
Installable(m) == Newest(m) /\ summ = "processing" /\ taskId \in {None, m}

Install(m) ==
    /\ Installable(m)
    /\ Move(m, "queued", "installed")
    /\ taskId' = m /\ summ' = "processing"
    /\ UNCHANGED <<conv, gen, stepRow, docs, outbox, requests>>

Skip(m) ==
    /\ place[m] = "queued" /\ ~Installable(m)
    /\ Ack(m)
    /\ UNCHANGED <<job, stepRow, docs, outbox, requests>>

\* A slot is leased, in the transaction that marks the row delivered.
Lease(m) ==
    /\ Move(m, "installed", "leased")
    /\ MarkDelivered
    /\ UNCHANGED <<job, stepRow, docs, requests>>

\* Mutant: one attempt too many.
GiveUpLate(m) ==
    IF tries[m] <= MaxRetries
    THEN Requeue(m, tries[m] + 1) /\ UNCHANGED <<conv, summ, taskId, stepRow>>
    ELSE Ack(m) /\ UNCHANGED <<conv, summ, taskId, stepRow>>

\* SidecarCapacityExhausted: retried, and in the end given up by
\* _terminalize_capacity_exhausted: nothing is touched while a step is running
\* under a claim; then the summary fails, or the conversion if it is not done.
\* Between two of the conversion's stages no step of it is running.
GiveUp(m) ==
    IF tries[m] < MaxRetries
    THEN Requeue(m, tries[m] + 1) /\ UNCHANGED <<conv, summ, taskId, stepRow>>
    ELSE /\ Ack(m)
         /\ \/ /\ step = "running" \/ conv \in {"processing", "failed"}
               /\ UNCHANGED <<conv, summ, taskId, stepRow>>
            \/ /\ step # "running" /\ conv = "completed"
               /\ FailOwned(m) /\ UNCHANGED conv
            \/ /\ step # "running" /\ conv = "processing"
               /\ conv' = "failed" /\ taskId' = None
               /\ step' = IF step = "pending" THEN "failed" ELSE step
               /\ UNCHANGED <<summ, claim>>

NoSlot(m) ==
    /\ "lane" \in faults /\ place[m] = "installed"
    /\ MarkDelivered
    /\ GiveUp(m)
    /\ UNCHANGED <<gen, docs, requests>>

\* The generation is tested and the step claimed under one lock; a forced
\* delivery takes over a step that is running or completed.
TakesOver(m) == force[m] /\ step \in {"running", "completed"}

ClaimStep(m) ==
    /\ Newest(m) /\ (Claimable \/ TakesOver(m))
    /\ Move(m, "leased", "claimed")
    /\ step' = "running" /\ claim' = m
    /\ UNCHANGED <<job, docs, outbox, requests>>

\* Superseded, or "summarize step is not retryable".
ClaimRefused(m) ==
    /\ place[m] = "leased"
    /\ ~Newest(m) \/ (~Claimable /\ ~force[m])
    /\ Ack(m)
    /\ UNCHANGED <<job, stepRow, docs, outbox, requests>>

\* The takeover finds no row: taken for a lack of capacity.
TakeoverFails(m) ==
    /\ place[m] = "leased"
    /\ Newest(m) /\ force[m] /\ ~Claimable /\ ~TakesOver(m)
    /\ GiveUp(m)
    /\ UNCHANGED <<gen, docs, outbox, requests>>

\* The leased lane has vanished: the claim is released in a transaction of its
\* own, then as without a slot.
LaneGone(m) ==
    /\ "lane" \in faults
    /\ Move(m, "claimed", "laneless")
    /\ ReleaseClaim(m)
    /\ UNCHANGED <<job, docs, outbox, requests>>

LanelessGivesUp(m) ==
    /\ place[m] = "laneless"
    /\ GiveUp(m)
    /\ UNCHANGED <<gen, docs, outbox, requests>>

\* Mutant: no test before the old summary is deleted.
PrepareUntested(m) ==
    /\ Move(m, "claimed", "generating")
    /\ docs' = IF force[m] THEN [g \in Gens |-> 0] ELSE docs
    /\ UNCHANGED <<job, stepRow, outbox, requests>>

\* Before the work: the old summary is deleted if this one was forced.
Prepare(m) ==
    /\ Newest(m)
    /\ Move(m, "claimed", "generating")
    /\ docs' = IF force[m] THEN [g \in Gens |-> 0] ELSE docs
    /\ UNCHANGED <<job, stepRow, outbox, requests>>

\* Mutant: no test before the document is stored.
SaveUntested(m) ==
    /\ docs[mine[m]] < MaxDocs
    /\ Move(m, "generating", "saved")
    /\ docs' = [docs EXCEPT ![mine[m]] = @ + 1]
    /\ UNCHANGED <<job, stepRow, outbox, requests>>

\* save_document, in the transaction of the test.
Save(m) ==
    /\ Newest(m) /\ docs[mine[m]] < MaxDocs
    /\ Move(m, "generating", "saved")
    /\ docs' = [docs EXCEPT ![mine[m]] = @ + 1]
    /\ UNCHANGED <<job, stepRow, outbox, requests>>

\* Superseded before the work or before the document is stored.
Superseded(m) ==
    /\ place[m] \in {"claimed", "generating"} /\ ~Newest(m)
    /\ ReleaseClaim(m)
    /\ Ack(m)
    /\ UNCHANGED <<job, docs, outbox, requests>>

\* The final write: of the newest generation, still wanted, and with the claim.
Wanted(m) == Newest(m) /\ summ = "processing" /\ Owns(m)

Complete(m) ==
    /\ place[m] = "saved" /\ Wanted(m)
    /\ summ' = "completed" /\ taskId' = None
    /\ step' = "completed" /\ claim' = None
    /\ Ack(m)
    /\ UNCHANGED <<conv, gen, docs, outbox, requests>>

\* Otherwise its document is deleted, by id, in a transaction of its own ...
Discard(m) ==
    /\ ~Wanted(m)
    /\ Move(m, "saved", "discarded")
    /\ docs' = [docs EXCEPT ![mine[m]] = IF @ > 0 THEN @ - 1 ELSE 0]
    /\ UNCHANGED <<job, stepRow, outbox, requests>>

\* ... and the claim released in another.
Discarded(m) ==
    /\ place[m] = "discarded"
    /\ ReleaseClaim(m)
    /\ Ack(m)
    /\ UNCHANGED <<job, docs, outbox, requests>>

\* CancelledException: the model is polled while it works whether the summary
\* is still wanted and the lease still held.
WorkCancelled(m) ==
    /\ place[m] = "generating"
    /\ summ # "processing" \/ "lane" \in faults
    /\ FailOwned(m)
    /\ Ack(m)
    /\ UNCHANGED <<conv, gen, docs, outbox, requests>>

\* Any other exception: a summary that exists is taken for this one's success.
Raises(m) ==
    /\ \/ place[m] \in {"claimed", "generating", "saved"}
       \/ place[m] \in {"installed", "leased"} /\ "early" \in faults
    /\ IF summ = "completed" \/ ~NoDocs
       THEN UNCHANGED <<summ, taskId>> /\ Abandon(m)
       ELSE FailOwned(m)
    /\ Ack(m)
    /\ UNCHANGED <<conv, gen, docs, outbox, requests>>

---------------------------------------------------------------------------------
(* Failures, maintenance and the conversion *)

Die(m) ==
    /\ "kill" \in faults /\ place[m] \in Running
    /\ Requeue(m, tries[m])
    /\ Abandon(m)
    /\ UNCHANGED <<job, docs, outbox, requests>>

TimeOut(m) ==
    /\ "timeout" \in faults /\ place[m] = "generating"
    /\ Ack(m) /\ Abandon(m)
    /\ UNCHANGED <<job, docs, outbox, requests>>

\* reap_orphaned_steps: the row it writes leaves the generation to the
\* dispatcher, and is forced when the conversion is done.
Reap ==
    /\ Overdue
    /\ conv = "processing" \/ (conv = "completed" /\ summ = "processing")
    /\ step' = "pending" /\ claim' = None
    /\ taskId' = None
    /\ Enqueue(conv = "completed", 0)
    /\ UNCHANGED <<conv, summ, gen, docs, broker, requests>>

\* The conversion ends by itself; slides write NULL to celery_task_id, and a
\* failure may take the pending steps with it.
ConversionEnds ==
    /\ conv = "processing"
    /\ \/ conv' = "completed" /\ UNCHANGED step
       \/ conv' = "failed" /\ step' \in {step, IF step = "pending" THEN "failed" ELSE step}
    /\ taskId' \in {taskId, None}
    /\ UNCHANGED <<summ, gen, claim, docs, outbox, broker, requests>>

---------------------------------------------------------------------------------
Init ==
    /\ \E s \in Scenarios : conv = s.conv /\ faults = s.faults
    /\ summ = "none" /\ gen = 0
    /\ taskId = IF conv = "processing" THEN Busy ELSE None
    /\ step = "pending" /\ claim = None
    /\ docs = [g \in Gens |-> 0]
    /\ rows = [r \in RowIds |-> NoRow] /\ made = 0
    /\ sending = [r \in RowIds |-> 0]
    /\ place = [m \in Ids |-> "free"]
    /\ force = [m \in Ids |-> FALSE] /\ mine = [m \in Ids |-> 0]
    /\ tries = [m \in Ids |-> 0]
    /\ revoked = {}
    /\ asking = FALSE /\ retrying = None /\ cancelling = FALSE

\* What users ask, the publishers, a delivery, and what ends it early.
User ==
    \/ ForceSummarize \/ SummarizeChecks \/ SummarizeCommits \/ SummarizeRefused
    \/ RetryLoads \/ RetryCommits \/ RetryRefused
    \/ CancelChecks \/ CancelCommits
Publish(r) == DropRow(r) \/ ClaimRow(r) \/ SendRow(r) \/ ReclaimRow(r)
PublishFails(r) == SendRefused(r) \/ PublisherDies(r) \/ PublisherDiesLate(r)
Work(m) ==
    \/ Install(m) \/ Skip(m) \/ Lease(m) \/ ClaimStep(m) \/ ClaimRefused(m)
    \/ TakeoverFails(m) \/ LanelessGivesUp(m)
    \/ Prepare(m) \/ Save(m) \/ Superseded(m)
    \/ Complete(m) \/ Discard(m) \/ Discarded(m)
WorkFails(m) ==
    \/ NoSlot(m) \/ LaneGone(m) \/ WorkCancelled(m) \/ Raises(m)
    \/ Die(m) \/ TimeOut(m) \/ Revoke(m)

Next ==
    \/ User \/ Reap \/ ConversionEnds
    \/ \E r \in RowIds : Publish(r) \/ PublishFails(r)
    \/ \E m \in Ids : Work(m) \/ WorkFails(m)

Spec == Init /\ [][Next]_vars

---------------------------------------------------------------------------------
(* Properties *)

\* The generations with a stored summary; LatestWins sees these alone.
Stored == {g \in Gens : docs[g] > 0}

Register == INSTANCE LatestWins WITH newest <- gen, result <- summ, stored <- Stored

\* Whatever is late, duplicated, revoked or reaped, the newest request decides:
\* no delivery of an older one stores or completes anything.
ImplementsLatestWins == Register!Spec

\* A cancelled or failed summarization is restarted by a user's retry alone:
\* no outbox row, redelivery or reaper brings it back.
CancelStands ==
    [][(summ = "failed" /\ summ' # "failed") => (retrying # None /\ gen' = gen + 1)]_vars

\* A summary is published with its step, and no later delivery, reaper or
\* request tears the two apart without reopening the summarization.
PublishedWithStep == summ = "completed" => step = "completed" /\ ~NoDocs

\* "A crash can never leave processing state without a recoverable dispatch":
\* something is left that will work on it.
Driven ==
    summ = "processing" =>
        \/ \E r \in RowIds : rows[r].state \in {"pending", "publishing"} \/ sending[r] # 0
        \/ \E m \in Ids : place[m] # "free"
        \/ step = "running"
=================================================================================
