# VidiStiller: TLA+ models and proofs

VidiStiller turns a video URL or upload into a transcript, snapshots or slides, and a summary.
A FastAPI process accepts jobs, Celery workers do the work, PostgreSQL holds the state, Redis is
the broker, and *sidecars* (vLLM servers) have a fixed number of request slots. Most of what is
hard about it lives in the backend's coordination code: who may run, who does which stage, who
holds which slot, which request for a summary counts, and what happens when any of them dies in
the middle. The rest lives in algorithms whose inputs are produced by other programs: captions,
model answers, fleets that change while they are asked.

Paths below are relative to `src/backend/app/`.

## 1. Inventory

| Component | State it keeps | Operations | Interacts with |
|---|---|---|---|
| Admission control (`services/admission.py`) | `job_admissions`, `admission_counters` | admit or queue, finish, reconcile limits | API, scheduler, every terminal write of a worker |
| Scheduler (`services/scheduler.py`), one loop per API replica | none of its own | promote queued jobs, reap orphaned steps, sweep the outbox, reap and reset slots, refresh telemetry | admission, outbox, leases, steps |
| Outbox (`services/dispatch.py`) | `task_outbox` | write with the state change, publish at least once, mark delivered | broker |
| Job steps (`services/job_steps.py`) | `job_steps` (status, claim token) | seed, claim, complete, fail, retry | tasks, reaper, API retry |
| Slot leases (`services/lease.py`) | `resource_slots`, `lease_events` | acquire, heartbeat, release, expire, reset | slide task, scheduler |
| Conversion tasks (`tasks.py`) | in flight: loaded ORM objects, claim tokens | transcript, download, snapshots, slides | all of the above |
| Summarization (`tasks.py`, `routes/jobs.py`) | `summarize_status`, `force_generation` | summarize, force, cancel | steps, leases, outbox |
| Jobs API (`routes/jobs.py`) | none | create, cancel, retry a step, delete, summarize | admission, steps, outbox |
| Sidecar registry and telemetry (`services/sidecar.py`) | `sidecars`, rows in Redis, a cache per process | seed, probe, publish, prefetch, lease from a snapshot | admission, leases |
| LLM routing (`services/llm_fleet.py`, `services/llm.py`) | none | discover what is loaded, rank, fall back | tasks, providers |
| LLM summaries (`services/llm.py`) | none | describe images, analyse, rewrite sections, fall back | summarize task |
| Slide detection (`services/slide_detection.py`) | slides and their metadata | scan, classify, group, capture, store | slide task |
| Captions, audio, video (`services/caption_providers.py`, `transcript.py`, `video.py`) | files in shared and own directories | fetch, parse, segment, download with retries | conversion tasks |
| Intake (`routes/jobs.py`, `services/job_import.py`, `job_export.py`) | jobs, videos, uploaded files | create, upload, import, export, delete | API, import task |
| Rate limit (`core/rate_limit.py`) | a counter in Redis per client | count, expire, refuse | API |
| ETA, auth, URL guard, crypto, metrics | little or none | request-local | API |
| Frontend, deployment, migrations | — | — | — |

What makes the coordination hard:

* **Interleaving.** Any number of API replicas each run the scheduler loop; requests, loops and
  workers work on the same rows. Statuses are read before the lock is taken, candidate lists
  before their rows are locked, ORM objects minutes before they are written back.
* **At-least-once delivery.** `acks_late`, a visibility timeout, `reject_on_worker_lost`, outbox
  rows published twice and a direct `.delay` as fallback: the same stage arrives more than once.
  The Celery task id survives redelivery, so it cannot fence anything; every incarnation mints
  its own token.
* **Crashes between two transactions**, and between a transaction and the broker call after it.
* **Time.** Leases expire under live owners, step claims are presumed dead after two hours, hard
  limits kill tasks.

`PROJECT.json` lists every component (modelled or not, and why), and every hazard at its line.

What makes each component correct, and where it is stated:

| Component | It is correct when | Properties |
|---|---|---|
| Admission | counters count exactly the admitted jobs; capacity is never overcommitted, and released exactly once; nothing waits for ever while there is room | `CountersExact`, `ImplementsPool`, `TerminalReleased`, `RunsOnlyAdmitted`, `FinishedIsFinal`, `QueueMoves` |
| Cancellation | only active jobs are cancelled; a cancelled summary stays so | `OnlyActiveIsCancelled` (refuted), `CancelStands` |
| Slot leases | fencing tokens are unique; only its owner or its expiry ends a lease; a slot never works for two | `FencesUnique`, `OnlyOwnerOrExpiry`, `NoOvercommit` |
| Steps and tasks | one worker per stage, done once, settled by its owner; a completed job lacks nothing but, if it has slides, the snapshots it asked for besides; no resurrection; admission is held exactly while active; every job ends | `OneWorkerPerStep`, `DoneOnce`, `SettledByOwner`, `CompletedTruthfully`, `EndedIsFinal`, `NeverReopened`, `HeldWhileActive`, `Ends` |
| Summaries | the newest request alone decides; document, step and status go together; whatever is in progress is driven by something | `ImplementsLatestWins`, `PublishedWithStep`, `Driven` (refuted) |
| Telemetry | no lane is leased that has not answered lately, whichever cache told so | `DeadLaneRefused` |
| Routing | a task goes to a model that fits and was loaded; nothing better is passed over | `RouteSound`, `NonePassedOver` |
| Summary text | no reasoning is published where it is known to stand; no line or image is lost or shown twice | `NoReasoning`, `FallbackKeepsAll`, `SectionsPartition` |
| Slide detection | notes are in order, slides divide the time slides are shown, nothing stays unlabelled | `InOrder`, `SlidesPartition`, `AllLabelled` |
| Fetching | a job that meets nobody gets its own video's text, rightly labelled and whole | `TextIsOwn` |
| Downloads | the film a delivery has answered with stays there | `FilmStays` |
| Transcripts | segments say what the captions said, in time; chapters stand where they begin | `SegmentsSayAll`, `SegmentsInTime`, `ChaptersInPlace` |
| Intake | a video is taken in once | `OncePerVideo` |
| Rate limit | at most twice the limit in any window | `TwiceAtMost` |

## 2. Modules

```
CapacityPool            what admission promises: a pool with two limits
   ^ implements
Admission               jobs x admissions x counters, API, scheduler replicas, workers
AdmissionProofs         its theorems            MCAdmission + 4 cfg
SlotLease               slots x executions x clock
SlotLeaseProofs         its theorems            MCSlotLease + 1 cfg
Pipeline                one admitted job: tasks x steps x outbox x broker
PipelineProofs          its theorems            MCPipeline + 4 cfg
LatestWins              what regenerating promises: the newest request decides
   ^ implements
Summarize               one job's summary: requests x outbox x deliveries x documents
SummarizeProofs         its theorems            MCSummarize + 2 cfg

Telemetry, TelemetryProofs      lanes x sweep x Redis x caches x snapshots x leases
Fetch, FetchProofs              jobs x shared directories x names
Download                        deliveries x attempts x one job's directory
Intake, IntakeProofs            requests x import tasks x jobs x files
SlideDetection                  scan, classification, grouping, capture, storing
SummaryText                     from a transcript to a document
LlmRoute                        from a fleet to a route
TranscriptText                  from captions to segments
RateLimit                       one counter, many requests
Services                        instances of the nine, one component per behaviour
ServicesProofs                  the theorems of all nine
                                                MCServices + 1 cfg
```

An operator whose comment says "Mutant" belongs to no specification: it is the definition after
it with a plausible bug, and shows that the properties notice.

### Admission

One action is one database transaction. Where the code reads first and writes later, there are
two actions with the rest of the world in between:

| Code | Model |
|---|---|
| `_create_and_dispatch_job` | `Create` (job, admission, counters and outbox row commit together) |
| `admit_or_queue_job` | `AdmitOrQueue`: `MustQueue` (preference, then the two limits under the counter locks), `Queue`, `Admit` |
| `finish_job_admission` | `FinishAdmission`: decrements only out of `admitted`, clamped at zero |
| `cancel_job` | `CancelCheck` (status read), `CancelCommit` (locked, written without looking again) |
| `delete_job` | `DeleteFinish`, `DeleteRow`: two commits |
| `promote_queued_jobs` | `Discover` (the candidate ids), `Promote` per candidate, re-validated under the locks |
| `sync_admission_limits` at start-up | `Restart`, which also drops half-done requests and candidate lists |
| the worker's start update, its last write, exhaustion, and the failure without transcript | `Start`, `Complete`, `Exhaust`, `FailEmpty`, with `Die` at any time |
| the preferred sidecar's telemetry | `laneUp`, which changes at will |

`queued_at` is abstracted to the set of jobs queued before (`ahead`), so no clock is needed and
ordering is exact. A stale worker may be running a job that was cancelled long ago: `running` is
independent of the job's row. `Admission` sees a job as one task; `Pipeline` looks inside.

### SlotLease

`acquire_slot` locks every free row (`FOR UPDATE SKIP LOCKED` without a limit) and its transaction
stays open until the step is claimed: `locks[x]` is what `x` holds meanwhile, `Visible` what
others can see. Acquiring (`Acquire`), finding nothing (`Refuse`), committing (`Commit`) or losing
the step claim (`ClaimLost`) are actions of their own. A heartbeat may come at any moment or
never: nothing relies on its interval. `OwnsSlot` is the conditional update's triple, with the
generation read when it is used, as the code does through an ORM object that may have been
expired; so the token that really fences is the `exec_uuid`. `StartRequest`/`EndRequest` are the
requests that keep a sidecar busy, whether or not their sender is still alive.

### Pipeline

One admitted job and its messages. A message is queued, or at a point of its task, and each task
is cut where the code commits or calls the broker:

| Task | Actions |
|---|---|
| `process_transcript` | `StartTranscript` (guards and conditional update), `ClaimTranscribe`, `Transcribed` / `TranscriptOnly` / `TranscriptAgain` / `TranscriptEmpty` / `TranscriptRaises`, `DownloadedInline` / `InlineDownloadFailed`, `HandOver` |
| `process_video_download` | `ClaimDownload`, `DownloadDone`, `DownloadFailed` (retry or exhaust), `HandOver`, `DownloadExhausted` |
| `process_snapshots`, `process_slides` | `LoadVisual`, `ClaimVisual`, `SnapshotsDone`/`SnapshotsFailed`/`SnapshotsNoVideo`, `SlidesEnd`/`SlidesNoSlot`/`SlidesExhausted`/`SlidesRaises` |
| skipped or refused deliveries | `SkipTranscript`, `TranscribeRefused`, `DownloadRefused`, `SkipVisual`, `VisualRefused` |
| around them | `Publish`, `PublishAgain`, `DispatchDirectly`, `Reap`, `RetryStep`, `CancelCheck`, `CancelCommit`, `Die`, `TimeOut` |

A job's `mode` is its processing mode and whether it asks for snapshots: "captions" (neither),
"snapshots", "slides", or "both", a slide job with `extract_snapshots`, which the API has by default.
`seed_job_steps` looks at the two flags one by one, the dispatches look at the processing mode first:
`Dependent` is the step that the video is for, and the snapshots step of "both" runs only if the user
retries it after a failure that took all steps along. `process_snapshots` leaves the row of a slide
job alone, whether it has succeeded or failed.

What the session does matters here and is modelled: `loaded` is the status and task id in the ORM
object of a task, and `Assigned` writes an attribute only if it differs from the loaded one, as
SQLAlchemy does with `expire_on_commit=False`. `NeverReopened` holds *because* of that, and
`pipeline_stuck` happens because of that.

`Faults` says what may go wrong, `Retried` which steps a user may retry (each once), `Overruns`
whether a task may outlive `ORPHANED_CLAIM_TTL_SECONDS`. In the default configuration it cannot:
the hard limit equals the TTL.

Simplifications: a token is cleared when its step settles (the code overwrites it with the next
claim; it means nothing in between); the pending outbox rows of a stage are a set, so two rows of
one stage are one; `_mark_stage_delivered` consumes the pending row; guard and start update of
process_transcript are one step, since the update repeats the guards; the two commits before a
hand-over are one.

### Summarize

One job's summary, beside a conversion that may still be running. The two halves of every request
that reads before it locks are two actions; the outbox is a table of rows with a state each.

| Code | Model |
|---|---|
| `POST summarize` | `ForceSummarize`; without force `SummarizeChecks` (unlocked), then `SummarizeCommits` or `SummarizeRefused` |
| `retry_job_step` of "summarize" | `RetryLoads`, `RetryCommits` / `RetryRefused` |
| `cancel_summarize` | `CancelChecks`, `CancelCommits`; the revoke arrives later: `Revoke` |
| `publish_outbox` | `DropRow`, `ClaimRow` (claims and mints, committed before `.delay`), `SendRow`, `SendRefused`, `PublisherDies`, `PublisherDiesLate` |
| `run_maintenance_cycle` | `ReclaimRow` (a row five minutes in "publishing"), `Reap` |
| `summarize_transcript_task` | `Install` / `Skip`, `Lease` / `NoSlot`, `ClaimStep` / `ClaimRefused` / `TakeoverFails`, `LaneGone` and `LanelessGivesUp`, `Prepare`, `Save`, `Complete` / `Discard` and `Discarded` / `Superseded`, `WorkCancelled`, `Raises` |
| the worker and the conversion | `Die`, `TimeOut`, `ConversionEnds` |

`MarkDelivered` marks the newest live row of the stage, whoever wrote it, as `_mark_stage_delivered`
does; `Raises` takes any stored summary for its own success; `RetryCommits` assigns the status to an
object loaded earlier. A generation is a number; what a lease does is `SlotLease`'s, of which a
lost or missing lane is what is left here. A scenario is the state of the conversion and the set of
faults that may happen.

### Telemetry

Clocks are modelled by ages: of each row since it was stamped, of each cache since it was loaded,
of each lane since it last answered; all are capped where they stop mattering. `BeginSweep`,
`Probe`, `Answer`, `ReplaceCache` and `Publish` are `refresh_sidecar_telemetry`, with its row
stamped before the lane is asked and its rows published one by one, any of which may fail;
`Prefetch`, `TakeLocal`, `ReadShared`, `StoreLocal` and `Miss` are the readers, with Redis and the
local cache touched at different moments; `Lease` is the eligibility test of `acquire_slot` on the
snapshot; `RestartApi` seeds the registry from another file.

### Slide detection

`Scan` takes one sample (its layout and its likeness to the one before are free), debounces it as
`_LayoutTracker` does and notes transitions; `ScanEnds` closes an open segment; `Classify` labels a
batch, of which the model may answer anything; `Group` makes slides and builds of the notes;
`Capture` reads a frame or does not; `Persist` commits, `Finish` reports, `Redeliver` is a worker
that died in between; `Cancel` and `Cancelled` poll.

### SummaryText, LlmRoute, TranscriptText

Algorithms, cut where they call a model or an endpoint. `SummaryText`: `Describe` (vision pre-pass),
`Analyze` / `AnalysisFails`, per section `Reply`, `OnlyReasoning`, `Copy` or `KeepLines`,
`SectionsFail` into the single pass, `Assemble`. A reply is any sequence of the tokens the removal of
reasoning looks at, and `Strip` gives the places of it that are kept; `latest` is the last reply with
these. `Thinking` states independently where reasoning is known to stand: in the first block, closed
or not, and in a reply without a block behind a marker, before a boundary if there is one. Where it
stands otherwise the code publishes it (section 3).

`LlmRoute`: `Ask` and `AskStatus` per endpoint while `Change` changes what they have loaded, then
`Choose` (profiles), `Adopt` or `Default` (none).

`TranscriptText`: `Read`, `PutChapters`, `Save`, whose operators are the parsing, the placing of
headers and the cutting into segments. What is read is a file, the snippets of the platform (all of
them stamped, and none parsed for repeats) or a text of Whisper (without stamps). A file's cues may
come before the first stamp, as the head of a VTT file does; a text of `Meta` begins with `#`,
`Source:` or `Language:`. A stamped transcript passes over headers and unstamped lines of `Meta`; one
without stamps is cut as it is, headers and all. `sent_tokenize` is taken to divide such a text between
its texts, and cues whose stamps have no hours, which the parser keeps as text, are texts without stamp.

### Fetch, Download, Intake, RateLimit

`Fetch` is the way from a job to its text: `NativeCaptions`, then `WriteSubtitles`,
`FindSubtitle`, `ReadSubtitle`, `CleanSubtitles` in a directory all jobs share, then `RecordAudio`,
`AudioRecorded`, `Transcribe` in another. yt-dlp writes under its own id (`File`), the code looks for
the resolver's (`Id`) with `glob(source_id*)`, that is for all names in `Like[Id[..]]`: `Finds(j, k)`
says that `j` finds what `k` writes. Subtitles are any file found, the audio is the mp3 of the very id
or else any file found. A subtitle file that cannot be removed stays, and so does one under an id that
is not looked for; audio is never removed. `AudioFails` is every error there; the files stay. The
variables `alone` (nobody whose files `j` finds was there while `j` was) and `litter` (a subtitle file
was left behind) are only read by a property.

`Download` is `download_video` in one job's directory: `Run` is an attempt, which may end in any way
and leave whatever it likes, but keeps a whole film that is there, as yt-dlp does; `Answer` takes any
file under the id without a partial's suffix; `Retry` removes the partials first. A file is "whole",
"part" (the suffixes the code knows) or "stray" (a partial under another suffix). Deliveries may follow
each other or overlap, as when a claim has run out. `exact` is whether the resolver's id is yt-dlp's:
if not, nothing is found and nothing is removed.

`Intake` is every way a job comes into being, with the look at what exists and the commit as two
actions, files that stay behind, and an import task that may be delivered again. `raced` records the
videos for which two have looked before either wrote: only read by a property.

`RateLimit` has INCR (`Incr`) and the rest of the handler (`Decide`) as two actions, with a handler
that dies between them (`Lost`).

### Services

The nine components share no state, so they stand side by side in one specification: a behaviour
belongs to one of them (`part`), and the variables of the others are None throughout. Each property
is that of its component under its own name. `MCServices` is a small instance of it for one run, and
`ServicesProofs` proves the properties of any. The constants have named assumptions, which TLC
evaluates for the values of the run.

## 3. Runs

| Run | Checks | Bounds |
|---|---|---|
| `admission` | types, `CountersExact`, `TerminalReleased`, `RunsOnlyAdmitted`, `FinishedIsFinal`, `ImplementsPool` | 3 jobs, 2 users (one owns two jobs), one job pinned, 2 replicas, global limit 0 or 1, user limit 1, 2 candidates per pass |
| `admission_live` | `QueueMoves` | 1 replica, global limit 1, passes that see all 3 jobs |
| `admission_starved` | `QueueMoves`, violated | the same with passes that see 1 job |
| `admission_cancel` | `OnlyActiveIsCancelled`, violated | as `admission` |
| `slot_lease` | types, `FencesUnique`, `NoOvercommit`, `OnlyOwnerOrExpiry` | 3 executions, 2 slots, one execution wants a particular slot, TTL = quarantine = request = 1, clock to 4 |
| `pipeline` | types, `OneWorkerPerStep`, `HeldWhileActive`, `CompletedTruthfully`, `NeverReopened` | all four modes, all faults, 3 messages at a time, each step retried by the user at most once |
| `pipeline_overrun` | `EndedIsFinal`, `DoneOnce`, `SettledByOwner` | modes "captions", "snapshots" and "both" (which has every action of "slides" and more), all faults, tasks that outlive the TTL, 2 messages at a time |
| `pipeline_ends` | `Ends` | all four modes, failures and time-outs everywhere, 3 messages |
| `pipeline_stuck` | `Ends`, violated | slide jobs, workers that are killed |
| `summarize` | types, `PublishedWithStep`, `ImplementsLatestWins`, `CancelStands` | 2 messages at a time, generations to 2, 2 outbox rows, 2 documents per generation, 1 retry; a running or completed conversion with every fault but a message sent twice, a completed one with every fault but a killed worker |
| `summarize_lost` | `Driven`, violated | the same bounds, no faults, no retries or cancellations |
| `services` | the sixteen properties of the nine components | see `MCServices` and below |

Why these bounds are enough to be interesting. Admission: two jobs of one user and one of another
meet at each limit alone and at both; a third job is needed for a queue with an order; two
replicas for duplicate promotion; limit 0 for "unlimited", and the change from 0 to 1 leaves more
holders than the limit allows. Slots: three executions are an owner, its successor and one that
arrives while a row is locked; four ticks hold a lease, its expiry, its quarantine and the next
lease. Pipeline: three messages are a delivery, its duplicate (or the reaper's dispatch) and the
message it races with; attempts are the code's own (2 retries, 1 for slides). Summaries:
two generations are a request and the one that supersedes it, two messages their deliveries, two
rows the one a worker should mark and the one it does; a retry is the capacity wait. Services:
five samples show a segment begun, suspected, ended and begun again, with a batch of two and two at
a time; three lines hold a chapter between two others, with images on, between and behind them;
three endpoints are a managed one, an unmanaged one and a profile's own; one lane with one reader
is enough for every path of a row, since lanes do not meet; two jobs at one time on videos of which
one's name begins the other's, on one video of the platform, or one on a video whose ids differ and
whose resolver's id begins the other's; two deliveries of one download with three attempts each, the
code's own number; three cues repeat, share a stamp, come before the first stamp, look like the head of
a document or exceed a segment; two users, two requests
and a task for one video; two handlers in a window of two. Symmetry is used for
replicas, executions and messages, and in no liveness run. What holds for *every* number of jobs,
users, replicas, executions, slots, messages, lanes and clock values is what section 5 proves.

`CHECK_DEADLOCK FALSE`: the systems really stop: every job ended, every execution over, the clock
at its bound.

### What the violated runs show

* **`admission_cancel`.** `cancel_job` tests the status, then locks and writes without testing
  again: a job that completes in between becomes cancelled.
* **`admission_starved`.** Promotion looks at the 10 oldest queued jobs only. Ten jobs that insist
  on a dead sidecar stop everybody.
* **`pipeline_stuck`.** A worker dies during the download inside process_transcript. The reaper
  takes the step back, clears `celery_task_id` and dispatches the download. Now the late
  redelivery of the transcript message installs its own id again, is refused the claim and
  leaves the id behind; the download task does not write its `celery_task_id = None`, since None
  is what it loaded; process_slides skips as "another delivery is active". The job is processing
  and admitted for ever. The same end is reached from a death between a commit and the `.delay`
  after it (fault `gap`), a broker that refuses that `.delay` (`redis`), a duplicated transcript
  message (`duplicate`) and an exception before `_finish` exists (`error`).
* **`summarize_lost`.** A delivery of generation 1 is installed and waits for its lease. A forced
  regeneration commits generation 2 with its outbox row. The lease transaction of the first marks
  the newest live row delivered, which is the second's; it is never published, the first delivery is
  superseded, and the summary stays "processing". No fault is needed.

Also met while modelling; the models do what the code does, and no run is spent on them:

* *Cancellation.* "No transcript could be generated" writes FAILED with no condition, over a
  cancellation (`FailEmpty` of `Admission`).
* *Slots.* One open acquisition hides every free slot: a concurrent task is told there is no
  capacity, and after a retry its job is failed. Reconciliation with `SIDECAR_SLOTS` adds rows and
  never removes any.
* *Steps.* A user's retry of a step of a FAILED job is answered 202 and dispatched, but the job's
  status is not reset and the task skips. With a hard limit configured above the TTL,
  `CompletedTruthfully`, `NeverReopened`, `HeldWhileActive` and `OneWorkerPerStep` no longer hold,
  while those of `pipeline_overrun` do. Progress is documented as monotone and is reset by retries
  and by the reaper.
* *Slide jobs with snapshots.* The snapshots step of a slide job with `extract_snapshots`, the default
  of the API (`schemas.py:380`, `routes/jobs.py:338`), is seeded and never dispatched: the job is
  completed with the step pending for ever, and a retry is answered 409, since it has not failed. The
  repository's `README.md:103` says that Presentation Mode always disables regular snapshots; only the
  frontend sees to that. `tasks.py:563-565` says of exhaustion that it must never produce a completed job
  with pending slides or snapshots, which is what a normal completion does. `CompletedTruthfully`
  states what is true: this step alone may be left.
* *Summaries.* A cancellation or exhaustion before the claim leaves the step pending, called
  retryable (`tasks.py:309-313`), while retry and POST answer 409. A message sent twice together
  with a killed worker lets the reaper's dispatch and the second message work on one generation, and
  the later one reopens a completed step: `PublishedWithStep` fails there, which is why the two
  faults are in different scenarios. An exception before the claim of a regeneration is taken for
  success, since the old summary exists.
* *Slides.* A worker that dies between the commit and `_finish` has the step failed for ever: the
  redelivery hits the unique key of the metadata. Transcript alignment never matches segments of
  Whisper, whose times are zero.
* *Summary text.* Reasoning is published if it stands before a block (a marker and a draft in front of
  `<think>`: the reply of `tests/test_llm_cot_strip.py:121-136`, where the block alone is removed), in a
  second block, or before a `</think>` that closes none; the docstring (`llm.py:911-925`) wants a piece
  empty "rather than leaking the model's thinking into the saved document". `NoReasoning` claims
  nothing of these places, and its comment names them. A section that starts behind
  the last stamp gets the whole transcript; the vision pre-pass does not poll for cancellation.
* *Routing.* Inventory is published under the profile's own URL though another endpoint was asked;
  an owner's URL may be combined with a model adopted elsewhere.
* *Telemetry.* A lane removed from the configuration keeps its enabled row. `StoreLocal` may replace
  a fresher row another thread has put there; `DeadLaneRefused` holds in spite of it.
* *Files.* Two jobs on one video at one time take each other's subtitles and may hear each other's
  half-written audio; the glob also matches longer ids, and without an mp3 of the very id the audio may
  be any file that begins with it. Where the resolver's id is not yt-dlp's (the hash of a direct link,
  `source_resolver.py:92`; short links and page names of others), subtitles and audio are not found and
  never removed, and a video is downloaded to the last attempt and given up, though `schemas.py:373`
  offers direct MP4. `endswith((".part", ".ytdl", ".temp"))` does not know `.part-Frag3` or
  `.temp.mp4`, which may be answered as the film.
* *Transcripts.* `_parse_vtt` drops every later repeat of a text, though its docstring
  (`caption_providers.py:164`) says adjacent ones. Unstamped lines that look like the head of a document
  are lost if anything else has a stamp. Chapters of a text without stamps all end up behind it, and
  their headers in the segments. A stamped transcript without words is saved without segments.
* *Intake.* Two that look before either has written create or import a video twice, as does a
  cancelled job that comes back; an import redelivered after its commit is reported as "already
  exists"; an upload may be answered 422, and lose its file, after its job was committed.
* *Rate limit.* The window is a fixed one, not the sliding one of the docstring; a handler that dies
  before EXPIRE leaves a counter that refuses its client for ever.

## 4. Fairness

* `Admission!FairSpec`: `scheduler_loop` sweeps for ever (weak fairness of `Discover`); a replica is
  not restarted in every single pass before it reaches a given candidate (strong fairness of
  `Promote`); a published message is delivered (weak, `Start`) and not every delivery of a job is
  killed (strong, the worker's end). Nothing is assumed of lanes, users or operators: a lane may
  be down for ever.
* `Pipeline!FairSpec`: the loop publishes and reaps (weak fairness); a worker that is at a point of
  its task goes on (weak); a stage that is begun again and again is claimed and done in the end
  (strong): without this a task could time out for ever, by which a job never ends in reality
  either. Failures, cancellations, retries and kills are never assumed to happen.

* `Summarize` and the services are checked for safety alone, without fairness: that a summary in
  progress is driven is stated as the invariant `Driven`, which says that something is left to work
  on it and is false already.

## 5. Theorems

Checked by TLAPS for every value of the constants that satisfies the named assumptions.

**`AdmissionProofs`** (from `AdmissionAssumption`: finitely many jobs, each with an owner; limits are
naturals). `TypeCorrect`; then `Invariance`: `CountersExact`, `TerminalReleased` and
`RunsOnlyAdmitted` are inductive only together with `Aux`: a job that is absent or deleted has no
admission row; an active job is queued or admitted; a dispatched job is admitted or finished (so a
stale delivery of a job that is still queued cannot exist); a half-done deletion is of a terminal
job; whatever runs or is being cancelled was created. Without the second part a worker could start
a job whose admission is over; without the third, one that was never admitted. The counters' argument is one of
cardinalities: each transaction adds one job to `Holders`, removes one or leaves it, and moves the
counters by as much. From the invariant follow `CountersNeverDrift`, `NoCapacityLeak`,
`OnlyAdmittedRun`, the action property `FinishedStaysFinished`, and `AdmissionImplementsPool`:
since counters are exact, "counter below limit" is "holders below limit", and every step of
`Admission` is an acquisition, a release, a reconfiguration or a stutter of `CapacityPool`.

**`SlotLeaseProofs`** (from `LeaseAssumption`: a request keeps a sidecar busy no longer than the
quarantine). `TypesHold` is the types alone; `TypeCorrect` adds that an open acquisition is the only trace a rollback has to undo.
`FenceInvariance` ties leases to their executions (the owner of a leased row remembers that slot,
the row expires TTL after the owner's last heartbeat, and no remembered fence is above its row's
generation), from which `FencingTokensUnique` and
`LeaseEndsOnlyWithOwnerOrExpiry` follow. `QuarantineInvariance` adds time: a working execution
within TTL of its last heartbeat still owns its slot; a request in flight is younger than
`Request`; and if it was sent under a good lease its slot is still its own, leased or expired, and
expired no earlier than the request. Two such requests for one slot would need two owners:
`NeverOvercommitted`.

`Request <= Quarantine` is an assumption about the deployment: the default quarantine is 900 s, and
the HTTP timeouts of the providers are shorter, but they are per read, not per request.

**`PipelineProofs`** (from `PipelineAssumption`, for any set of messages, any faults, any steps the
user may retry and either value of `Overruns`). `TypeCorrect`; `DoneOnceHolds`, for which it is
enough that every claim and reset looks at the step's status; `EndedIsFinalHolds`, which rests on
`FailedHasReleased`: process_transcript starts a *failed* job again if it still holds its
admission, so the property is true only because every failure gives the admission back in the
same transaction; and `SettledByOwnerHolds`, from `ClaimInv`: a token that can still be presented
belongs to a delivery at work. None of the three needs the time limit.

In the same module, without `Overruns`: `OrderCorrect` proves the inductive
`OrderInv`. `WorkersClaim`: the claims are exactly those of the deliveries at work, so two of one
stage exclude each other (`OneWorkerPerStepHolds`). `TranscriptFirst` and `VisualLast`: in a job
that has not ended, no message, outbox row or step of a later stage exists before the earlier
stage is done; they are what makes a completion true (`CompletedTruthfullyHolds`), since the code
that completes a job looks at its own stage only. The theorem says which step a job in slide mode may
leave undone, its snapshots, and that no other does. `PendingWaits` and `LoadedActive`: a visual task
loaded a job that was processing already, so the status it assigns is not written back; with
`CompletedIsDone` (no download is left to be done in a completed job) no statement reactivates a
completed job (`NeverReopenedHolds`), and admission follows the status (`HeldWhileActiveHolds`).
Every part of `OrderInv` was model-checked with the constants of `pipeline` before it was proved.

**`SummarizeProofs`** (from `SummarizeAssumption`, for any set of messages, generations, rows and
requests). `TypeCorrect` needs no more. `Invariance` is proved under the hypothesis `NoRepeats`: in
no scenario is a message sent twice. It has five parts. `RowsInv`:
rows beyond the last one are unused, and a row being sent is no longer pending. `Unique`: no
generation above the job's exists anywhere, and none has two carriers, be they rows or messages.
`Asked`: nothing works or waits before the first request. `Kept`: a document of the newest
generation that was just stored is there. `Settled`: a completed summary has its step completed, a
document no carrier can reach, and no delivery of the newest generation under way. `PublishedTogether` follows, and `NewestWins`, that every step is one of
`LatestWins` or a stutter: the test of the generation stands in the transaction of each delete, save
and final write, and no second delivery has the same one. `CancelledStays` needs no `NoRepeats`: what
brings a summary back is a commit of a retry that mints a generation, whatever else happens.

**`TelemetryProofs`** (from `Legal`: None is neither a lane nor a row, the ages are numbers).
`RowsHonest` is the inductive invariant: a row that says a lane has answered is as old as the lane's
silence at least, in the sweep, in Redis, in each cache, in a thread's hand and in each snapshot. A
tick ages both (`HonestTick`); everything else copies rows with their age (`HonestStep`). An answer
is written into a row that was stamped before, which is the only place where honesty is made rather
than kept. With the test at the lease, `DeadLaneNeverLeased`.

**`FetchProofs`** (from `Legal`: a plan gives each job a video, both its ids are names, and a name begins
with itself). `OwnText` says of every job for itself (`ForItself`) what `TextIsOwn` does. There are
two ways to be so. A job that finds no other's files needs `Authored` (every file was written by a job
under the name of its video) and `Sighted` (what it has found, it finds): then the author is itself,
whatever others do, whoever is killed and whatever stays behind. A job whose ids agree and that was
alone needs more: `Private`, nobody whose files it finds is there while it is; `Owned`, while nothing has
been left behind each subtitle file belongs to a job that has not tidied up; so that all it may find is
its own (`OwnDirectory`), and what it hears is the mp3 it has recorded (`HeardWhole`).

**`IntakeProofs`** (from `Legal`: None is no video). `ClaimsExclusive`: a request or task that has
found the video missing, and the job it writes, are one claim; two claims of one kind exclude each
other, unless the video counts as raced. It rests on `ImportRows`: every imported job has the row of
videos by which the next import is refused. `NeverTwice` follows by cardinality.

**`ServicesProofs`** proves of the components side by side what the run `services` checks. Only one
component moves in a behaviour, so each property is proved from an invariant of its own component
and carried over. Fetch, Telemetry and Intake hold theirs by the theorems above
(`FetchedTextIsOwn`, `LanesLeasedServed`, `TakenOnce`); `FilmKept` is of Download, for any number of
deliveries and attempts.

* *Slide detection* (from `VideoAssumption`: times are whole quarters of a second). `SlideInv` says of
  the scan (`Scanned`) that a segment is open exactly if the last boundary is a start, that a layout
  under suspicion was first seen after the last note, so that dating a boundary back keeps the order,
  and of the labels (`Labelled`) that what is not yet labelled waits in the batches still to be asked.
  `NotesInOrder` and `EveryNoteLabelled` follow. `GroupInv` adds that notes are samples of the video
  (`Sampled`) and that slides are what grouping makes of them (`Grouped`). `TimeDivided` is then a fact
  about one computation: the starts of a segment's slides are a set of times with a least one
  (`StartsBounded`, `SegmentIs`), each slide ends where the next begins (`SlidesApart`,
  `SlidesCover`), and the number of a slide, being the number of those before it, differs from the
  next one's by the builds in between (`NumbersDiffer`).
* *Summary text.* `SectionsDivided` (from `TextAssumption`) needs the types of lines and plan only:
  bounds that never descend put each line between two neighbours (`BetweenSteps`).
  `ThoughtsKeptOut` holds of replies of any tokens: the first and last place of a token are what a search
  finds (`Places`), the places that are kept are none of `Thinking` (`Stripped`), and every step keeps a
  reply's own places or the piece itself (`ThoughtsStayOut`). `FallbackComplete` follows the walk over
  the lines: `Walked(out, open, images, i, h)` says of what has been put out, what is open and what
  waits that every line up to `i` is in exactly one of them and every snapshot of a line up to `h` is
  shown or waits, once, behind its line and before the next chapter. Each move of the walk keeps it
  (`TextWritten`, `ImagesWritten`, `ChapterWritten`, `LineHeld`, `ImagesHeld`), so it holds of the
  whole walk (`PiecesAre`), and the plan is the walk's result until the document is written
  (`FallbackInv`). `InOrder` is stated as the one increasing sequence of a set, so that it can be
  reasoned about.
* *Routing* (from `FleetAssumption`). `RoutingCorrect` proves `RouteInv`: a profile in the inventory
  was loaded, at some moment since the request, where it was found (`Confirmed`), while the fleet
  changes at will; and as long as it has not changed, each stop is still to be asked or has been
  heard (`AllHeard`). `RoutedSound` and `BestRouted` follow.
* *Rate limit.* `LimitTwiceAtMost` rests on the counter being explained by *some* set of past
  expirations (`Counted`): they are a window apart, requests between two of them have different
  numbers, and those since the last have numbers up to the counter. A window meets two counts at
  most, each of which lets in the limit.

* *Transcripts* (from `CaptionAssumption`: captions are texts with a length or blank, at whole seconds
  or without a stamp, spoken texts have lengths, and chapters rise). What a component computes in one
  step is four folds, each of which is shown to go from one place of its sequence to the next
  (`FoldExists`, `FoldResult`, then `ParseIs`, `EmbedIs`, `EntriesAre`, `CutIs`), so that what is said of
  a result is proved along the sequence (`Sequentially`): what is read of a file is each text once and
  rises with its cues (`ReadIs`); headers are put in order and in their places while the other lines stay
  (`EmbedPlaces`); the entries of a stamped transcript tell, in order, the lines that have something to
  say (`EntriesTell`), those of one without stamps all lines (`UntimedTell`); and pieces carry the
  entries (`CutCarries`): what they say one after the other is what the entries say, a piece of several
  texts is within the limit, and if the entries rise, pieces follow each other. `CutInv` carries these
  from step to step: the lines but the headers are what was read (`ReadFrom`, of any of the three kinds
  of input), whether chapters were put in or the metadata was missing, and the segments are cut of what
  the transcript has to say. `SegmentsFaithful`, `SegmentsFollow` (by `SavedInTime`) and `ChaptersStand`
  follow. To be reasoned about, the module states `_embed_chapters`' inner loop as the beginning of what
  is left up to the first later chapter, and a selection of lines by their places (`Only`).

A set of natural numbers has a least element and a function defined by recursion exists: the section
"Induction and recursion" of the module proves both from the well-foundedness of the natural
numbers, and all reasoning about notes and lines of any length rests on them.

Only model-checked: liveness (`QueueMoves`, `Ends`), which is outside the prover's reach, as is
anything about ENABLED; and the violated properties, whose counterexamples are TLC's. No module
declares a RECURSIVE operator.


## 6. Not modelled

* **Lock waits.** Transactions are atomic, so waiting for a row, and the order in which promotion and
  the reaper lock jobs (`scheduler.py:112`), are out of sight. PostgreSQL aborts one of two that wait
  for each other, which the models see as a pass that did nothing.
* **ETA and progress.** Estimates and percentages for display; no decision depends on them, and what
  could be said of the formulas holds by construction.
* **Provider clients, media tools, email.** Calls out of the program. Their results, failures and
  delays are the environment's choices in the modules that call them.
* **Choice of snapshot times, frame extraction, URL resolution, the reading of uploaded files.** Geometry
  and parsing, without state. That a resolver's id may differ from yt-dlp's is in `Fetch` and `Download`.
* **Import and export contents.** `Intake` knows whether an archive carries a video; validation and
  remapping of rows are one transaction of one request.
* **Authentication, URL guard, crypto, import status, operator routes, metrics.** Request-local reads
  and writes of single rows; nothing interleaves.
* **Slot reconciliation.** Runs before the process takes requests; the slots of `SlotLease` are fixed.
* **Limits of the models.** Single-shot summaries of jobs from before steps, deletion of a job while
  it is summarized, and the number of rows per sweep.
* **Migrations, frontend, deployment.** Nothing of the program's protocols is in them.
