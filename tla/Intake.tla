---------------------------------- MODULE Intake ----------------------------------
(***************************************************************************)
(* How jobs come into being and go: created from a URL, uploaded, imported    *)
(* from an archive by a request or by a task, exported, deleted.  Each way in    *)
(* looks first whether the video is there already, holds no lock while it         *)
(* goes on, and leaves files behind; the import task may be delivered again.        *)
(* What a job does between its creation and its end is Pipeline's.                   *)
(***************************************************************************)
EXTENDS Integers, FiniteSets

CONSTANTS None,
          Users, Videos,
          Jobs,       \* the ids at hand
          Clients,    \* requests in progress at one time
          Tasks       \* import tasks at one time

VARIABLES
    job,       \* None, or [user, video, via, status, row]; row: has a videos row
    client,    \* None, or the request: [kind, user, video, job, at]
    task,      \* None, or the import task: [user, video, at]
    files,     \* on disk: the uploads by job, the archives by task
    archives,  \* the videos of the archives users have; None: one without a video
    raced      \* the videos two requests have found missing at one time

vars == <<job, client, task, files, archives, raced>>

Job(u, v, via, status, row) == [user |-> u, video |-> v, via |-> via, status |-> status, row |-> row]
Rows == {j \in Jobs : job[j] # None}

Request(kind, u, v, j, at) == [kind |-> kind, user |-> u, video |-> v, job |-> j, at |-> at]
Answered(c) == client' = [client EXCEPT ![c] = None]

\* An id no row, no file and no request has: uuid4.
Fresh == {j \in Jobs : job[j] = None /\ j \notin files /\ \A c \in Clients : client[c] # None => client[c].job # j}

---------------------------------------------------------------------------------
(* POST /jobs *)

\* _find_duplicate_job: of the same user, not cancelled, with a source type,
\* which an imported job does not have.
Duplicate(u, v) ==
    \E j \in Rows : /\ job[j].user = u /\ job[j].video = v
                    /\ job[j].via \in {"create", "force"} /\ job[j].status # "cancelled"

Creating(u, v) == \E c \in Clients : client[c] # None /\ client[c].kind = "create"
                                     /\ client[c].user = u /\ client[c].video = v

CreateChecks(c, u, v, force) ==
    /\ client[c] = None
    /\ force \/ ~Duplicate(u, v)
    /\ \E j \in Fresh :
         client' = [client EXCEPT ![c] = Request(IF force THEN "force" ELSE "create", u, v, j, "checked")]
    /\ raced' = IF ~force /\ Creating(u, v) THEN raced \cup {v} ELSE raced
    /\ UNCHANGED <<job, task, files, archives>>

\* The job, or whatever went wrong: rolled back.
CreateCommits(c) ==
    /\ client[c] # None /\ client[c].kind \in {"create", "force"}
    /\ LET r == client[c]
       IN  \/ job' = [job EXCEPT ![r.job] = Job(r.user, r.video, r.kind, "active", FALSE)]
           \/ UNCHANGED job
    /\ Answered(c)
    /\ UNCHANGED <<task, files, archives, raced>>

---------------------------------------------------------------------------------
(* POST /jobs/upload *)

UploadWrites(c, u) ==
    /\ client[c] = None
    /\ \E j \in Fresh :
         /\ client' = [client EXCEPT ![c] = Request("upload", u, None, j, "writing")]
         /\ files' = files \cup {j}
    /\ UNCHANGED <<job, task, archives, raced>>

Uploading(c, at) == client[c] # None /\ client[c].kind = "upload" /\ client[c].at = at

\* Too large or empty: the file is removed.
UploadRefused(c) ==
    /\ Uploading(c, "writing")
    /\ files' = files \ {client[c].job}
    /\ Answered(c)
    /\ UNCHANGED <<job, task, archives, raced>>

\* Any other exception while it is written leaves it there.
UploadBreaks(c) ==
    /\ Uploading(c, "writing")
    /\ Answered(c)
    /\ UNCHANGED <<job, task, files, archives, raced>>

UploadCommits(c) ==
    /\ Uploading(c, "writing")
    /\ LET r == client[c]
       IN  /\ job' = [job EXCEPT ![r.job] = Job(r.user, None, "upload", "active", FALSE)]
           /\ client' = [client EXCEPT ![c].at = "committed"]
    /\ UNCHANGED <<task, files, archives, raced>>

UploadAnswered(c) ==
    /\ Uploading(c, "committed")
    /\ Answered(c)
    /\ UNCHANGED <<job, task, files, archives, raced>>

\* An exception removes the file, before the commit and after it, from
\* publishing the outbox.
UploadFails(c) ==
    /\ Uploading(c, "writing") \/ Uploading(c, "committed")
    /\ files' = files \ {client[c].job}
    /\ Answered(c)
    /\ UNCHANGED <<job, task, archives, raced>>

---------------------------------------------------------------------------------
(* import_job_payload: by a request, or by a task *)

\* Mutant: only the user's own videos are looked at.
ImportedOwn(u, v) == \E j \in Rows : job[j].row /\ job[j].video = v /\ job[j].user = u

\* Whoever's it is: the video has a row.
Imported(u, v) == v # None /\ \E j \in Rows : job[j].row /\ job[j].video = v

Importing(v) ==
    \/ \E c \in Clients : client[c] # None /\ client[c].kind = "import" /\ client[c].video = v
    \/ \E t \in Tasks : task[t] # None /\ task[t].at = "checked" /\ task[t].video = v

Checked(u, v) ==
    /\ ~Imported(u, v)
    /\ raced' = IF v # None /\ Importing(v) THEN raced \cup {v} ELSE raced

Import(j, u, v) == job' = [job EXCEPT ![j] = Job(u, v, "import", "done", v # None)]

ImportChecks(c, u, v) ==
    /\ client[c] = None
    /\ Checked(u, v)
    /\ \E j \in Fresh : client' = [client EXCEPT ![c] = Request("import", u, v, j, "checked")]
    /\ UNCHANGED <<job, task, files, archives>>

ImportCommits(c) ==
    /\ client[c] # None /\ client[c].kind = "import"
    /\ \/ Import(client[c].job, client[c].user, client[c].video)
       \/ UNCHANGED job
    /\ Answered(c)
    /\ UNCHANGED <<task, files, archives, raced>>

\* The archive is written to disk and a task queued; the broker may refuse.
ImportUpload(t, u, v) ==
    /\ task[t] = None /\ t \notin files
    /\ files' = files \cup {t}
    /\ task' \in {[task EXCEPT ![t] = [user |-> u, video |-> v, at |-> "queued"]], task}
    /\ UNCHANGED <<job, client, archives, raced>>

At(t, place) == task[t] # None /\ task[t].at = place

TaskChecks(t) ==
    /\ At(t, "queued") /\ t \in files
    /\ Checked(task[t].user, task[t].video)
    /\ task' = [task EXCEPT ![t].at = "checked"]
    /\ UNCHANGED <<job, client, files, archives>>

TaskCommits(t) ==
    /\ At(t, "checked")
    /\ \E j \in Fresh : Import(j, task[t].user, task[t].video)
    /\ task' = [task EXCEPT ![t].at = "imported"]
    /\ UNCHANGED <<client, files, archives, raced>>

\* Refused, failed or done: the archive is removed, the message acknowledged.
TaskEnds(t) ==
    /\ \/ At(t, "imported") \/ At(t, "checked")
       \/ At(t, "queued") /\ (t \in files => Imported(task[t].user, task[t].video))
    /\ task' = [task EXCEPT ![t] = None]
    /\ files' = files \ {t}
    /\ UNCHANGED <<job, client, archives, raced>>

\* The worker is killed, with the archive removed or not; the message is
\* delivered again.
Die(t) ==
    /\ At(t, "checked") \/ At(t, "imported")
    /\ task' = [task EXCEPT ![t].at = "queued"]
    /\ files' \in {files, files \ {t}}
    /\ UNCHANGED <<job, client, archives, raced>>

---------------------------------------------------------------------------------
(* The life of a job, as far as it matters here *)

Describe(j) ==
    /\ j \in Rows /\ job[j].status = "active" /\ job[j].video # None
    /\ job' = [job EXCEPT ![j].row = TRUE]
    /\ UNCHANGED <<client, task, files, archives, raced>>

End(j) ==
    /\ j \in Rows /\ job[j].status = "active"
    /\ \E s \in {"done", "cancelled"} : job' = [job EXCEPT ![j].status = s]
    /\ UNCHANGED <<client, task, files, archives, raced>>

\* A failed step is retried; or a worker overwrites a cancellation it has not
\* seen, as in Admission.
Resume(j) ==
    /\ j \in Rows /\ job[j].status # "active" /\ job[j].via # "import"
    /\ job' = [job EXCEPT ![j].status = "active"]
    /\ raced' = IF job[j].status = "cancelled" /\ job[j].via = "create"
                THEN raced \cup {job[j].video} ELSE raced
    /\ UNCHANGED <<client, task, files, archives>>

\* An export of whatever there is by now.  Those of uploaded jobs are left out:
\* their video is theirs alone.
Export(j) ==
    /\ j \in Rows /\ job[j].via # "upload"
    /\ archives' = archives \cup {IF job[j].row THEN job[j].video ELSE None}
    /\ UNCHANGED <<job, client, task, files, raced>>

\* Rows go, files stay.
Delete(j) ==
    /\ j \in Rows /\ job[j].status # "active"
    /\ job' = [job EXCEPT ![j] = None]
    /\ UNCHANGED <<client, task, files, archives, raced>>

Init ==
    /\ job = [j \in Jobs |-> None]
    /\ client = [c \in Clients |-> None] /\ task = [t \in Tasks |-> None]
    /\ files = {} /\ archives = {} /\ raced = {}

Next ==
    \/ \E c \in Clients, u \in Users :
         \/ \E v \in Videos, force \in BOOLEAN : CreateChecks(c, u, v, force)
         \/ UploadWrites(c, u)
         \/ \E v \in archives : ImportChecks(c, u, v)
    \/ \E c \in Clients :
         \/ CreateCommits(c) \/ ImportCommits(c)
         \/ UploadRefused(c) \/ UploadBreaks(c) \/ UploadCommits(c) \/ UploadAnswered(c) \/ UploadFails(c)
    \/ \E t \in Tasks :
         \/ \E u \in Users, v \in archives : ImportUpload(t, u, v)
         \/ TaskChecks(t) \/ TaskCommits(t) \/ TaskEnds(t) \/ Die(t)
    \/ \E j \in Jobs : Describe(j) \/ End(j) \/ Resume(j) \/ Export(j) \/ Delete(j)

Spec == Init /\ [][Next]_vars

---------------------------------------------------------------------------------
(* Properties *)

\* A video is imported at most once by all users together, and created without
\* force at most once by each, however requests, exports, deletions and repeated
\* deliveries follow one another - unless two of them have looked, at one time,
\* before either had written, or a cancelled job has come back.
OncePerVideo ==
    \A v \in Videos \ raced :
        /\ Cardinality({j \in Rows : job[j].via = "import" /\ job[j].video = v}) <= 1
        /\ \A u \in Users :
             Cardinality({j \in Rows : /\ job[j].via = "create" /\ job[j].status # "cancelled"
                                       /\ job[j].user = u /\ job[j].video = v}) <= 1
=================================================================================
