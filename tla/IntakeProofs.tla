-------------------------------- MODULE IntakeProofs --------------------------------
(***************************************************************************)
(* No video is imported twice, nor created twice by one user, for any number  *)
(* of users, requests, tasks and jobs.  The argument: a request that has found    *)
(* the video missing holds a claim on it from then on, which becomes the job it     *)
(* writes; a second claim is made only where the video is counted as raced.         *)
(***************************************************************************)
EXTENDS Intake, FiniteSetTheorems, TLAPS

Legal == None \notin Videos

JobRows  == [user : Users, video : Videos \cup {None}, via : {"create", "force", "upload", "import"},
             status : {"active", "done", "cancelled"}, row : BOOLEAN]
Requests == [kind : {"create", "force", "upload", "import"}, user : Users, video : Videos \cup {None},
             job : Jobs, at : {"checked", "writing", "committed"}]
TaskRows == [user : Users, video : Videos \cup {None}, at : {"queued", "checked", "imported"}]

Types ==
    /\ job \in [Jobs -> JobRows \cup {None}]
    /\ client \in [Clients -> Requests \cup {None}]
    /\ task \in [Tasks -> TaskRows \cup {None}]
    /\ archives \subseteq Videos \cup {None}

\* The claims on a video.
ImportedJob(j, v)     == job[j] # None /\ job[j].via = "import" /\ job[j].video = v
ImportingClient(c, v) == client[c] # None /\ client[c].kind = "import" /\ client[c].video = v
ImportingTask(t, v)   == task[t] # None /\ task[t].at = "checked" /\ task[t].video = v

CreatedJob(j, u, v)     == /\ job[j] # None /\ job[j].via = "create" /\ job[j].status # "cancelled"
                           /\ job[j].user = u /\ job[j].video = v
CreatingClient(c, u, v) == /\ client[c] # None /\ client[c].kind = "create"
                           /\ client[c].user = u /\ client[c].video = v

OneImport(v) ==
    /\ \A i, j \in Jobs : ImportedJob(i, v) /\ ImportedJob(j, v) => i = j
    /\ \A c, d \in Clients : ImportingClient(c, v) /\ ImportingClient(d, v) => c = d
    /\ \A t, s \in Tasks : ImportingTask(t, v) /\ ImportingTask(s, v) => t = s
    /\ \A j \in Jobs, c \in Clients : ~(ImportedJob(j, v) /\ ImportingClient(c, v))
    /\ \A j \in Jobs, t \in Tasks : ~(ImportedJob(j, v) /\ ImportingTask(t, v))
    /\ \A c \in Clients, t \in Tasks : ~(ImportingClient(c, v) /\ ImportingTask(t, v))

OneCreate(u, v) ==
    /\ \A i, j \in Jobs : CreatedJob(i, u, v) /\ CreatedJob(j, u, v) => i = j
    /\ \A c, d \in Clients : CreatingClient(c, u, v) /\ CreatingClient(d, u, v) => c = d
    /\ \A j \in Jobs, c \in Clients : ~(CreatedJob(j, u, v) /\ CreatingClient(c, u, v))

ImportRows   == \A j \in Jobs : (job[j] # None /\ job[j].via = "import" /\ job[j].video # None) => job[j].row
OnceImported == \A v \in Videos \ raced : OneImport(v)
OnceCreated  == \A v \in Videos \ raced, u \in Users : OneCreate(u, v)

IInv == Types /\ ImportRows /\ OnceImported /\ OnceCreated

---------------------------------------------------------------------------------
\* Every step keeps the types of jobs, requests, tasks and archives.
LEMMA TypesKept == ASSUME Legal, Types, [Next]_vars PROVE Types'
<1> USE DEF Types
<1>1. job' \in [Jobs -> JobRows \cup {None}]
  <2>1. ASSUME NEW i \in Jobs, NEW row \in JobRows \cup {None}, job' = [job EXCEPT ![i] = row]
        PROVE  job' \in [Jobs -> JobRows \cup {None}]
    BY <2>1
  <2>2. ASSUME NEW c \in Clients, CreateCommits(c) PROVE job' \in [Jobs -> JobRows \cup {None}]
    <3>1. client[c] \in Requests
      BY <2>2 DEF CreateCommits
    <3>2. client[c].job \in Jobs /\ Job(client[c].user, client[c].video, client[c].kind, "active", FALSE) \in JobRows
      BY <3>1 DEF Requests, JobRows, Job
    <3> QED
      BY <2>1, <2>2, <3>2 DEF CreateCommits
  <2>3. ASSUME NEW c \in Clients, UploadCommits(c) PROVE job' \in [Jobs -> JobRows \cup {None}]
    <3>1. client[c] \in Requests
      BY <2>3 DEF UploadCommits, Uploading
    <3>2. client[c].job \in Jobs /\ Job(client[c].user, None, "upload", "active", FALSE) \in JobRows
      BY <3>1 DEF Requests, JobRows, Job
    <3> QED
      BY <2>1, <2>3, <3>2 DEF UploadCommits
  <2>4. ASSUME NEW c \in Clients, ImportCommits(c) PROVE job' \in [Jobs -> JobRows \cup {None}]
    <3>1. client[c] \in Requests
      BY <2>4 DEF ImportCommits
    <3>2. /\ client[c].job \in Jobs
          /\ Job(client[c].user, client[c].video, "import", "done", client[c].video # None) \in JobRows
      BY <3>1 DEF Requests, JobRows, Job
    <3> QED
      BY <2>1, <2>4, <3>2 DEF ImportCommits, Import
  <2>5. ASSUME NEW t \in Tasks, TaskCommits(t) PROVE job' \in [Jobs -> JobRows \cup {None}]
    <3>1. task[t] \in TaskRows
      BY <2>5 DEF TaskCommits, At
    <3>2. Job(task[t].user, task[t].video, "import", "done", task[t].video # None) \in JobRows
      BY <3>1 DEF TaskRows, JobRows, Job
    <3>3. PICK j \in Jobs : job' = [job EXCEPT ![j] = Job(task[t].user, task[t].video, "import", "done",
                                                          task[t].video # None)]
      BY <2>5 DEF TaskCommits, Import, Fresh
    <3> QED
      BY <2>1, <3>2, <3>3
  <2>6. ASSUME NEW j \in Jobs, Describe(j) \/ End(j) \/ Resume(j) PROVE job' \in [Jobs -> JobRows \cup {None}]
    <3>1. job[j] \in JobRows
      BY <2>6 DEF Describe, End, Resume, Rows
    <3>2. PICK s \in {"active", "done", "cancelled"} : \/ job' = [job EXCEPT ![j].row = TRUE]
                                                       \/ job' = [job EXCEPT ![j].status = s]
      BY <2>6 DEF Describe, End, Resume
    <3>3. [job[j] EXCEPT !.row = TRUE] \in JobRows /\ [job[j] EXCEPT !.status = s] \in JobRows
      BY <3>1 DEF JobRows
    <3> QED
      BY <3>2, <3>3
  <2>7. ASSUME NEW j \in Jobs, Delete(j) PROVE job' \in [Jobs -> JobRows \cup {None}]
    BY <2>1, <2>7 DEF Delete
  <2>8. CASE UNCHANGED job
    BY <2>8
  <2> QED
    BY <2>2, <2>3, <2>4, <2>5, <2>6, <2>7, <2>8 DEF Next, vars, CreateChecks, UploadWrites, ImportChecks, UploadRefused,
         UploadBreaks, UploadAnswered, UploadFails, ImportUpload, TaskChecks, TaskEnds, Die, Export
<1>2. client' \in [Clients -> Requests \cup {None}]
  <2>1. ASSUME NEW c \in Clients, NEW r \in Requests \cup {None}, client' = [client EXCEPT ![c] = r]
        PROVE  client' \in [Clients -> Requests \cup {None}]
    BY <2>1
  <2>2. ASSUME NEW c \in Clients, NEW u \in Users, NEW v \in Videos, NEW force \in BOOLEAN, CreateChecks(c, u, v, force)
        PROVE  client' \in [Clients -> Requests \cup {None}]
    <3>1. PICK j \in Jobs : client' = [client EXCEPT ![c] = Request(IF force THEN "force" ELSE "create", u, v, j, "checked")]
      BY <2>2 DEF CreateChecks, Fresh
    <3>2. Request(IF force THEN "force" ELSE "create", u, v, j, "checked") \in Requests
      BY DEF Request, Requests
    <3> QED
      BY <2>1, <3>1, <3>2
  <2>3. ASSUME NEW c \in Clients, NEW u \in Users, UploadWrites(c, u)
        PROVE  client' \in [Clients -> Requests \cup {None}]
    <3>1. PICK j \in Jobs : client' = [client EXCEPT ![c] = Request("upload", u, None, j, "writing")]
      BY <2>3 DEF UploadWrites, Fresh
    <3>2. Request("upload", u, None, j, "writing") \in Requests
      BY DEF Request, Requests
    <3> QED
      BY <2>1, <3>1, <3>2
  <2>4. ASSUME NEW c \in Clients, NEW u \in Users, NEW v \in archives, ImportChecks(c, u, v)
        PROVE  client' \in [Clients -> Requests \cup {None}]
    <3>1. PICK j \in Jobs : client' = [client EXCEPT ![c] = Request("import", u, v, j, "checked")]
      BY <2>4 DEF ImportChecks, Fresh
    <3>2. Request("import", u, v, j, "checked") \in Requests
      BY DEF Request, Requests
    <3> QED
      BY <2>1, <3>1, <3>2
  <2>5. ASSUME NEW c \in Clients, UploadCommits(c) PROVE client' \in [Clients -> Requests \cup {None}]
    <3>1. client[c] \in Requests /\ client' = [client EXCEPT ![c].at = "committed"]
      BY <2>5 DEF UploadCommits, Uploading
    <3>2. [client[c] EXCEPT !.at = "committed"] \in Requests
      BY <3>1 DEF Requests
    <3> QED
      BY <3>1, <3>2
  <2>6. ASSUME NEW c \in Clients, Answered(c) PROVE client' \in [Clients -> Requests \cup {None}]
    BY <2>1, <2>6 DEF Answered
  <2>7. CASE UNCHANGED client
    BY <2>7
  <2>8. ASSUME NEW c \in Clients, \/ CreateCommits(c) \/ ImportCommits(c) \/ UploadRefused(c)
                                  \/ UploadBreaks(c) \/ UploadAnswered(c) \/ UploadFails(c)
        PROVE  Answered(c)
    BY <2>8 DEF CreateCommits, ImportCommits, UploadRefused, UploadBreaks, UploadAnswered, UploadFails
  <2>9. ASSUME NEW t \in Tasks, \/ \E u \in Users, v \in archives : ImportUpload(t, u, v)
                                \/ TaskChecks(t) \/ TaskCommits(t) \/ TaskEnds(t) \/ Die(t)
        PROVE  UNCHANGED client
    BY <2>9 DEF ImportUpload, TaskChecks, TaskCommits, TaskEnds, Die
  <2>10. ASSUME NEW j \in Jobs, Describe(j) \/ End(j) \/ Resume(j) \/ Export(j) \/ Delete(j)
         PROVE  UNCHANGED client
    BY <2>10 DEF Describe, End, Resume, Export, Delete
  <2> QED
    BY <2>2, <2>3, <2>4, <2>5, <2>6, <2>7, <2>8, <2>9, <2>10 DEF Next, vars
<1>3. task' \in [Tasks -> TaskRows \cup {None}]
  <2>1. ASSUME NEW t \in Tasks, NEW s \in {"queued", "checked", "imported"}, task[t] # None, task' = [task EXCEPT ![t].at = s]
        PROVE  task' \in [Tasks -> TaskRows \cup {None}]
    <3>1. task[t] \in TaskRows
      BY <2>1
    <3>2. [task[t] EXCEPT !.at = s] \in TaskRows
      BY <3>1 DEF TaskRows
    <3> QED
      BY <2>1, <3>2
  <2>2. ASSUME NEW t \in Tasks, NEW u \in Users, NEW v \in archives, ImportUpload(t, u, v)
        PROVE  task' \in [Tasks -> TaskRows \cup {None}]
    <3>1. [user |-> u, video |-> v, at |-> "queued"] \in TaskRows
      BY DEF TaskRows
    <3> QED
      BY <2>2, <3>1 DEF ImportUpload
  <2>3. ASSUME NEW t \in Tasks, TaskChecks(t) \/ TaskCommits(t) \/ Die(t) PROVE task' \in [Tasks -> TaskRows \cup {None}]
    <3>1. CASE TaskChecks(t)
      BY <2>1, <3>1 DEF TaskChecks, At
    <3>2. CASE TaskCommits(t)
      BY <2>1, <3>2 DEF TaskCommits, At
    <3>3. CASE Die(t)
      BY <2>1, <3>3 DEF Die, At
    <3> QED
      BY <2>3, <3>1, <3>2, <3>3
  <2>4. ASSUME NEW t \in Tasks, TaskEnds(t) PROVE task' \in [Tasks -> TaskRows \cup {None}]
    BY <2>4 DEF TaskEnds
  <2>5. CASE UNCHANGED task
    BY <2>5
  <2> QED
    BY <2>2, <2>3, <2>4, <2>5 DEF Next, vars, CreateChecks, CreateCommits, UploadWrites, ImportChecks, ImportCommits,
         UploadRefused, UploadBreaks, UploadCommits, UploadAnswered, UploadFails, Describe, End, Resume, Export, Delete
<1>4. archives' \subseteq Videos \cup {None}
  <2>1. ASSUME NEW j \in Jobs, Export(j) PROVE archives' \subseteq Videos \cup {None}
    <3>1. job[j] \in JobRows
      BY <2>1 DEF Export, Rows
    <3> QED
      BY <2>1, <3>1 DEF Export, JobRows
  <2>2. CASE UNCHANGED archives
    BY <2>2
  <2> QED
    BY <2>1, <2>2 DEF Next, vars, CreateChecks, CreateCommits, UploadWrites, ImportChecks, ImportCommits, UploadRefused,
         UploadBreaks, UploadCommits, UploadAnswered, UploadFails, ImportUpload, TaskChecks, TaskCommits, TaskEnds, Die,
         Describe, End, Resume, Delete
<1> QED
  BY <1>1, <1>2, <1>3, <1>4

---------------------------------------------------------------------------------
\* What is counted as raced stays so.
LEMMA RacedGrows == [Next]_vars => raced \subseteq raced'
BY DEF Next, vars, CreateChecks, CreateCommits, UploadWrites, ImportChecks, Checked, ImportCommits, UploadRefused,
       UploadBreaks, UploadCommits, UploadAnswered, UploadFails, ImportUpload, TaskChecks, TaskCommits, TaskEnds, Die,
       Describe, End, Resume, Export, Delete

\* Only an import makes an imported job, and only a creation one that counts as
\* created, but for a cancelled one that comes back, which is counted as raced.
LEMMA JobClaims ==
    ASSUME Types, [Next]_vars, NEW v \in Videos \ raced', NEW j \in Jobs
    PROVE  /\ ImportedJob(j, v)' =>
                 \/ ImportedJob(j, v)
                 \/ \E c \in Clients : ImportCommits(c) /\ client[c].job = j /\ ImportingClient(c, v)
                 \/ \E t \in Tasks : TaskCommits(t) /\ ImportingTask(t, v)
           /\ \A u \in Users : CreatedJob(j, u, v)' =>
                 \/ CreatedJob(j, u, v)
                 \/ \E c \in Clients : CreateCommits(c) /\ client[c].job = j /\ CreatingClient(c, u, v)
<1> DEFINE Kept == /\ ImportedJob(j, v)' => ImportedJob(j, v)
                   /\ \A u \in Users : CreatedJob(j, u, v)' => CreatedJob(j, u, v)
<1> USE DEF Types
<1>1. ASSUME NEW c \in Clients, CreateCommits(c)
      PROVE  /\ ImportedJob(j, v)' => ImportedJob(j, v)
             /\ \A u \in Users : CreatedJob(j, u, v)' =>
                    CreatedJob(j, u, v) \/ (client[c].job = j /\ CreatingClient(c, u, v))
  <2> DEFINE i   == client[c].job
             row == Job(client[c].user, client[c].video, client[c].kind, "active", FALSE)
  <2>1. client[c] # None /\ i \in Jobs /\ client[c].kind # "import"
    BY <1>1 DEF CreateCommits, Requests
  <2>2. job' = job \/ job' = [job EXCEPT ![i] = row]
    BY <1>1 DEF CreateCommits
  <2>3. row.via = client[c].kind /\ row.user = client[c].user /\ row.video = client[c].video
    BY DEF Job
  <2> HIDE DEF i, row
  <2>4. job'[j] = job[j] \/ (j = i /\ job'[j] = row)
    BY <2>1, <2>2
  <2>5. CASE job'[j] = job[j]
    BY <2>5 DEF ImportedJob, CreatedJob
  <2>6. CASE j = i /\ job'[j] = row
    BY <2>1, <2>3, <2>6 DEF ImportedJob, CreatedJob, CreatingClient, i
  <2> QED
    BY <2>4, <2>5, <2>6
<1>2. ASSUME NEW c \in Clients, UploadCommits(c) PROVE Kept
  <2>1. client[c].job \in Jobs
    BY <1>2 DEF UploadCommits, Uploading, Requests
  <2>2. job'[j] = job[j] \/ job'[j].via = "upload"
    BY <1>2, <2>1 DEF UploadCommits, Job
  <2> QED
    BY <2>2 DEF ImportedJob, CreatedJob
<1>3. ASSUME NEW c \in Clients, ImportCommits(c)
      PROVE  /\ ImportedJob(j, v)' => ImportedJob(j, v) \/ (client[c].job = j /\ ImportingClient(c, v))
             /\ \A u \in Users : CreatedJob(j, u, v)' => CreatedJob(j, u, v)
  <2> DEFINE i   == client[c].job
             row == Job(client[c].user, client[c].video, "import", "done", client[c].video # None)
  <2>1. client[c] # None /\ client[c].kind = "import" /\ i \in Jobs
    BY <1>3 DEF ImportCommits, Requests
  <2>2. job' = job \/ job' = [job EXCEPT ![i] = row]
    BY <1>3 DEF ImportCommits, Import
  <2>3. row.via = "import" /\ row.video = client[c].video
    BY DEF Job
  <2> HIDE DEF i, row
  <2>4. job'[j] = job[j] \/ (j = i /\ job'[j] = row)
    BY <2>1, <2>2
  <2>5. CASE job'[j] = job[j]
    BY <2>5 DEF ImportedJob, CreatedJob
  <2>6. CASE j = i /\ job'[j] = row
    BY <2>1, <2>3, <2>6 DEF ImportedJob, CreatedJob, ImportingClient, i
  <2> QED
    BY <2>4, <2>5, <2>6
<1>4. ASSUME NEW t \in Tasks, TaskCommits(t)
      PROVE  /\ ImportedJob(j, v)' => ImportedJob(j, v) \/ ImportingTask(t, v)
             /\ \A u \in Users : CreatedJob(j, u, v)' => CreatedJob(j, u, v)
  <2> DEFINE row == Job(task[t].user, task[t].video, "import", "done", task[t].video # None)
  <2>1. task[t] # None /\ task[t].at = "checked" /\ \E i \in Jobs : job' = [job EXCEPT ![i] = row]
    BY <1>4 DEF TaskCommits, At, Import, Fresh
  <2>2. row.via = "import" /\ row.video = task[t].video
    BY DEF Job
  <2> HIDE DEF row
  <2>3. job'[j] = job[j] \/ job'[j] = row
    BY <2>1
  <2> QED
    BY <2>1, <2>2, <2>3 DEF ImportedJob, CreatedJob, ImportingTask
<1>5. ASSUME NEW i \in Jobs, Describe(i) \/ Delete(i) PROVE Kept
  <2>1. CASE Describe(i)
    <3>1. job[i] # None /\ job[i] \in JobRows /\ job' = [job EXCEPT ![i].row = TRUE]
      BY <2>1 DEF Describe, Rows
    <3>2. /\ job'[j] = job[j] \/ (j = i /\ job'[j] = [job[i] EXCEPT !.row = TRUE])
      BY <3>1
    <3> QED
      BY <3>1, <3>2 DEF ImportedJob, CreatedJob, JobRows
  <2>2. CASE Delete(i)
    BY <2>2 DEF Delete, ImportedJob, CreatedJob
  <2> QED
    BY <1>5, <2>1, <2>2
<1>6. ASSUME NEW i \in Jobs, End(i) \/ Resume(i) PROVE Kept
  <2>1. PICK s : job' = [job EXCEPT ![i].status = s]
    BY <1>6 DEF End, Resume
  <2>2. job[i] # None /\ job[i] \in JobRows
    BY <1>6 DEF End, Resume, Rows
  <2>3. /\ job'[j] = job[j] \/ (j = i /\ job'[j] = [job[i] EXCEPT !.status = s])
    BY <2>1, <2>2
  <2>4. CASE job'[j] = job[j]
    BY <2>4 DEF ImportedJob, CreatedJob
  <2>5. CASE j = i /\ job'[j] = [job[i] EXCEPT !.status = s]
    <3>1. /\ job'[j].via = job[j].via /\ job'[j].user = job[j].user /\ job'[j].video = job[j].video /\ job[j] # None
      BY <2>2, <2>5 DEF JobRows
    <3>2. (job[j].status = "cancelled" /\ job[j].via = "create") => job[j].video # v
      BY <1>6, <2>5 DEF End, Resume
    <3> QED
      BY <3>1, <3>2 DEF ImportedJob, CreatedJob
  <2> QED
    BY <2>3, <2>4, <2>5
<1>7. CASE UNCHANGED job
  BY <1>7 DEF ImportedJob, CreatedJob
<1>8. ASSUME NEW c \in Clients, \/ \E u \in Users : \/ UploadWrites(c, u)
                                                    \/ \E w \in Videos, f \in BOOLEAN : CreateChecks(c, u, w, f)
                                                    \/ \E w \in archives : ImportChecks(c, u, w)
                                \/ UploadRefused(c) \/ UploadBreaks(c) \/ UploadAnswered(c) \/ UploadFails(c)
      PROVE  UNCHANGED job
  BY <1>8 DEF UploadWrites, CreateChecks, ImportChecks, UploadRefused, UploadBreaks, UploadAnswered, UploadFails
<1>9. ASSUME NEW t \in Tasks, \/ \E u \in Users, w \in archives : ImportUpload(t, u, w)
                              \/ TaskChecks(t) \/ TaskEnds(t) \/ Die(t)
      PROVE  UNCHANGED job
  BY <1>9 DEF ImportUpload, TaskChecks, TaskEnds, Die
<1>10. ASSUME NEW i \in Jobs, Export(i) PROVE UNCHANGED job
  BY <1>10 DEF Export
<1> QED
  BY <1>1, <1>2, <1>3, <1>4, <1>5, <1>6, <1>7, <1>8, <1>9, <1>10 DEF Next, vars

\* A request's claim is made where it looks, and by nothing else; so is a task's.
LEMMA ClientClaims ==
    ASSUME Types, [Next]_vars, NEW v \in Videos, NEW d \in Clients
    PROVE  /\ ImportingClient(d, v)' => ImportingClient(d, v) \/ \E u \in Users : v \in archives /\ ImportChecks(d, u, v)
           /\ \A u \in Users : CreatingClient(d, u, v)' => CreatingClient(d, u, v) \/ CreateChecks(d, u, v, FALSE)
<1> USE DEF Types
<1> DEFINE Kept == /\ ImportingClient(d, v)' => ImportingClient(d, v)
                   /\ \A u \in Users : CreatingClient(d, u, v)' => CreatingClient(d, u, v)
<1>1. ASSUME NEW c \in Clients, NEW u \in Users, NEW w \in Videos, NEW f \in BOOLEAN, CreateChecks(c, u, w, f)
      PROVE  /\ ImportingClient(d, v)' => ImportingClient(d, v)
             /\ \A x \in Users : CreatingClient(d, x, v)' => CreatingClient(d, x, v) \/ CreateChecks(d, x, v, FALSE)
  <2>1. PICK j \in Jobs : client' = [client EXCEPT ![c] = Request(IF f THEN "force" ELSE "create", u, w, j, "checked")]
    BY <1>1 DEF CreateChecks, Fresh
  <2> DEFINE r == Request(IF f THEN "force" ELSE "create", u, w, j, "checked")
  <2>2. r.kind = (IF f THEN "force" ELSE "create") /\ r.user = u /\ r.video = w
    BY DEF Request
  <2> HIDE DEF r
  <2>3. client'[d] = client[d] \/ (c = d /\ client'[d] = r)
    BY <2>1 DEF r
  <2>4. CASE client'[d] = client[d]
    BY <2>4 DEF ImportingClient, CreatingClient
  <2>5. CASE c = d /\ client'[d] = r
    <3>1. client'[d].kind # "import" /\ (client'[d].kind = "create" => f = FALSE)
      BY <2>2, <2>5
    <3>2. client'[d].user = u /\ client'[d].video = w
      BY <2>2, <2>5
    <3> QED
      BY <1>1, <2>5, <3>1, <3>2 DEF ImportingClient, CreatingClient
  <2> QED
    BY <2>3, <2>4, <2>5
<1>2. ASSUME NEW c \in Clients, NEW u \in Users, UploadWrites(c, u) PROVE Kept
  <2>1. PICK j \in Jobs : client' = [client EXCEPT ![c] = Request("upload", u, None, j, "writing")]
    BY <1>2 DEF UploadWrites, Fresh
  <2>2. client'[d] = client[d] \/ client'[d].kind = "upload"
    BY <2>1 DEF Request
  <2> QED
    BY <2>2 DEF ImportingClient, CreatingClient
<1>3. ASSUME NEW c \in Clients, NEW u \in Users, NEW w \in archives, ImportChecks(c, u, w)
      PROVE  /\ ImportingClient(d, v)' => ImportingClient(d, v) \/ \E x \in Users : v \in archives /\ ImportChecks(d, x, v)
             /\ \A x \in Users : CreatingClient(d, x, v)' => CreatingClient(d, x, v)
  <2>1. PICK j \in Jobs : client' = [client EXCEPT ![c] = Request("import", u, w, j, "checked")]
    BY <1>3 DEF ImportChecks, Fresh
  <2>2. client'[d] = client[d] \/ (c = d /\ client'[d].kind = "import" /\ client'[d].video = w)
    BY <2>1 DEF Request
  <2> QED
    BY <1>3, <2>2 DEF ImportingClient, CreatingClient
<1>4. ASSUME NEW c \in Clients, UploadCommits(c) PROVE Kept
  <2>1. client[c] # None /\ client[c] \in Requests /\ client' = [client EXCEPT ![c].at = "committed"]
    BY <1>4 DEF UploadCommits, Uploading
  <2>2. client'[d] = client[d] \/ (c = d /\ client'[d] = [client[d] EXCEPT !.at = "committed"])
    BY <2>1
  <2> QED
    BY <2>1, <2>2 DEF ImportingClient, CreatingClient, Requests
<1>5. ASSUME NEW c \in Clients, \/ CreateCommits(c) \/ ImportCommits(c) \/ UploadRefused(c)
                                \/ UploadBreaks(c) \/ UploadAnswered(c) \/ UploadFails(c)
      PROVE  Kept
  <2>1. client' = [client EXCEPT ![c] = None]
    BY <1>5 DEF CreateCommits, ImportCommits, UploadRefused, UploadBreaks, UploadAnswered, UploadFails, Answered
  <2>2. client'[d] = client[d] \/ client'[d] = None
    BY <2>1
  <2> QED
    BY <2>2 DEF ImportingClient, CreatingClient
<1>6. CASE UNCHANGED client
  BY <1>6 DEF ImportingClient, CreatingClient
<1>7. ASSUME NEW t \in Tasks, \/ \E u \in Users, w \in archives : ImportUpload(t, u, w)
                              \/ TaskChecks(t) \/ TaskCommits(t) \/ TaskEnds(t) \/ Die(t)
      PROVE  UNCHANGED client
  BY <1>7 DEF ImportUpload, TaskChecks, TaskCommits, TaskEnds, Die
<1>8. ASSUME NEW j \in Jobs, Describe(j) \/ End(j) \/ Resume(j) \/ Export(j) \/ Delete(j)
      PROVE  UNCHANGED client
  BY <1>8 DEF Describe, End, Resume, Export, Delete
<1> QED
  BY <1>1, <1>2, <1>3, <1>4, <1>5, <1>6, <1>7, <1>8 DEF Next, vars

LEMMA TaskClaims ==
    ASSUME Types, [Next]_vars, NEW v \in Videos, NEW s \in Tasks
    PROVE  ImportingTask(s, v)' => ImportingTask(s, v) \/ (TaskChecks(s) /\ task[s].video = v)
<1> USE DEF Types
<1> DEFINE Kept == ImportingTask(s, v)' => ImportingTask(s, v)
<1>1. ASSUME NEW t \in Tasks, TaskChecks(t)
      PROVE  ImportingTask(s, v)' => ImportingTask(s, v) \/ (TaskChecks(s) /\ task[s].video = v)
  <2>1. task[t] # None /\ task[t] \in TaskRows /\ task' = [task EXCEPT ![t].at = "checked"]
    BY <1>1 DEF TaskChecks, At
  <2>2. task'[s] = task[s] \/ (s = t /\ task'[s].video = task[s].video)
    BY <2>1 DEF TaskRows
  <2> QED
    BY <1>1, <2>2 DEF ImportingTask
<1>2. ASSUME NEW t \in Tasks, NEW place \in {"queued", "imported"}, task[t] # None, task' = [task EXCEPT ![t].at = place]
      PROVE  Kept
  <2>1. task[t] \in TaskRows
    BY <1>2
  <2>2. task'[s] = task[s] \/ task'[s].at = place
    BY <1>2, <2>1 DEF TaskRows
  <2> QED
    BY <2>2 DEF ImportingTask
<1>3. ASSUME NEW t \in Tasks, TaskCommits(t) PROVE Kept
  BY <1>2, <1>3 DEF TaskCommits, At
<1>4. ASSUME NEW t \in Tasks, Die(t) PROVE Kept
  BY <1>2, <1>4 DEF Die, At
<1>5. ASSUME NEW t \in Tasks, TaskEnds(t) PROVE Kept
  BY <1>5 DEF TaskEnds, ImportingTask
<1>6. ASSUME NEW t \in Tasks, NEW u \in Users, NEW w \in archives, ImportUpload(t, u, w) PROVE Kept
  <2>1. task'[s] = task[s] \/ task'[s].at = "queued"
    BY <1>6 DEF ImportUpload
  <2> QED
    BY <2>1 DEF ImportingTask
<1>7. CASE UNCHANGED task
  BY <1>7 DEF ImportingTask
<1>8. ASSUME NEW c \in Clients, \/ \E u \in Users : \/ UploadWrites(c, u)
                                                    \/ \E w \in Videos, f \in BOOLEAN : CreateChecks(c, u, w, f)
                                                    \/ \E w \in archives : ImportChecks(c, u, w)
                                \/ CreateCommits(c) \/ ImportCommits(c) \/ UploadCommits(c)
                                \/ UploadRefused(c) \/ UploadBreaks(c) \/ UploadAnswered(c) \/ UploadFails(c)
      PROVE  UNCHANGED task
  BY <1>8 DEF UploadWrites, CreateChecks, ImportChecks, CreateCommits, ImportCommits, UploadCommits,
              UploadRefused, UploadBreaks, UploadAnswered, UploadFails
<1>9. ASSUME NEW j \in Jobs, Describe(j) \/ End(j) \/ Resume(j) \/ Export(j) \/ Delete(j)
      PROVE  UNCHANGED task
  BY <1>9 DEF Describe, End, Resume, Export, Delete
<1> QED
  BY <1>1, <1>3, <1>4, <1>5, <1>6, <1>7, <1>8, <1>9 DEF Next, vars

\* An imported job always has its row of videos, which is where a claim is looked for.
LEMMA ImportRowsKept == ASSUME Legal, Types, ImportRows, [Next]_vars PROVE ImportRows'
<1> USE DEF Types, ImportRows
<1> DEFINE Told(j) == (job'[j] # None /\ job'[j].via = "import" /\ job'[j].video # None) => job'[j].row
<1>0. ASSUME \A j \in Jobs : Told(j) PROVE ImportRows'
  BY <1>0
<1>1. ASSUME NEW i \in Jobs, NEW row, job' = [job EXCEPT ![i] = row],
             row # None => (row.via # "import" \/ row.row = (row.video # None))
      PROVE  ImportRows'
  <2>1. ASSUME NEW j \in Jobs PROVE job'[j] = job[j] \/ job'[j] = row
    BY <1>1
  <2> QED
    BY <1>0, <1>1, <2>1
<1>2. ASSUME NEW c \in Clients, CreateCommits(c) PROVE ImportRows'
  <2> DEFINE row == Job(client[c].user, client[c].video, client[c].kind, "active", FALSE)
  <2>1. client[c].job \in Jobs /\ row.via # "import"
    BY <1>2 DEF CreateCommits, Requests, Job
  <2>2. job' = job \/ job' = [job EXCEPT ![client[c].job] = row]
    BY <1>2 DEF CreateCommits
  <2> HIDE DEF row
  <2> QED
    BY <1>1, <2>1, <2>2
<1>3. ASSUME NEW c \in Clients, UploadCommits(c) PROVE ImportRows'
  <2> DEFINE row == Job(client[c].user, None, "upload", "active", FALSE)
  <2>1. client[c].job \in Jobs /\ row.via # "import"
    BY <1>3 DEF UploadCommits, Uploading, Requests, Job
  <2>2. job' = [job EXCEPT ![client[c].job] = row]
    BY <1>3 DEF UploadCommits
  <2> HIDE DEF row
  <2> QED
    BY <1>1, <2>1, <2>2
<1>4. ASSUME NEW c \in Clients, ImportCommits(c) PROVE ImportRows'
  <2> DEFINE row == Job(client[c].user, client[c].video, "import", "done", client[c].video # None)
  <2>1. client[c].job \in Jobs
    BY <1>4 DEF ImportCommits, Requests
  <2>2. row.row = (row.video # None)
    BY DEF Job
  <2>3. job' = job \/ job' = [job EXCEPT ![client[c].job] = row]
    BY <1>4 DEF ImportCommits, Import
  <2> HIDE DEF row
  <2> QED
    BY <1>1, <2>1, <2>2, <2>3
<1>5. ASSUME NEW t \in Tasks, TaskCommits(t) PROVE ImportRows'
  <2> DEFINE row == Job(task[t].user, task[t].video, "import", "done", task[t].video # None)
  <2>1. PICK i \in Jobs : job' = [job EXCEPT ![i] = row]
    BY <1>5 DEF TaskCommits, Import, Fresh
  <2>2. row.row = (row.video # None)
    BY DEF Job
  <2> HIDE DEF row
  <2> QED
    BY <1>1, <2>1, <2>2
<1>6. ASSUME NEW i \in Jobs, Describe(i) \/ End(i) \/ Resume(i) PROVE ImportRows'
  <2>1. job[i] # None /\ job[i] \in JobRows
    BY <1>6 DEF Describe, End, Resume, Rows
  <2>2. PICK s : job' = [job EXCEPT ![i].row = TRUE] \/ job' = [job EXCEPT ![i].status = s]
    BY <1>6 DEF Describe, End, Resume
  <2>3. ASSUME NEW j \in Jobs
        PROVE  \/ job'[j] = job[j]
               \/ j = i /\ (job'[j] = [job[i] EXCEPT !.row = TRUE] \/ job'[j] = [job[i] EXCEPT !.status = s])
    BY <2>2
  <2>4. ASSUME NEW j \in Jobs PROVE Told(j)
    BY <2>1, <2>3, <2>4 DEF JobRows
  <2> QED
    BY <1>0, <2>4
<1>7. ASSUME NEW i \in Jobs, Delete(i) PROVE ImportRows'
  BY <1>1, <1>7 DEF Delete
<1>8. CASE UNCHANGED job
  BY <1>8
<1>9. ASSUME NEW c \in Clients, \/ \E u \in Users : \/ UploadWrites(c, u)
                                                    \/ \E w \in Videos, f \in BOOLEAN : CreateChecks(c, u, w, f)
                                                    \/ \E w \in archives : ImportChecks(c, u, w)
                                \/ UploadRefused(c) \/ UploadBreaks(c) \/ UploadAnswered(c) \/ UploadFails(c)
      PROVE  UNCHANGED job
  BY <1>9 DEF UploadWrites, CreateChecks, ImportChecks, UploadRefused, UploadBreaks, UploadAnswered, UploadFails
<1>10. ASSUME NEW t \in Tasks, \/ \E u \in Users, w \in archives : ImportUpload(t, u, w)
                               \/ TaskChecks(t) \/ TaskEnds(t) \/ Die(t)
       PROVE  UNCHANGED job
  BY <1>10 DEF ImportUpload, TaskChecks, TaskEnds, Die
<1>11. ASSUME NEW i \in Jobs, Export(i) PROVE UNCHANGED job
  BY <1>11 DEF Export
<1> QED
  BY <1>2, <1>3, <1>4, <1>5, <1>6, <1>7, <1>8, <1>9, <1>10, <1>11 DEF Next, vars

---------------------------------------------------------------------------------
\* A second claim to import a video is made only where it counts as raced, and a
\* claim becomes the job of the one who held it.
LEMMA OnceImportedKept ==
    ASSUME Legal, Types, ImportRows, OnceImported, [Next]_vars
    PROVE  OnceImported'
<1> SUFFICES ASSUME NEW v \in Videos \ raced' PROVE OneImport(v)'
  BY DEF OnceImported
<1> DEFINE JobsKept    == \A j \in Jobs : ImportedJob(j, v)' => ImportedJob(j, v)
           ClientsKept == \A c \in Clients : ImportingClient(c, v)' => ImportingClient(c, v)
           TasksKept   == \A t \in Tasks : ImportingTask(t, v)' => ImportingTask(t, v)
<1>0. v \in Videos /\ v # None /\ OneImport(v)
  BY RacedGrows DEF OnceImported, Legal
<1>1. ASSUME JobsKept, ClientsKept, TasksKept PROVE OneImport(v)'
  BY <1>0, <1>1 DEF OneImport
<1>2. ASSUME NEW u \in Users, Checked(u, v)
      PROVE  /\ \A j \in Jobs : ~ImportedJob(j, v)
             /\ \A c \in Clients : ~ImportingClient(c, v)
             /\ \A t \in Tasks : ~ImportingTask(t, v)
  <2>1. ~Imported(u, v) /\ ~Importing(v)
    BY <1>0, <1>2 DEF Checked
  <2> QED
    BY <1>0, <2>1 DEF Imported, Importing, Rows, ImportRows, ImportedJob, ImportingClient, ImportingTask
<1>3. ASSUME NEW c \in Clients, NEW u \in Users, NEW w \in archives, ImportChecks(c, u, w) PROVE OneImport(v)'
  <2>1. job' = job /\ task' = task
    BY <1>3 DEF ImportChecks
  <2>2. JobsKept /\ TasksKept
    BY <2>1 DEF ImportedJob, ImportingTask
  <2>3. PICK j : client' = [client EXCEPT ![c] = Request("import", u, w, j, "checked")]
    BY <1>3 DEF ImportChecks
  <2>4. ASSUME NEW d \in Clients, ImportingClient(d, v)' PROVE ImportingClient(d, v) \/ (d = c /\ w = v)
    BY <2>3, <2>4 DEF Types, ImportingClient, Request
  <2>5. CASE w = v
    <3>1. Checked(u, v)
      BY <1>3, <2>5 DEF ImportChecks
    <3> QED
      BY <1>2, <2>2, <2>4, <3>1 DEF OneImport
  <2>6. CASE w # v
    BY <1>1, <2>2, <2>4, <2>6
  <2> QED
    BY <2>5, <2>6
<1>4. ASSUME NEW t \in Tasks, TaskChecks(t) PROVE OneImport(v)'
  <2>1. job' = job /\ client' = client /\ task[t] # None /\ task[t] \in TaskRows
    BY <1>4 DEF TaskChecks, At, Types
  <2>2. JobsKept /\ ClientsKept
    BY <2>1 DEF ImportedJob, ImportingClient
  <2>3. task' = [task EXCEPT ![t].at = "checked"]
    BY <1>4 DEF TaskChecks
  <2>4. ASSUME NEW s \in Tasks, ImportingTask(s, v)' PROVE ImportingTask(s, v) \/ (s = t /\ task[t].video = v)
    BY <2>1, <2>3, <2>4 DEF Types, TaskRows, ImportingTask
  <2>5. CASE task[t].video = v
    <3>1. Checked(task[t].user, v) /\ task[t].user \in Users
      BY <1>4, <2>1, <2>5 DEF TaskChecks, TaskRows
    <3> QED
      BY <1>2, <2>2, <2>4, <3>1 DEF OneImport
  <2>6. CASE task[t].video # v
    BY <1>1, <2>2, <2>4, <2>6
  <2> QED
    BY <2>5, <2>6
<1>5. ASSUME NEW c \in Clients, ImportCommits(c) PROVE OneImport(v)'
  <2>1. task' = task /\ client' = [client EXCEPT ![c] = None] /\ client[c] # None
    BY <1>5 DEF ImportCommits, Answered
  <2>2. TasksKept /\ ClientsKept /\ ~ImportingClient(c, v)'
    BY <2>1 DEF ImportingTask, ImportingClient, Types
  <2>3. ASSUME NEW d \in Clients, ImportCommits(d) PROVE d = c
    BY <2>1, <2>3 DEF ImportCommits, Answered, Types
  <2>4. ASSUME NEW t \in Tasks PROVE ~TaskCommits(t)
    BY <2>1 DEF TaskCommits, Types
  <2>5. ASSUME NEW j \in Jobs, ImportedJob(j, v)'
        PROVE  ImportedJob(j, v) \/ (client[c].job = j /\ ImportingClient(c, v))
    BY <2>3, <2>4, <2>5, JobClaims
  <2> QED
    BY <1>0, <2>2, <2>5 DEF OneImport
<1>6. ASSUME NEW t \in Tasks, TaskCommits(t) PROVE OneImport(v)'
  <2>1. client' = client /\ task[t] # None /\ task[t] \in TaskRows /\ task' = [task EXCEPT ![t].at = "imported"]
    BY <1>6 DEF TaskCommits, At, Types
  <2>2. ClientsKept /\ TasksKept /\ ~ImportingTask(t, v)'
    BY <2>1 DEF ImportingClient, ImportingTask, Types, TaskRows
  <2>3. PICK i \in Jobs : job' = [job EXCEPT ![i] = Job(task[t].user, task[t].video, "import", "done", task[t].video # None)]
    BY <1>6 DEF TaskCommits, Import, Fresh
  <2>4. ImportingTask(t, v) <=> task[t].video = v
    BY <1>6, <2>1 DEF TaskCommits, At, ImportingTask
  <2>5. ASSUME NEW j \in Jobs, ImportedJob(j, v)' PROVE ImportedJob(j, v) \/ (j = i /\ ImportingTask(t, v))
    BY <2>3, <2>4, <2>5 DEF Types, ImportedJob, Job
  <2> QED
    BY <1>0, <2>2, <2>5 DEF OneImport
<1>7. CASE /\ ~\E c \in Clients, u \in Users : \E w \in archives : ImportChecks(c, u, w)
           /\ ~\E c \in Clients : ImportCommits(c)
           /\ ~\E t \in Tasks : TaskChecks(t) \/ TaskCommits(t)
  <2>1. JobsKept
    BY <1>7, JobClaims
  <2>2. ClientsKept
    BY <1>0, <1>7, ClientClaims
  <2>3. TasksKept
    BY <1>0, <1>7, TaskClaims
  <2> QED
    BY <1>1, <2>1, <2>2, <2>3
<1> QED
  BY <1>3, <1>4, <1>5, <1>6, <1>7

\* The same of creations, each user's own.
LEMMA OnceCreatedKept ==
    ASSUME Types, OnceCreated, [Next]_vars
    PROVE  OnceCreated'
<1> SUFFICES ASSUME NEW v \in Videos \ raced', NEW u \in Users PROVE OneCreate(u, v)'
  BY DEF OnceCreated
<1> DEFINE JobsKept    == \A j \in Jobs : CreatedJob(j, u, v)' => CreatedJob(j, u, v)
           ClientsKept == \A c \in Clients : CreatingClient(c, u, v)' => CreatingClient(c, u, v)
<1>0. v \in Videos /\ OneCreate(u, v)
  BY RacedGrows DEF OnceCreated
<1>1. ASSUME JobsKept, ClientsKept PROVE OneCreate(u, v)'
  BY <1>0, <1>1 DEF OneCreate
<1>2. ASSUME NEW c \in Clients, CreateChecks(c, u, v, FALSE) PROVE OneCreate(u, v)'
  <2>1. job' = job /\ ~Duplicate(u, v) /\ ~Creating(u, v)
    BY <1>2 DEF CreateChecks
  <2>2. \A j \in Jobs : ~CreatedJob(j, u, v)'
    BY <2>1 DEF Duplicate, Rows, CreatedJob
  <2>3. \A d \in Clients : ~CreatingClient(d, u, v)
    BY <2>1 DEF Creating, CreatingClient
  <2>4. PICK j : client' = [client EXCEPT ![c] = Request("create", u, v, j, "checked")]
    BY <1>2 DEF CreateChecks
  <2>5. ASSUME NEW d \in Clients, CreatingClient(d, u, v)' PROVE d = c
    BY <2>3, <2>4, <2>5 DEF Types, CreatingClient
  <2> QED
    BY <2>2, <2>5 DEF OneCreate
<1>3. ASSUME NEW c \in Clients, CreateCommits(c) PROVE OneCreate(u, v)'
  <2>1. client' = [client EXCEPT ![c] = None] /\ client[c] # None
    BY <1>3 DEF CreateCommits, Answered
  <2>2. ClientsKept /\ ~CreatingClient(c, u, v)'
    BY <2>1 DEF CreatingClient, Types
  <2>3. ASSUME NEW d \in Clients, CreateCommits(d) PROVE d = c
    BY <2>1, <2>3 DEF CreateCommits, Answered, Types
  <2>4. ASSUME NEW j \in Jobs, CreatedJob(j, u, v)'
        PROVE  CreatedJob(j, u, v) \/ (client[c].job = j /\ CreatingClient(c, u, v))
    BY <2>3, <2>4, JobClaims
  <2> QED
    BY <1>0, <2>2, <2>4 DEF OneCreate
<1>4. CASE /\ ~\E c \in Clients : CreateChecks(c, u, v, FALSE)
           /\ ~\E c \in Clients : CreateCommits(c)
  <2>1. JobsKept
    BY <1>4, JobClaims
  <2>2. ClientsKept
    BY <1>0, <1>4, ClientClaims
  <2> QED
    BY <1>1, <2>1, <2>2
<1> QED
  BY <1>2, <1>3, <1>4

---------------------------------------------------------------------------------
\* A set whose members are one and the same has one at most.
LEMMA AtMostOne == ASSUME NEW S, \A a, b \in S : a = b PROVE Cardinality(S) <= 1
<1>1. CASE S = {}
  BY <1>1, FS_EmptySet
<1>2. CASE S # {}
  <2>1. PICK a \in S : TRUE
    BY <1>2
  <2>2. S = {a}
    BY <2>1
  <2> QED
    BY <2>2, FS_Singleton
<1> QED
  BY <1>1, <1>2

\* The inductive invariant: claims of one kind on one video exclude each other.
THEOREM ClaimsExclusive == Legal => (Spec => []IInv)
<1> SUFFICES ASSUME Legal PROVE Spec => []IInv
  OBVIOUS
<1>1. Init => IInv
  BY DEF Init, IInv, Types, ImportRows, OnceImported, OnceCreated, OneImport, OneCreate, ImportedJob, ImportingClient,
         ImportingTask, CreatedJob, CreatingClient
<1>2. IInv /\ [Next]_vars => IInv'
  BY TypesKept, ImportRowsKept, OnceImportedKept, OnceCreatedKept DEF IInv
<1> QED
  BY <1>1, <1>2, PTL DEF Spec

\* No video is imported twice, nor created twice by one user, for any number of
\* users, videos, jobs, requests and tasks, as far as two have not raced for it.
THEOREM NeverTwice == Legal => (Spec => []OncePerVideo)
<1> SUFFICES ASSUME Legal PROVE Spec => []OncePerVideo
  OBVIOUS
<1>1. IInv => OncePerVideo
  <2> SUFFICES ASSUME IInv, NEW v \in Videos \ raced
               PROVE  /\ Cardinality({j \in Rows : job[j].via = "import" /\ job[j].video = v}) <= 1
                      /\ \A u \in Users :
                           Cardinality({j \in Rows : /\ job[j].via = "create" /\ job[j].status # "cancelled"
                                                     /\ job[j].user = u /\ job[j].video = v}) <= 1
    BY DEF OncePerVideo
  <2>1. Cardinality({j \in Rows : job[j].via = "import" /\ job[j].video = v}) <= 1
    <3> DEFINE S == {j \in Rows : job[j].via = "import" /\ job[j].video = v}
    <3>1. \A a, b \in S : a = b
      BY DEF IInv, OnceImported, OneImport, ImportedJob, Rows
    <3> HIDE DEF S
    <3>2. Cardinality(S) <= 1
      BY <3>1, AtMostOne
    <3> QED
      BY <3>2 DEF S
  <2>2. ASSUME NEW u \in Users
        PROVE  Cardinality({j \in Rows : /\ job[j].via = "create" /\ job[j].status # "cancelled"
                                         /\ job[j].user = u /\ job[j].video = v}) <= 1
    <3> DEFINE S == {j \in Rows : /\ job[j].via = "create" /\ job[j].status # "cancelled"
                                  /\ job[j].user = u /\ job[j].video = v}
    <3>1. \A a, b \in S : a = b
      BY DEF IInv, OnceCreated, OneCreate, CreatedJob, Rows
    <3> HIDE DEF S
    <3>2. Cardinality(S) <= 1
      BY <3>1, AtMostOne
    <3> QED
      BY <3>2 DEF S
  <2> QED
    BY <2>1, <2>2
<1> QED
  BY <1>1, ClaimsExclusive, PTL
=================================================================================
