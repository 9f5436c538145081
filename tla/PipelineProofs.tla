----------------------------- MODULE PipelineProofs -----------------------------
(***************************************************************************)
(* One job through its tasks, for any number of messages, any set of faults,  *)
(* any steps retried: types, and the three action properties that hold whether  *)
(* or not a task may outlive its claim; then what holds when none does.         *)
(***************************************************************************)
EXTENDS Pipeline, TLAPS

Statuses == Active \cup Ended \cup {"completed"}
Places   == {"free", "queued"} \cup Running

USE DEF Stages, Visual, Active, Ended, Running, Statuses, Places, TakeVisual, Snapshotting, Sliding

---------------------------------------------------------------------------------
(* What the helpers do to the types *)

BrokerOK ==
    /\ place \in [Ids -> Places]
    /\ stage \in [Ids -> Stages]
    /\ tries \in [Ids -> 0..2]
    /\ loaded \in [Ids -> [status : Statuses, task : Ids \cup {None}]]

StepsOK ==
    /\ step \in [Stages -> {"pending", "running", "completed", "failed", "skipped"}]
    /\ claim \in [Stages -> Ids \cup {None, Orphan}]

JobOK ==
    /\ mode \in Modes
    /\ status \in Statuses
    /\ taskId \in Ids \cup {None}
    /\ admitted \in BOOLEAN /\ creating \in BOOLEAN /\ cancelling \in BOOLEAN
    /\ outbox \subseteq Stages /\ asked \subseteq Stages

LEMMA TypeParts == TypeOK <=> BrokerOK /\ StepsOK /\ JobOK
BY DEF TypeOK, BrokerOK, StepsOK, JobOK

LEMMA MoveTypes ==
    ASSUME BrokerOK, NEW m \in Ids, NEW p \in Places, Move(m, p)
    PROVE  BrokerOK'
BY DEF BrokerOK, Move

LEMMA LoadTypes ==
    ASSUME BrokerOK, JobOK, NEW m \in Ids, NEW p \in Places, LoadAndMove(m, p)
    PROVE  BrokerOK'
BY DEF BrokerOK, JobOK, LoadAndMove

LEMMA AckTypes ==
    ASSUME BrokerOK, NEW m \in Ids, Ack(m)
    PROVE  BrokerOK'
BY DEF BrokerOK, Ack, NotLoaded

LEMMA RequeueTypes ==
    ASSUME BrokerOK, NEW m \in Ids, NEW n \in 0..2, Requeue(m, n)
    PROVE  BrokerOK'
BY DEF BrokerOK, Requeue, NotLoaded

LEMMA SendTypes ==
    ASSUME BrokerOK, NEW m \in Ids \cup {None}, NEW s \in Stages, Send(s, m)
    PROVE  BrokerOK'
BY DEF BrokerOK, Send, NotLoaded

LEMMA ClaimTypes ==
    ASSUME StepsOK, NEW m \in Ids, NEW s \in Stages, Claim(m, s)
    PROVE  StepsOK'
BY DEF StepsOK, Claim

LEMMA SettleTypes ==
    ASSUME StepsOK, NEW m \in Ids, NEW s \in Stages,
           NEW r \in {"completed", "failed"}, Settle(m, s, r)
    PROVE  StepsOK'
BY DEF StepsOK, Settle

LEMMA AbandonTypes ==
    ASSUME StepsOK, NEW m \in Ids, Abandon(m)
    PROVE  StepsOK'
BY DEF StepsOK, Abandon

LEMMA FailStepsTypes ==
    ASSUME StepsOK, FailSteps
    PROVE  StepsOK'
BY DEF StepsOK, FailSteps

LEMMA KeepTypes ==
    ASSUME JobOK, Keep, status' \in Statuses, taskId' \in Ids \cup {None},
           Release \/ UNCHANGED admitted, outbox' \subseteq Stages
    PROVE  JobOK'
BY DEF JobOK, Keep, Release, requests

LEMMA UnchangedTypes ==
    /\ BrokerOK /\ UNCHANGED broker => BrokerOK'
    /\ StepsOK /\ UNCHANGED steps => StepsOK'
    /\ JobOK /\ UNCHANGED <<job, outbox, requests>> => JobOK'
BY DEF BrokerOK, StepsOK, JobOK, broker, steps, job, requests
---------------------------------------------------------------------------------
\* Every reachable state of the job, its steps and the broker is well typed.
THEOREM TypeCorrect == Spec => []TypeOK
<1> USE PipelineAssumption
<1>1. Init => TypeOK
  <2> SUFFICES ASSUME Init PROVE BrokerOK /\ StepsOK /\ JobOK
    BY TypeParts
  <2>1. BrokerOK
    BY DEF Init, BrokerOK, NotLoaded
  <2>2. StepsOK
    BY DEF Init, StepsOK
  <2>3. JobOK
    BY DEF Init, JobOK
  <2> QED
    BY <2>1, <2>2, <2>3
<1>2. TypeOK /\ [Next]_vars => TypeOK'
  <2> SUFFICES ASSUME BrokerOK, StepsOK, JobOK, [Next]_vars PROVE BrokerOK' /\ StepsOK' /\ JobOK'
    BY DEF TypeOK, BrokerOK, StepsOK, JobOK
  <2>1. ASSUME NEW m \in Ids, StartTranscript(m) PROVE BrokerOK' /\ StepsOK' /\ JobOK'
    <3>1. BrokerOK'
      BY <2>1, MoveTypes, UnchangedTypes DEF StartTranscript, JobOK
    <3>2. StepsOK'
      BY <2>1, MoveTypes, UnchangedTypes DEF StartTranscript
    <3>3. JobOK'
      BY <2>1, KeepTypes DEF StartTranscript, JobOK
    <3> QED
      BY <3>1, <3>2, <3>3
  <2>2. ASSUME NEW m \in Ids, SkipTranscript(m) PROVE BrokerOK' /\ StepsOK' /\ JobOK'
    <3>1. BrokerOK'
      BY <2>2, AckTypes, UnchangedTypes DEF SkipTranscript, JobOK
    <3>2. StepsOK'
      BY <2>2, AckTypes, UnchangedTypes DEF SkipTranscript
    <3>3. JobOK'
      BY <2>2, KeepTypes DEF SkipTranscript, JobOK
    <3> QED
      BY <3>1, <3>2, <3>3
  <2>3. ASSUME NEW m \in Ids, ClaimTranscribe(m) PROVE BrokerOK' /\ StepsOK' /\ JobOK'
    <3>1. BrokerOK'
      BY <2>3, MoveTypes, ClaimTypes DEF ClaimTranscribe, JobOK
    <3>2. StepsOK'
      BY <2>3, MoveTypes, ClaimTypes DEF ClaimTranscribe
    <3>3. JobOK'
      BY <2>3, KeepTypes DEF ClaimTranscribe, JobOK
    <3> QED
      BY <3>1, <3>2, <3>3
  <2>4. ASSUME NEW m \in Ids, TranscribeRefused(m) PROVE BrokerOK' /\ StepsOK' /\ JobOK'
    <3>1. BrokerOK'
      BY <2>4, AckTypes, UnchangedTypes DEF TranscribeRefused, JobOK
    <3>2. StepsOK'
      BY <2>4, AckTypes, UnchangedTypes DEF TranscribeRefused
    <3>3. JobOK'
      BY <2>4, KeepTypes DEF TranscribeRefused, JobOK
    <3> QED
      BY <3>1, <3>2, <3>3
  <2>5. ASSUME NEW m \in Ids, Transcribed(m) PROVE BrokerOK' /\ StepsOK' /\ JobOK'
    <3>1. BrokerOK'
      BY <2>5, MoveTypes DEF Transcribed, StepsOK, JobOK
    <3>2. StepsOK'
      BY <2>5, MoveTypes DEF Transcribed, StepsOK
    <3>3. JobOK'
      BY <2>5, KeepTypes DEF Transcribed, StepsOK, JobOK
    <3> QED
      BY <3>1, <3>2, <3>3
  <2>6. ASSUME NEW m \in Ids, TranscriptOnly(m) PROVE BrokerOK' /\ StepsOK' /\ JobOK'
    <3>1. BrokerOK'
      BY <2>6, AckTypes, AbandonTypes, SettleTypes DEF TranscriptOnly, JobOK
    <3>2. StepsOK'
      BY <2>6, AckTypes, AbandonTypes, SettleTypes DEF TranscriptOnly
    <3>3. JobOK'
      BY <2>6, KeepTypes DEF TranscriptOnly, JobOK
    <3> QED
      BY <3>1, <3>2, <3>3
  <2>61. ASSUME NEW m \in Ids, TranscriptAgain(m) PROVE BrokerOK' /\ StepsOK' /\ JobOK'
    <3>1. BrokerOK'
      BY <2>61, MoveTypes, SettleTypes DEF TranscriptAgain, JobOK
    <3>2. StepsOK'
      BY <2>61, MoveTypes, SettleTypes DEF TranscriptAgain
    <3>3. JobOK'
      BY <2>61, KeepTypes DEF TranscriptAgain, JobOK
    <3> QED
      BY <3>1, <3>2, <3>3
  <2>7. ASSUME NEW m \in Ids, TranscriptEmpty(m) PROVE BrokerOK' /\ StepsOK' /\ JobOK'
    <3>1. BrokerOK'
      BY <2>7, AckTypes, SettleTypes DEF TranscriptEmpty, JobOK
    <3>2. StepsOK'
      BY <2>7, AckTypes, SettleTypes DEF TranscriptEmpty
    <3>3. JobOK'
      BY <2>7, KeepTypes DEF TranscriptEmpty, JobOK
    <3> QED
      BY <3>1, <3>2, <3>3
  <2>8. ASSUME NEW m \in Ids, TranscriptRaises(m) PROVE BrokerOK' /\ StepsOK' /\ JobOK'
    <3>1. BrokerOK'
      BY <2>8, AckTypes, RequeueTypes, SettleTypes DEF TranscriptRaises, BrokerOK, JobOK
    <3>2. StepsOK'
      BY <2>8, AckTypes, RequeueTypes, SettleTypes DEF TranscriptRaises, BrokerOK
    <3>3. JobOK'
      BY <2>8, KeepTypes DEF TranscriptRaises, BrokerOK, JobOK
    <3> QED
      BY <3>1, <3>2, <3>3
  <2>9. ASSUME NEW m \in Ids, DownloadedInline(m) PROVE BrokerOK' /\ StepsOK' /\ JobOK'
    <3>1. BrokerOK'
      BY <2>9, AckTypes, MoveTypes, SettleTypes DEF DownloadedInline, JobOK
    <3>2. StepsOK'
      BY <2>9, AckTypes, MoveTypes, SettleTypes DEF DownloadedInline
    <3>3. JobOK'
      BY <2>9, KeepTypes DEF DownloadedInline, JobOK
    <3> QED
      BY <3>1, <3>2, <3>3
  <2>10. ASSUME NEW m \in Ids, InlineDownloadFailed(m) PROVE BrokerOK' /\ StepsOK' /\ JobOK'
    <3>1. BrokerOK'
      BY <2>10, AckTypes, SettleTypes DEF InlineDownloadFailed, JobOK
    <3>2. StepsOK'
      BY <2>10, AckTypes, SettleTypes DEF InlineDownloadFailed
    <3>3. JobOK'
      BY <2>10, KeepTypes DEF InlineDownloadFailed, JobOK
    <3> QED
      BY <3>1, <3>2, <3>3
  <2>11. ASSUME NEW m \in Ids, HandOver(m) PROVE BrokerOK' /\ StepsOK' /\ JobOK'
    <3>1. BrokerOK'
      BY <2>11, SendTypes, UnchangedTypes DEF HandOver, Dependent, JobOK
    <3>2. StepsOK'
      BY <2>11, SendTypes, UnchangedTypes DEF HandOver, Dependent
    <3>3. JobOK'
      BY <2>11, KeepTypes DEF HandOver, JobOK
    <3> QED
      BY <3>1, <3>2, <3>3
  <2>12. ASSUME NEW m \in Ids, ClaimDownload(m) PROVE BrokerOK' /\ StepsOK' /\ JobOK'
    <3>1. BrokerOK'
      BY <2>12, LoadTypes, ClaimTypes DEF ClaimDownload, JobOK
    <3>2. StepsOK'
      BY <2>12, LoadTypes, ClaimTypes DEF ClaimDownload
    <3>3. JobOK'
      BY <2>12, KeepTypes DEF ClaimDownload, JobOK
    <3> QED
      BY <3>1, <3>2, <3>3
  <2>13. ASSUME NEW m \in Ids, DownloadRefused(m) PROVE BrokerOK' /\ StepsOK' /\ JobOK'
    <3>1. BrokerOK'
      BY <2>13, AckTypes, UnchangedTypes DEF DownloadRefused, JobOK
    <3>2. StepsOK'
      BY <2>13, AckTypes, UnchangedTypes DEF DownloadRefused
    <3>3. JobOK'
      BY <2>13, KeepTypes DEF DownloadRefused, JobOK
    <3> QED
      BY <3>1, <3>2, <3>3
  <2>14. ASSUME NEW m \in Ids, DownloadDone(m) PROVE BrokerOK' /\ StepsOK' /\ JobOK'
    <3>1. BrokerOK'
      BY <2>14, AckTypes, MoveTypes, SettleTypes DEF DownloadDone, Assigned, JobOK
    <3>2. StepsOK'
      BY <2>14, AckTypes, MoveTypes, SettleTypes DEF DownloadDone, Assigned
    <3>3. JobOK'
      BY <2>14, KeepTypes DEF DownloadDone, Assigned, JobOK
    <3> QED
      BY <3>1, <3>2, <3>3
  <2>15. ASSUME NEW m \in Ids, DownloadFailed(m) PROVE BrokerOK' /\ StepsOK' /\ JobOK'
    <3>1. BrokerOK'
      BY <2>15, RequeueTypes, MoveTypes, SettleTypes DEF DownloadFailed, BrokerOK, JobOK
    <3>2. StepsOK'
      BY <2>15, RequeueTypes, MoveTypes, SettleTypes DEF DownloadFailed, BrokerOK
    <3>3. JobOK'
      BY <2>15, KeepTypes DEF DownloadFailed, BrokerOK, JobOK
    <3> QED
      BY <3>1, <3>2, <3>3
  <2>16. ASSUME NEW m \in Ids, HandOverRefused(m) PROVE BrokerOK' /\ StepsOK' /\ JobOK'
    <3>1. BrokerOK'
      BY <2>16, AckTypes, UnchangedTypes DEF HandOverRefused, JobOK
    <3>2. StepsOK'
      BY <2>16, AckTypes, UnchangedTypes DEF HandOverRefused
    <3>3. JobOK'
      BY <2>16, KeepTypes DEF HandOverRefused, JobOK
    <3> QED
      BY <3>1, <3>2, <3>3
  <2>17. ASSUME NEW m \in Ids, DownloadExhausted(m) PROVE BrokerOK' /\ StepsOK' /\ JobOK'
    <3>1. BrokerOK'
      BY <2>17, AckTypes, FailStepsTypes, UnchangedTypes DEF DownloadExhausted, Assigned, JobOK
    <3>2. StepsOK'
      BY <2>17, AckTypes, FailStepsTypes, UnchangedTypes DEF DownloadExhausted, Assigned
    <3>3. JobOK'
      BY <2>17, KeepTypes DEF DownloadExhausted, Assigned, JobOK
    <3> QED
      BY <3>1, <3>2, <3>3
  <2>18. ASSUME NEW m \in Ids, LoadVisual(m) PROVE BrokerOK' /\ StepsOK' /\ JobOK'
    <3>1. BrokerOK'
      BY <2>18, LoadTypes, UnchangedTypes DEF LoadVisual, JobOK
    <3>2. StepsOK'
      BY <2>18, LoadTypes, UnchangedTypes DEF LoadVisual
    <3>3. JobOK'
      BY <2>18, KeepTypes DEF LoadVisual, JobOK
    <3> QED
      BY <3>1, <3>2, <3>3
  <2>19. ASSUME NEW m \in Ids, SkipVisual(m) PROVE BrokerOK' /\ StepsOK' /\ JobOK'
    <3>1. BrokerOK'
      BY <2>19, AckTypes, UnchangedTypes DEF SkipVisual, JobOK
    <3>2. StepsOK'
      BY <2>19, AckTypes, UnchangedTypes DEF SkipVisual
    <3>3. JobOK'
      BY <2>19, KeepTypes DEF SkipVisual, JobOK
    <3> QED
      BY <3>1, <3>2, <3>3
  <2>20. ASSUME NEW m \in Ids, ClaimVisual(m) PROVE BrokerOK' /\ StepsOK' /\ JobOK'
    <3>1. BrokerOK'
      BY <2>20, MoveTypes, ClaimTypes DEF ClaimVisual, Assigned, BrokerOK, JobOK
    <3>2. StepsOK'
      BY <2>20, MoveTypes, ClaimTypes DEF ClaimVisual, Assigned, BrokerOK
    <3>3. JobOK'
      BY <2>20, KeepTypes DEF ClaimVisual, Assigned, BrokerOK, JobOK
    <3> QED
      BY <3>1, <3>2, <3>3
  <2>21. ASSUME NEW m \in Ids, VisualRefused(m) PROVE BrokerOK' /\ StepsOK' /\ JobOK'
    <3>1. BrokerOK'
      BY <2>21, AckTypes, UnchangedTypes DEF VisualRefused, JobOK
    <3>2. StepsOK'
      BY <2>21, AckTypes, UnchangedTypes DEF VisualRefused
    <3>3. JobOK'
      BY <2>21, KeepTypes DEF VisualRefused, JobOK
    <3> QED
      BY <3>1, <3>2, <3>3
  <2>22. ASSUME NEW m \in Ids, SnapshotsNoVideo(m) PROVE BrokerOK' /\ StepsOK' /\ JobOK'
    <3>1. BrokerOK'
      BY <2>22, AckTypes DEF SnapshotsNoVideo, StepsOK, JobOK
    <3>2. StepsOK'
      BY <2>22, AckTypes DEF SnapshotsNoVideo, StepsOK
    <3>3. JobOK'
      BY <2>22, KeepTypes DEF SnapshotsNoVideo, StepsOK, JobOK
    <3> QED
      BY <3>1, <3>2, <3>3
  <2>23. ASSUME NEW m \in Ids, SnapshotsDone(m) PROVE BrokerOK' /\ StepsOK' /\ JobOK'
    <3>1. BrokerOK'
      BY <2>23, AckTypes, AbandonTypes, SettleTypes DEF SnapshotsDone, JobOK
    <3>2. StepsOK'
      BY <2>23, AckTypes, AbandonTypes, SettleTypes DEF SnapshotsDone
    <3>3. JobOK'
      BY <2>23, KeepTypes DEF SnapshotsDone, JobOK
    <3> QED
      BY <3>1, <3>2, <3>3
  <2>24. ASSUME NEW m \in Ids, SnapshotsFailed(m) PROVE BrokerOK' /\ StepsOK' /\ JobOK'
    <3>1. BrokerOK'
      BY <2>24, AckTypes, SettleTypes DEF SnapshotsFailed, JobOK
    <3>2. StepsOK'
      BY <2>24, AckTypes, SettleTypes DEF SnapshotsFailed
    <3>3. JobOK'
      BY <2>24, KeepTypes DEF SnapshotsFailed, JobOK
    <3> QED
      BY <3>1, <3>2, <3>3
  <2>25. ASSUME NEW m \in Ids, SlidesNoSlot(m) PROVE BrokerOK' /\ StepsOK' /\ JobOK'
    <3>1. BrokerOK'
      BY <2>25, RequeueTypes, MoveTypes, UnchangedTypes DEF SlidesNoSlot, BrokerOK, JobOK
    <3>2. StepsOK'
      BY <2>25, RequeueTypes, MoveTypes, UnchangedTypes DEF SlidesNoSlot, BrokerOK
    <3>3. JobOK'
      BY <2>25, KeepTypes DEF SlidesNoSlot, BrokerOK, JobOK
    <3> QED
      BY <3>1, <3>2, <3>3
  <2>26. ASSUME NEW m \in Ids, SlidesExhausted(m) PROVE BrokerOK' /\ StepsOK' /\ JobOK'
    <3>1. BrokerOK'
      BY <2>26, AckTypes, FailStepsTypes, UnchangedTypes DEF SlidesExhausted, JobOK
    <3>2. StepsOK'
      BY <2>26, AckTypes, FailStepsTypes, UnchangedTypes DEF SlidesExhausted
    <3>3. JobOK'
      BY <2>26, KeepTypes DEF SlidesExhausted, JobOK
    <3> QED
      BY <3>1, <3>2, <3>3
  <2>27. ASSUME NEW m \in Ids, SlidesEnd(m, "completed") \/ SlidesEnd(m, "failed") PROVE BrokerOK' /\ StepsOK' /\ JobOK'
    <3>1. BrokerOK'
      BY <2>27, AckTypes, AbandonTypes, SettleTypes DEF SlidesEnd, JobOK
    <3>2. StepsOK'
      BY <2>27, AckTypes, AbandonTypes, SettleTypes DEF SlidesEnd
    <3>3. JobOK'
      BY <2>27, KeepTypes DEF SlidesEnd, JobOK
    <3> QED
      BY <3>1, <3>2, <3>3
  <2>28. ASSUME NEW m \in Ids, SlidesRaises(m) PROVE BrokerOK' /\ StepsOK' /\ JobOK'
    <3>1. BrokerOK'
      BY <2>28, AckTypes, AbandonTypes DEF SlidesRaises, JobOK
    <3>2. StepsOK'
      BY <2>28, AckTypes, AbandonTypes DEF SlidesRaises
    <3>3. JobOK'
      BY <2>28, KeepTypes DEF SlidesRaises, JobOK
    <3> QED
      BY <3>1, <3>2, <3>3
  <2>29. ASSUME NEW m \in Ids, Die(m) PROVE BrokerOK' /\ StepsOK' /\ JobOK'
    <3>1. BrokerOK'
      BY <2>29, RequeueTypes, AbandonTypes DEF Die, BrokerOK, JobOK
    <3>2. StepsOK'
      BY <2>29, RequeueTypes, AbandonTypes DEF Die, BrokerOK
    <3>3. JobOK'
      BY <2>29, KeepTypes DEF Die, BrokerOK, JobOK
    <3> QED
      BY <3>1, <3>2, <3>3
  <2>30. ASSUME NEW m \in Ids, TimeOut(m) PROVE BrokerOK' /\ StepsOK' /\ JobOK'
    <3>1. BrokerOK'
      BY <2>30, AckTypes, AbandonTypes DEF TimeOut, JobOK
    <3>2. StepsOK'
      BY <2>30, AckTypes, AbandonTypes DEF TimeOut
    <3>3. JobOK'
      BY <2>30, KeepTypes DEF TimeOut, JobOK
    <3> QED
      BY <3>1, <3>2, <3>3
  <2>31. ASSUME NEW s \in Stages, Publish(s) PROVE BrokerOK' /\ StepsOK' /\ JobOK'
    <3>1. BrokerOK'
      BY <2>31, SendTypes, UnchangedTypes DEF Publish
    <3>2. StepsOK' /\ JobOK'
      BY <2>31, KeepTypes, UnchangedTypes DEF Publish, JobOK
    <3> QED
      BY <3>1, <3>2
  <2>32. ASSUME NEW s \in Stages, PublishAgain(s) PROVE BrokerOK' /\ StepsOK' /\ JobOK'
    <3>1. BrokerOK'
      BY <2>32, SendTypes, UnchangedTypes DEF PublishAgain
    <3>2. StepsOK' /\ JobOK'
      BY <2>32, KeepTypes, UnchangedTypes DEF PublishAgain, JobOK
    <3> QED
      BY <3>1, <3>2
  <2>33. ASSUME NEW s \in Stages, Reap(s) PROVE BrokerOK' /\ StepsOK' /\ JobOK'
    BY <2>33, KeepTypes, UnchangedTypes DEF Reap, StepsOK, JobOK
  <2>34. ASSUME NEW s \in Stages, RetryStep(s) PROVE BrokerOK' /\ StepsOK' /\ JobOK'
    BY <2>34, UnchangedTypes DEF RetryStep, StepsOK, JobOK, job
  <2>35. CASE DispatchDirectly
    <3>1. BrokerOK'
      BY <2>35, SendTypes DEF DispatchDirectly
    <3>2. StepsOK' /\ JobOK'
      BY <2>35, UnchangedTypes DEF DispatchDirectly, JobOK, job
    <3> QED
      BY <3>1, <3>2
  <2>36. CASE CancelCheck
    BY <2>36, UnchangedTypes DEF CancelCheck, JobOK, job
  <2>37. CASE CancelCommit
    <3>1. BrokerOK'
      BY <2>37, AckTypes, UnchangedTypes DEF CancelCommit, JobOK
    <3>2. StepsOK'
      BY <2>37, AbandonTypes, UnchangedTypes DEF CancelCommit, JobOK
    <3>3. JobOK'
      BY <2>37 DEF CancelCommit, JobOK, Release
    <3> QED
      BY <3>1, <3>2, <3>3
  <2>38. CASE UNCHANGED vars
    BY <2>38, UnchangedTypes DEF vars
  <2> QED
    BY <2>1, <2>2, <2>3, <2>4, <2>5, <2>6, <2>61, <2>7, <2>8, <2>9, <2>10, <2>11, <2>12, <2>13, <2>14, <2>15, <2>16, <2>17, <2>18, <2>19, <2>20, <2>21, <2>22, <2>23, <2>24, <2>25, <2>26, <2>27, <2>28, <2>29, <2>30, <2>31, <2>32, <2>33, <2>34, <2>35, <2>36, <2>37, <2>38
       DEF Next, Task, Receives, Begins, Succeeds, Concludes, Fails
<1> QED
  BY <1>1, <1>2, PTL DEF Spec
---------------------------------------------------------------------------------
(* Claims and messages *)

\* The parts of a task that only one kind of message reaches.
PlaceFitsStage ==
    \A m \in Ids : /\ place[m] \in {"started", "downloading"} => stage[m] = "transcribe"
                   /\ place[m] = "loaded" => stage[m] \in Visual

\* A claim that is not an orphan's belongs to a delivery that is at work.
ClaimsAreLive ==
    \A s \in Stages : claim[s] \in Ids => place[claim[s]] \in {"working", "downloading"}

ClaimInv == PlaceFitsStage /\ ClaimsAreLive

\* Whoever leaves its work settles or abandons its claims.
LEMMA ClaimStep ==
    ASSUME TypeOK, ClaimInv, [Next]_vars
    PROVE  ClaimInv'
<1> USE PipelineAssumption DEF ClaimInv
<1>0. BrokerOK /\ StepsOK /\ JobOK
  BY TypeParts
<1>1. ASSUME NEW m \in Ids, StartTranscript(m) PROVE ClaimInv'
  <2>1. PlaceFitsStage'
    BY <1>0, <1>1 DEF StartTranscript, Take, Move, steps, PlaceFitsStage, BrokerOK
  <2>2. ClaimsAreLive'
    BY <1>0, <1>1 DEF StartTranscript, Take, Move, steps, PlaceFitsStage, ClaimsAreLive, BrokerOK, StepsOK
  <2> QED
    BY <2>1, <2>2
<1>2. ASSUME NEW m \in Ids, SkipTranscript(m) PROVE ClaimInv'
  <2>1. PlaceFitsStage'
    BY <1>0, <1>2 DEF SkipTranscript, Take, Ack, steps, PlaceFitsStage, BrokerOK
  <2>2. ClaimsAreLive'
    BY <1>0, <1>2 DEF SkipTranscript, Take, Ack, steps, PlaceFitsStage, ClaimsAreLive, BrokerOK, StepsOK
  <2> QED
    BY <2>1, <2>2
<1>3. ASSUME NEW m \in Ids, ClaimTranscribe(m) PROVE ClaimInv'
  <2>1. PlaceFitsStage'
    BY <1>0, <1>3 DEF ClaimTranscribe, At, Move, Claim, PlaceFitsStage, BrokerOK
  <2>2. ClaimsAreLive'
    BY <1>0, <1>3 DEF ClaimTranscribe, At, Move, Claim, PlaceFitsStage, ClaimsAreLive, BrokerOK, StepsOK
  <2> QED
    BY <2>1, <2>2
<1>4. ASSUME NEW m \in Ids, TranscribeRefused(m) PROVE ClaimInv'
  <2>1. PlaceFitsStage'
    BY <1>0, <1>4 DEF TranscribeRefused, At, Ack, steps, PlaceFitsStage, BrokerOK
  <2>2. ClaimsAreLive'
    BY <1>0, <1>4 DEF TranscribeRefused, At, Ack, steps, PlaceFitsStage, ClaimsAreLive, BrokerOK, StepsOK
  <2> QED
    BY <2>1, <2>2
<1>5. ASSUME NEW m \in Ids, Transcribed(m) PROVE ClaimInv'
  <2>1. PlaceFitsStage'
    BY <1>0, <1>5 DEF Transcribed, At, Move, PlaceFitsStage, BrokerOK
  <2>2. ClaimsAreLive'
    BY <1>0, <1>5 DEF Transcribed, At, Move, PlaceFitsStage, ClaimsAreLive, BrokerOK, StepsOK
  <2> QED
    BY <2>1, <2>2
<1>6. ASSUME NEW m \in Ids, TranscriptOnly(m) PROVE ClaimInv'
  <2>1. PlaceFitsStage'
    BY <1>0, <1>6 DEF TranscriptOnly, At, Ack, Settle, Abandon, PlaceFitsStage, BrokerOK
  <2>2. ClaimsAreLive'
    BY <1>0, <1>6 DEF TranscriptOnly, At, Ack, Settle, Abandon, PlaceFitsStage, ClaimsAreLive, BrokerOK, StepsOK
  <2> QED
    BY <2>1, <2>2
<1>61. ASSUME NEW m \in Ids, TranscriptAgain(m) PROVE ClaimInv'
  <2>1. PlaceFitsStage'
    BY <1>0, <1>61 DEF TranscriptAgain, At, Move, Settle, PlaceFitsStage, BrokerOK
  <2>2. ClaimsAreLive'
    BY <1>0, <1>61 DEF TranscriptAgain, At, Move, Settle, PlaceFitsStage, ClaimsAreLive, BrokerOK, StepsOK
  <2> QED
    BY <2>1, <2>2
<1>7. ASSUME NEW m \in Ids, TranscriptEmpty(m) PROVE ClaimInv'
  <2>1. PlaceFitsStage'
    BY <1>0, <1>7 DEF TranscriptEmpty, At, Ack, Settle, PlaceFitsStage, BrokerOK
  <2>2. ClaimsAreLive'
    BY <1>0, <1>7 DEF TranscriptEmpty, At, Ack, Settle, PlaceFitsStage, ClaimsAreLive, BrokerOK, StepsOK
  <2> QED
    BY <2>1, <2>2
<1>8. ASSUME NEW m \in Ids, TranscriptRaises(m) PROVE ClaimInv'
  <2>1. PlaceFitsStage'
    BY <1>0, <1>8 DEF TranscriptRaises, At, Ack, Requeue, Settle, PlaceFitsStage, BrokerOK
  <2>2. ClaimsAreLive'
    BY <1>0, <1>8 DEF TranscriptRaises, At, Ack, Requeue, Settle, PlaceFitsStage, ClaimsAreLive, BrokerOK, StepsOK
  <2> QED
    BY <2>1, <2>2
<1>9. ASSUME NEW m \in Ids, DownloadedInline(m) PROVE ClaimInv'
  <2>1. PlaceFitsStage'
    BY <1>0, <1>9 DEF DownloadedInline, At, Ack, Move, Settle, PlaceFitsStage, BrokerOK
  <2>2. ClaimsAreLive'
    BY <1>0, <1>9 DEF DownloadedInline, At, Ack, Move, Settle, PlaceFitsStage, ClaimsAreLive, BrokerOK, StepsOK
  <2> QED
    BY <2>1, <2>2
<1>10. ASSUME NEW m \in Ids, InlineDownloadFailed(m) PROVE ClaimInv'
  <2>1. PlaceFitsStage'
    BY <1>0, <1>10 DEF InlineDownloadFailed, At, Ack, Settle, PlaceFitsStage, BrokerOK
  <2>2. ClaimsAreLive'
    BY <1>0, <1>10 DEF InlineDownloadFailed, At, Ack, Settle, PlaceFitsStage, ClaimsAreLive, BrokerOK, StepsOK
  <2> QED
    BY <2>1, <2>2
<1>11. ASSUME NEW m \in Ids, HandOver(m) PROVE ClaimInv'
  <2>1. PlaceFitsStage'
    BY <1>0, <1>11 DEF HandOver, At, Send, steps, PlaceFitsStage, BrokerOK
  <2>2. ClaimsAreLive'
    BY <1>0, <1>11 DEF HandOver, At, Send, steps, PlaceFitsStage, ClaimsAreLive, BrokerOK, StepsOK
  <2> QED
    BY <2>1, <2>2
<1>12. ASSUME NEW m \in Ids, ClaimDownload(m) PROVE ClaimInv'
  <2>1. PlaceFitsStage'
    BY <1>0, <1>12 DEF ClaimDownload, Take, LoadAndMove, Claim, PlaceFitsStage, BrokerOK
  <2>2. ClaimsAreLive'
    BY <1>0, <1>12 DEF ClaimDownload, Take, LoadAndMove, Claim, PlaceFitsStage, ClaimsAreLive, BrokerOK, StepsOK
  <2> QED
    BY <2>1, <2>2
<1>13. ASSUME NEW m \in Ids, DownloadRefused(m) PROVE ClaimInv'
  <2>1. PlaceFitsStage'
    BY <1>0, <1>13 DEF DownloadRefused, Take, Ack, steps, PlaceFitsStage, BrokerOK
  <2>2. ClaimsAreLive'
    BY <1>0, <1>13 DEF DownloadRefused, Take, Ack, steps, PlaceFitsStage, ClaimsAreLive, BrokerOK, StepsOK
  <2> QED
    BY <2>1, <2>2
<1>14. ASSUME NEW m \in Ids, DownloadDone(m) PROVE ClaimInv'
  <2>1. PlaceFitsStage'
    BY <1>0, <1>14 DEF DownloadDone, At, Ack, Move, Settle, PlaceFitsStage, BrokerOK
  <2>2. ClaimsAreLive'
    BY <1>0, <1>14 DEF DownloadDone, At, Ack, Move, Settle, PlaceFitsStage, ClaimsAreLive, BrokerOK, StepsOK
  <2> QED
    BY <2>1, <2>2
<1>15. ASSUME NEW m \in Ids, DownloadFailed(m) PROVE ClaimInv'
  <2>1. PlaceFitsStage'
    BY <1>0, <1>15 DEF DownloadFailed, At, Requeue, Move, Settle, PlaceFitsStage, BrokerOK
  <2>2. ClaimsAreLive'
    BY <1>0, <1>15 DEF DownloadFailed, At, Requeue, Move, Settle, PlaceFitsStage, ClaimsAreLive, BrokerOK, StepsOK
  <2> QED
    BY <2>1, <2>2
<1>16. ASSUME NEW m \in Ids, HandOverRefused(m) PROVE ClaimInv'
  <2>1. PlaceFitsStage'
    BY <1>0, <1>16 DEF HandOverRefused, At, Ack, steps, PlaceFitsStage, BrokerOK
  <2>2. ClaimsAreLive'
    BY <1>0, <1>16 DEF HandOverRefused, At, Ack, steps, PlaceFitsStage, ClaimsAreLive, BrokerOK, StepsOK
  <2> QED
    BY <2>1, <2>2
<1>17. ASSUME NEW m \in Ids, DownloadExhausted(m) PROVE ClaimInv'
  <2>1. PlaceFitsStage'
    BY <1>0, <1>17 DEF DownloadExhausted, At, Ack, FailSteps, steps, PlaceFitsStage, BrokerOK
  <2>2. ClaimsAreLive'
    BY <1>0, <1>17 DEF DownloadExhausted, At, Ack, FailSteps, steps, PlaceFitsStage, ClaimsAreLive, BrokerOK, StepsOK
  <2> QED
    BY <2>1, <2>2
<1>18. ASSUME NEW m \in Ids, LoadVisual(m) PROVE ClaimInv'
  <2>1. PlaceFitsStage'
    BY <1>0, <1>18 DEF LoadVisual, Take, LoadAndMove, steps, PlaceFitsStage, BrokerOK
  <2>2. ClaimsAreLive'
    BY <1>0, <1>18 DEF LoadVisual, Take, LoadAndMove, steps, PlaceFitsStage, ClaimsAreLive, BrokerOK, StepsOK
  <2> QED
    BY <2>1, <2>2
<1>19. ASSUME NEW m \in Ids, SkipVisual(m) PROVE ClaimInv'
  <2>1. PlaceFitsStage'
    BY <1>0, <1>19 DEF SkipVisual, Take, Ack, steps, PlaceFitsStage, BrokerOK
  <2>2. ClaimsAreLive'
    BY <1>0, <1>19 DEF SkipVisual, Take, Ack, steps, PlaceFitsStage, ClaimsAreLive, BrokerOK, StepsOK
  <2> QED
    BY <2>1, <2>2
<1>20. ASSUME NEW m \in Ids, ClaimVisual(m) PROVE ClaimInv'
  <2>1. PlaceFitsStage'
    BY <1>0, <1>20 DEF ClaimVisual, At, Move, Claim, PlaceFitsStage, BrokerOK
  <2>2. ClaimsAreLive'
    BY <1>0, <1>20 DEF ClaimVisual, At, Move, Claim, PlaceFitsStage, ClaimsAreLive, BrokerOK, StepsOK
  <2> QED
    BY <2>1, <2>2
<1>21. ASSUME NEW m \in Ids, VisualRefused(m) PROVE ClaimInv'
  <2>1. PlaceFitsStage'
    BY <1>0, <1>21 DEF VisualRefused, At, Ack, steps, PlaceFitsStage, BrokerOK
  <2>2. ClaimsAreLive'
    BY <1>0, <1>21 DEF VisualRefused, At, Ack, steps, PlaceFitsStage, ClaimsAreLive, BrokerOK, StepsOK
  <2> QED
    BY <2>1, <2>2
<1>22. ASSUME NEW m \in Ids, SnapshotsNoVideo(m) PROVE ClaimInv'
  <2>1. PlaceFitsStage'
    BY <1>0, <1>22 DEF SnapshotsNoVideo, At, Ack, PlaceFitsStage, BrokerOK
  <2>2. ClaimsAreLive'
    BY <1>0, <1>22 DEF SnapshotsNoVideo, At, Ack, PlaceFitsStage, ClaimsAreLive, BrokerOK, StepsOK
  <2> QED
    BY <2>1, <2>2
<1>23. ASSUME NEW m \in Ids, SnapshotsDone(m) PROVE ClaimInv'
  <2>1. PlaceFitsStage'
    BY <1>0, <1>23 DEF SnapshotsDone, At, Ack, Abandon, Settle, PlaceFitsStage, BrokerOK
  <2>2. ClaimsAreLive'
    BY <1>0, <1>23 DEF SnapshotsDone, At, Ack, Abandon, Settle, PlaceFitsStage, ClaimsAreLive, BrokerOK, StepsOK
  <2> QED
    BY <2>1, <2>2
<1>24. ASSUME NEW m \in Ids, SnapshotsFailed(m) PROVE ClaimInv'
  <2>1. PlaceFitsStage'
    BY <1>0, <1>24 DEF SnapshotsFailed, At, Ack, Settle, PlaceFitsStage, BrokerOK
  <2>2. ClaimsAreLive'
    BY <1>0, <1>24 DEF SnapshotsFailed, At, Ack, Settle, PlaceFitsStage, ClaimsAreLive, BrokerOK, StepsOK
  <2> QED
    BY <2>1, <2>2
<1>25. ASSUME NEW m \in Ids, SlidesNoSlot(m) PROVE ClaimInv'
  <2>1. PlaceFitsStage'
    BY <1>0, <1>25 DEF SlidesNoSlot, At, Requeue, Move, steps, PlaceFitsStage, BrokerOK
  <2>2. ClaimsAreLive'
    BY <1>0, <1>25 DEF SlidesNoSlot, At, Requeue, Move, steps, PlaceFitsStage, ClaimsAreLive, BrokerOK, StepsOK
  <2> QED
    BY <2>1, <2>2
<1>26. ASSUME NEW m \in Ids, SlidesExhausted(m) PROVE ClaimInv'
  <2>1. PlaceFitsStage'
    BY <1>0, <1>26 DEF SlidesExhausted, At, Ack, FailSteps, steps, PlaceFitsStage, BrokerOK
  <2>2. ClaimsAreLive'
    BY <1>0, <1>26 DEF SlidesExhausted, At, Ack, FailSteps, steps, PlaceFitsStage, ClaimsAreLive, BrokerOK, StepsOK
  <2> QED
    BY <2>1, <2>2
<1>27. ASSUME NEW m \in Ids, SlidesEnd(m, "completed") \/ SlidesEnd(m, "failed") PROVE ClaimInv'
  <2>1. PlaceFitsStage'
    BY <1>0, <1>27 DEF SlidesEnd, At, Ack, Abandon, Settle, PlaceFitsStage, BrokerOK
  <2>2. ClaimsAreLive'
    BY <1>0, <1>27 DEF SlidesEnd, At, Ack, Abandon, Settle, PlaceFitsStage, ClaimsAreLive, BrokerOK, StepsOK
  <2> QED
    BY <2>1, <2>2
<1>28. ASSUME NEW m \in Ids, SlidesRaises(m) PROVE ClaimInv'
  <2>1. PlaceFitsStage'
    BY <1>0, <1>28 DEF SlidesRaises, At, Ack, Abandon, PlaceFitsStage, BrokerOK
  <2>2. ClaimsAreLive'
    BY <1>0, <1>28 DEF SlidesRaises, At, Ack, Abandon, PlaceFitsStage, ClaimsAreLive, BrokerOK, StepsOK
  <2> QED
    BY <2>1, <2>2
<1>29. ASSUME NEW m \in Ids, Die(m) PROVE ClaimInv'
  <2>1. PlaceFitsStage'
    BY <1>0, <1>29 DEF Die, Requeue, Abandon, PlaceFitsStage, BrokerOK
  <2>2. ClaimsAreLive'
    BY <1>0, <1>29 DEF Die, Requeue, Abandon, PlaceFitsStage, ClaimsAreLive, BrokerOK, StepsOK
  <2> QED
    BY <2>1, <2>2
<1>30. ASSUME NEW m \in Ids, TimeOut(m) PROVE ClaimInv'
  <2>1. PlaceFitsStage'
    BY <1>0, <1>30 DEF TimeOut, At, Ack, Abandon, PlaceFitsStage, BrokerOK
  <2>2. ClaimsAreLive'
    BY <1>0, <1>30 DEF TimeOut, At, Ack, Abandon, PlaceFitsStage, ClaimsAreLive, BrokerOK, StepsOK
  <2> QED
    BY <2>1, <2>2
<1>31. ASSUME NEW s \in Stages, Publish(s) \/ PublishAgain(s) PROVE ClaimInv'
  BY <1>0, <1>31 DEF Publish, PublishAgain, Send, steps, PlaceFitsStage, ClaimsAreLive, BrokerOK, StepsOK, JobOK
<1>32. ASSUME NEW s \in Stages, Reap(s) \/ RetryStep(s) PROVE ClaimInv'
  BY <1>0, <1>32 DEF Reap, RetryStep, broker, PlaceFitsStage, ClaimsAreLive, BrokerOK, StepsOK, JobOK
<1>33. CASE DispatchDirectly
  BY <1>0, <1>33 DEF DispatchDirectly, Send, steps, PlaceFitsStage, ClaimsAreLive, BrokerOK, StepsOK, JobOK
<1>34. CASE CancelCheck
  BY <1>0, <1>34 DEF CancelCheck, steps, broker, PlaceFitsStage, ClaimsAreLive, BrokerOK, StepsOK, JobOK
<1>35. CASE CancelCommit
  BY <1>0, <1>35 DEF CancelCommit, Ack, Abandon, steps, broker, PlaceFitsStage, ClaimsAreLive, BrokerOK, StepsOK, JobOK
<1>36. CASE UNCHANGED vars
  BY <1>0, <1>36 DEF vars, steps, broker, PlaceFitsStage, ClaimsAreLive, BrokerOK, StepsOK, JobOK
<1> QED
  BY <1>1, <1>2, <1>3, <1>4, <1>5, <1>6, <1>61, <1>7, <1>8, <1>9, <1>10, <1>11, <1>12, <1>13, <1>14, <1>15, <1>16, <1>17, <1>18, <1>19, <1>20, <1>21, <1>22, <1>23, <1>24, <1>25, <1>26, <1>27, <1>28, <1>29, <1>30, <1>31, <1>32, <1>33, <1>34, <1>35, <1>36
     DEF Next, Task, Receives, Begins, Succeeds, Concludes, Fails

\* A claim token that can still be presented is that of a delivery at work: what
\* ends an incarnation gives up or orphans its claims.
THEOREM ClaimsCorrect == Spec => []ClaimInv
<1>1. Init => ClaimInv
  BY PipelineAssumption DEF Init, ClaimInv, PlaceFitsStage, ClaimsAreLive
<1>2. TypeOK /\ ClaimInv /\ [Next]_vars => ClaimInv'
  BY ClaimStep
<1> QED
  BY <1>1, <1>2, TypeCorrect, PTL DEF Spec

---------------------------------------------------------------------------------
(* A stage that is done, or skipped, stays so. *)

DoneStaysDone ==
    \A s \in Stages : /\ step[s] = "completed" => step'[s] = "completed"
                      /\ step'[s] = "skipped" <=> step[s] = "skipped"

\* Each way to write the steps keeps it.
LEMMA HelpersKeepDone ==
    ASSUME StepsOK
    PROVE  /\ UNCHANGED steps \/ UNCHANGED step => DoneStaysDone
           /\ FailSteps => DoneStaysDone
           /\ \A m \in Ids : Abandon(m) => DoneStaysDone
           /\ \A m \in Ids, s \in Stages, r \in {"completed", "failed"} :
                 Settle(m, s, r) => DoneStaysDone
           /\ \A m \in Ids, s \in Stages :
                 Claim(m, s) /\ Claimable(s) => DoneStaysDone
BY DEF StepsOK, DoneStaysDone, steps, FailSteps, Abandon, Settle, Owns, Claim, Claimable, Overdue

\* Claims are only for steps that are not done, and so is every reset.
LEMMA DoneStep ==
    ASSUME TypeOK, [Next]_vars
    PROVE  DoneStaysDone
<1>0. StepsOK /\ JobOK /\ BrokerOK
  BY TypeParts
<1>1. ASSUME NEW m \in Ids, Receives(m) PROVE DoneStaysDone
  BY <1>0, <1>1, HelpersKeepDone
     DEF Receives, StartTranscript, SkipTranscript, LoadVisual, SkipVisual, steps
<1>2. ASSUME NEW m \in Ids, Begins(m) PROVE DoneStaysDone
  BY <1>0, <1>2, HelpersKeepDone
     DEF Begins, ClaimTranscribe, TranscribeRefused, ClaimDownload, DownloadRefused,
         ClaimVisual, VisualRefused, steps, BrokerOK
<1>3. ASSUME NEW m \in Ids, Succeeds(m) PROVE DoneStaysDone
  <2>1. CASE Transcribed(m)
    BY <1>0, <2>1 DEF Transcribed, Claimable, Overdue, Owns, StepsOK, DoneStaysDone
  <2>2. CASE ~Transcribed(m)
    BY <1>0, <1>3, <2>2, HelpersKeepDone
       DEF Succeeds, TranscriptOnly, TranscriptAgain, DownloadedInline, DownloadDone, SnapshotsDone, SlidesEnd
  <2> QED
    BY <2>1, <2>2
<1>4. ASSUME NEW m \in Ids, Fails(m) PROVE DoneStaysDone
  <2>1. CASE SnapshotsNoVideo(m)
    BY <1>0, <2>1 DEF SnapshotsNoVideo, Claimable, Overdue, StepsOK, DoneStaysDone
  <2>2. CASE ~SnapshotsNoVideo(m)
    BY <1>0, <1>4, <2>2, HelpersKeepDone
       DEF Fails, TranscriptEmpty, TranscriptRaises, InlineDownloadFailed, DownloadFailed,
           HandOverRefused, SnapshotsFailed, SlidesNoSlot, SlidesEnd, SlidesRaises, steps
  <2> QED
    BY <2>1, <2>2
<1>5. ASSUME NEW m \in Ids, Concludes(m) \/ Die(m) \/ TimeOut(m) PROVE DoneStaysDone
  BY <1>0, <1>5, HelpersKeepDone
     DEF Concludes, HandOver, DownloadExhausted, SlidesExhausted, Die, TimeOut, steps
<1>6. ASSUME NEW s \in Stages, Reap(s) \/ RetryStep(s) PROVE DoneStaysDone
  BY <1>0, <1>6 DEF Reap, RetryStep, Overdue, StepsOK, DoneStaysDone
<1>7. ASSUME NEW s \in Stages, Publish(s) \/ PublishAgain(s) PROVE DoneStaysDone
  BY <1>0, <1>7, HelpersKeepDone DEF Publish, PublishAgain
<1>8. CASE CancelCommit
  BY <1>0, <1>8, HelpersKeepDone DEF CancelCommit, JobOK
<1>9. CASE DispatchDirectly \/ CancelCheck \/ UNCHANGED vars
  BY <1>0, <1>9, HelpersKeepDone DEF DispatchDirectly, CancelCheck, vars
<1> QED
  BY <1>1, <1>2, <1>3, <1>4, <1>5, <1>6, <1>7, <1>8, <1>9 DEF Next, Task

\* No delivery, reaper or retry reopens or repeats a finished stage.
THEOREM DoneOnceHolds == Spec => DoneOnce
<1>1. TypeOK /\ [Next]_vars => [\A s \in Stages : step[s] = "completed" => step'[s] = "completed"]_vars
  BY DoneStep DEF DoneStaysDone
<1> QED
  BY <1>1, TypeCorrect, PTL DEF Spec, DoneOnce

---------------------------------------------------------------------------------
(* A job that ended stays ended. *)

\* What a late delivery's guard relies on: a failed job has given back its
\* admission, so process_transcript does not start it again.
FailedHasReleased == status = "failed" => ~admitted

EndedStaysEnded == status \in Ended => status' \in Ended

\* Every action keeps both: a status is written unconditionally only with FAILED
\* or CANCELLED.
LEMMA EndedStep ==
    ASSUME TypeOK, FailedHasReleased, [Next]_vars
    PROVE  FailedHasReleased' /\ EndedStaysEnded
<1> USE DEF FailedHasReleased, EndedStaysEnded, Keep
<1>1. ASSUME NEW m \in Ids, Receives(m) PROVE FailedHasReleased' /\ EndedStaysEnded
  BY <1>1 DEF Receives, StartTranscript, SkipTranscript, LoadVisual, SkipVisual, Startable
<1>2. ASSUME NEW m \in Ids, Begins(m) PROVE FailedHasReleased' /\ EndedStaysEnded
  BY <1>2 DEF Begins, ClaimTranscribe, TranscribeRefused, ClaimDownload, DownloadRefused,
              ClaimVisual, VisualRefused, Claimable, Assigned
<1>3. ASSUME NEW m \in Ids, Succeeds(m) PROVE FailedHasReleased' /\ EndedStaysEnded
  BY <1>3 DEF Succeeds, Transcribed, TranscriptOnly, TranscriptAgain, DownloadedInline, DownloadDone,
              SnapshotsDone, SlidesEnd, Assigned, Release
<1>4. ASSUME NEW m \in Ids, Fails(m) PROVE FailedHasReleased' /\ EndedStaysEnded
  BY <1>4 DEF Fails, TranscriptEmpty, TranscriptRaises, InlineDownloadFailed, DownloadFailed,
              HandOverRefused, SnapshotsNoVideo, SnapshotsFailed, SlidesNoSlot, SlidesEnd,
              SlidesRaises, Release
<1>5. ASSUME NEW m \in Ids, Concludes(m) \/ Die(m) \/ TimeOut(m)
      PROVE  FailedHasReleased' /\ EndedStaysEnded
  BY <1>5 DEF Concludes, HandOver, DownloadExhausted, SlidesExhausted, Die, TimeOut, Release
<1>6. ASSUME NEW s \in Stages, Publish(s) \/ PublishAgain(s) \/ Reap(s) \/ RetryStep(s)
      PROVE  FailedHasReleased' /\ EndedStaysEnded
  BY <1>6 DEF Publish, PublishAgain, Reap, RetryStep, job
<1>7. CASE DispatchDirectly \/ CancelCheck \/ CancelCommit \/ UNCHANGED vars
  BY <1>7 DEF DispatchDirectly, CancelCheck, CancelCommit, Release, vars, job
<1> QED
  BY <1>1, <1>2, <1>3, <1>4, <1>5, <1>6, <1>7 DEF Next, Task

\* A failed or cancelled job is never active or completed again, whatever
\* delivery of it comes late and however late.
THEOREM EndedIsFinalHolds == Spec => EndedIsFinal
<1>1. Init => FailedHasReleased
  BY DEF Init, FailedHasReleased
<1>2. TypeOK /\ FailedHasReleased /\ [Next]_vars => FailedHasReleased'
  BY EndedStep
<1>3. TypeOK /\ FailedHasReleased /\ [Next]_vars
      => [(status \in Ended) => (status' \in Ended)]_vars
  BY EndedStep DEF EndedStaysEnded
<1> QED
  BY <1>1, <1>2, <1>3, TypeCorrect, PTL DEF Spec, EndedIsFinal

---------------------------------------------------------------------------------
(* Fencing *)

OwnerSettles ==
    \A s \in Stages :
        step[s] = "running" /\ step'[s] \in {"completed", "failed"}
        => \E m \in Ids :
              /\ place'[m] # place[m]
              /\ \/ claim[s] = m /\ place[m] \in {"working", "downloading"}
                 \/ stage[m] = s /\ place[m] = "loaded"

\* A delivery that was at work settles its own claim and goes elsewhere.
LEMMA SettledByClaim ==
    ASSUME TypeOK, ClaimInv, NEW m \in Ids, NEW t \in Stages,
           NEW r \in {"completed", "failed"}, Settle(m, t, r),
           place'[m] # place[m]
    PROVE  OwnerSettles
BY DEF TypeOK, ClaimInv, ClaimsAreLive, Settle, Owns, OwnerSettles

\* Steps that settle no running step.
LEMMA NothingSettled ==
    ASSUME TypeOK,
           \/ UNCHANGED step \/ UNCHANGED steps \/ FailSteps
           \/ \E m \in Ids, s \in Stages : Claim(m, s)
    PROVE  OwnerSettles
BY DEF TypeOK, FailSteps, Claim, steps, OwnerSettles

\* Every action settles by the claim, or settles nothing.
LEMMA FencingStep ==
    ASSUME TypeOK, ClaimInv, [Next]_vars
    PROVE  OwnerSettles
<1>0. BrokerOK /\ StepsOK /\ JobOK /\ PlaceFitsStage
  BY TypeParts DEF ClaimInv
<1>1. ASSUME NEW m \in Ids, Receives(m) PROVE OwnerSettles
  BY <1>1, NothingSettled
     DEF Receives, StartTranscript, SkipTranscript, LoadVisual, SkipVisual, steps
<1>2. ASSUME NEW m \in Ids, Begins(m) PROVE OwnerSettles
  BY <1>0, <1>2, NothingSettled
     DEF Begins, ClaimTranscribe, TranscribeRefused, ClaimDownload, DownloadRefused,
         ClaimVisual, VisualRefused, steps, BrokerOK
<1>3. ASSUME NEW m \in Ids, Succeeds(m) PROVE OwnerSettles
  <2>1. CASE Transcribed(m)
    <3>1. place'[m] # place[m]
      BY <1>0, <2>1 DEF Transcribed, At, Move, BrokerOK
    <3>2. ASSUME NEW s \in Stages, step[s] = "running", step'[s] \in {"completed", "failed"}
          PROVE  claim[s] = m /\ place[m] = "working"
      BY <1>0, <2>1, <3>2 DEF Transcribed, At, Owns, StepsOK
    <3> QED
      BY <3>1, <3>2 DEF OwnerSettles
  <2>2. CASE Succeeds(m) /\ ~Transcribed(m)
    <3>1. place'[m] # place[m]
      BY <1>0, <2>2 DEF Succeeds, TranscriptOnly, TranscriptAgain, DownloadedInline, DownloadDone,
                        SnapshotsDone, SlidesEnd, At, Ack, Move, BrokerOK
    <3>2. UNCHANGED step \/ \E t \in Stages, r \in {"completed", "failed"} : Settle(m, t, r)
      BY <2>2 DEF Succeeds, TranscriptOnly, TranscriptAgain, DownloadedInline, DownloadDone, SnapshotsDone,
                  SlidesEnd, Abandon
    <3> QED
      BY <3>1, <3>2, SettledByClaim, NothingSettled
  <2> QED
    BY <1>3, <2>1, <2>2
<1>4. ASSUME NEW m \in Ids, Fails(m) PROVE OwnerSettles
  <2>1. CASE SnapshotsNoVideo(m)
    <3>1. place'[m] # place[m] /\ place[m] = "loaded" /\ stage[m] = "snapshots"
      BY <1>0, <2>1 DEF SnapshotsNoVideo, At, Ack, BrokerOK, PlaceFitsStage
    <3> QED
      BY <1>0, <2>1, <3>1 DEF SnapshotsNoVideo, StepsOK, OwnerSettles
  <2>2. CASE Fails(m) /\ ~SnapshotsNoVideo(m)
    <3>1. place'[m] # place[m]
      BY <1>0, <2>2 DEF Fails, TranscriptEmpty, TranscriptRaises, InlineDownloadFailed,
                        DownloadFailed, HandOverRefused, SnapshotsFailed, SlidesNoSlot,
                        SlidesEnd, SlidesRaises, At, Ack, Move, Requeue, BrokerOK
    <3>2. UNCHANGED step \/ \E t \in Stages, r \in {"completed", "failed"} : Settle(m, t, r)
      BY <2>2 DEF Fails, TranscriptEmpty, TranscriptRaises, InlineDownloadFailed,
                  DownloadFailed, HandOverRefused, SnapshotsFailed, SlidesNoSlot, SlidesEnd,
                  SlidesRaises, Abandon, steps
    <3> QED
      BY <3>1, <3>2, SettledByClaim, NothingSettled
  <2> QED
    BY <1>4, <2>1, <2>2
<1>5. ASSUME NEW m \in Ids, Concludes(m) \/ Die(m) \/ TimeOut(m) PROVE OwnerSettles
  BY <1>5, NothingSettled
     DEF Concludes, HandOver, DownloadExhausted, SlidesExhausted, Die, TimeOut, Abandon, steps
<1>6. ASSUME NEW s \in Stages, Reap(s) \/ RetryStep(s) PROVE OwnerSettles
  BY <1>0, <1>6 DEF Reap, RetryStep, StepsOK, OwnerSettles
<1>7. ASSUME NEW s \in Stages, Publish(s) \/ PublishAgain(s) PROVE OwnerSettles
  BY <1>7, NothingSettled DEF Publish, PublishAgain
<1>8. CASE DispatchDirectly \/ CancelCheck \/ CancelCommit \/ UNCHANGED vars
  BY <1>8, NothingSettled DEF DispatchDirectly, CancelCheck, CancelCommit, Abandon, vars, steps
<1> QED
  BY <1>1, <1>2, <1>3, <1>4, <1>5, <1>6, <1>7, <1>8 DEF Next, Task

\* Only the delivery whose token a running step carries settles it, even when
\* tasks outlive their claims and the reaper takes steps from living workers.
THEOREM SettledByOwnerHolds == Spec => SettledByOwner
<1>1. TypeOK /\ ClaimInv /\ [Next]_vars
      => [\A s \in Stages :
            step[s] = "running" /\ step'[s] \in {"completed", "failed"}
            => \E m \in Ids :
                  /\ place'[m] # place[m]
                  /\ \/ claim[s] = m /\ place[m] \in {"working", "downloading"}
                     \/ stage[m] = s /\ place[m] = "loaded"]_vars
  BY FencingStep DEF OwnerSettles
<1> QED
  BY <1>1, TypeCorrect, ClaimsCorrect, PTL DEF Spec, SettledByOwner

---------------------------------------------------------------------------------
(* The same job when no task outlives its claim (task_time_limit at most      *)
(* ORPHANED_CLAIM_TTL_SECONDS, as the defaults have it): then the claims       *)
(* exclude, and the stages are done in their order.                           *)

\* Delivery m is at work on stage s: in its own task, or on the download that
\* process_transcript does in line.
Worker(m, s) ==
    \/ place[m] = "working" /\ stage[m] = s
    \/ place[m] = "downloading" /\ s = "download"

\* The claims are exactly those of the deliveries at work.
WorkersClaim ==
    \A m \in Ids, s \in Stages : /\ claim[s] = m => Worker(m, s)
                                 /\ Worker(m, s) => Owns(m, s)

\* Nobody has begun: the job waits for its first delivery.
Waiting ==
    /\ step["transcribe"] = "pending"
    /\ \A m \in Ids : place[m] \in {"free", "queued"}

OnlyTranscripts ==
    /\ outbox \subseteq {"transcribe"}
    /\ \A m \in Ids : stage[m] = "transcribe" /\ place[m] \notin {"downloading", "handover"}
    /\ \A s \in {"download", "snapshots", "slides"} : step[s] \in {"pending", "skipped"}

NothingVisual ==
    /\ outbox \cap Visual = {}
    /\ \A m \in Ids : stage[m] \notin Visual /\ place[m] # "handover"
    /\ \A s \in Visual : step[s] \in {"pending", "skipped"}

PendingWaits  == status = "pending" => Waiting /\ OnlyTranscripts
TranscriptFirst ==
    status \notin Ended /\ step["transcribe"] # "completed" => OnlyTranscripts
VisualLast ==
    status \notin Ended /\ step["download"] \notin {"completed", "skipped"} => NothingVisual
SkippedAsAsked ==
    /\ step["download"] = "skipped" <=> mode = "captions"
    /\ step["snapshots"] = "skipped" <=> ~Frames
    /\ step["slides"] = "skipped" <=> ~SlideMode
LoadedActive == \A m \in Ids : place[m] = "loaded" => loaded[m].status = "processing"

\* A completed job has nothing left to do (its slides may be tried again).
CompletedIsDone ==
    status = "completed" =>
        /\ step["transcribe"] = "completed"
        /\ step["download"] \in {"completed", "skipped"}
        /\ SlideMode \/ step["snapshots"] \in {"completed", "skipped"}

OrderInv ==
    /\ WorkersClaim
    /\ PendingWaits /\ TranscriptFirst /\ VisualLast /\ SkippedAsAsked
    /\ LoadedActive /\ CompletedIsDone
    /\ HeldWhileActive
---------------------------------------------------------------------------------
(* Claims *)

\* A claim is taken from nobody alive, and given up with the work.
LEMMA WorkersStep ==
    ASSUME TypeOK, PlaceFitsStage, WorkersClaim, ~Overruns, [Next]_vars
    PROVE  WorkersClaim'
<1> USE PipelineAssumption DEF WorkersClaim, Worker, Owns
<1>0. BrokerOK /\ StepsOK /\ JobOK
  BY TypeParts
<1>1. ASSUME NEW m \in Ids, StartTranscript(m) PROVE WorkersClaim'
  BY <1>0, <1>1 DEF StartTranscript, Take, Move, steps, PlaceFitsStage, BrokerOK, StepsOK
<1>2. ASSUME NEW m \in Ids, SkipTranscript(m) PROVE WorkersClaim'
  BY <1>0, <1>2 DEF SkipTranscript, Take, Ack, steps, PlaceFitsStage, BrokerOK, StepsOK
<1>3. ASSUME NEW m \in Ids, ClaimTranscribe(m) PROVE WorkersClaim'
  BY <1>0, <1>3 DEF ClaimTranscribe, At, Claimable, Overdue, Move, Claim, PlaceFitsStage, BrokerOK,
           StepsOK
<1>4. ASSUME NEW m \in Ids, TranscribeRefused(m) PROVE WorkersClaim'
  BY <1>0, <1>4 DEF TranscribeRefused, At, Ack, steps, PlaceFitsStage, BrokerOK, StepsOK
<1>5. ASSUME NEW m \in Ids, Transcribed(m) PROVE WorkersClaim'
  BY <1>0, <1>5 DEF Transcribed, At, Claimable, Overdue, Move, PlaceFitsStage, BrokerOK, StepsOK
<1>6. ASSUME NEW m \in Ids, TranscriptOnly(m) PROVE WorkersClaim'
  BY <1>0, <1>6 DEF TranscriptOnly, At, Ack, Settle, Abandon, PlaceFitsStage, BrokerOK, StepsOK
<1>61. ASSUME NEW m \in Ids, TranscriptAgain(m) PROVE WorkersClaim'
  BY <1>0, <1>61 DEF TranscriptAgain, At, Move, Settle, PlaceFitsStage, BrokerOK, StepsOK
<1>7. ASSUME NEW m \in Ids, TranscriptEmpty(m) PROVE WorkersClaim'
  BY <1>0, <1>7 DEF TranscriptEmpty, At, Ack, Settle, PlaceFitsStage, BrokerOK, StepsOK
<1>8. ASSUME NEW m \in Ids, TranscriptRaises(m) PROVE WorkersClaim'
  BY <1>0, <1>8 DEF TranscriptRaises, At, Ack, Requeue, Settle, PlaceFitsStage, BrokerOK, StepsOK
<1>9. ASSUME NEW m \in Ids, DownloadedInline(m) PROVE WorkersClaim'
  BY <1>0, <1>9 DEF DownloadedInline, At, Ack, Move, Settle, PlaceFitsStage, BrokerOK, StepsOK
<1>10. ASSUME NEW m \in Ids, InlineDownloadFailed(m) PROVE WorkersClaim'
  BY <1>0, <1>10 DEF InlineDownloadFailed, At, Ack, Settle, PlaceFitsStage, BrokerOK, StepsOK
<1>11. ASSUME NEW m \in Ids, HandOver(m) PROVE WorkersClaim'
  BY <1>0, <1>11 DEF HandOver, At, Send, steps, PlaceFitsStage, BrokerOK, StepsOK
<1>12. ASSUME NEW m \in Ids, ClaimDownload(m) PROVE WorkersClaim'
  BY <1>0, <1>12 DEF ClaimDownload, Take, Claimable, Overdue, LoadAndMove, Claim, PlaceFitsStage,
           BrokerOK, StepsOK
<1>13. ASSUME NEW m \in Ids, DownloadRefused(m) PROVE WorkersClaim'
  BY <1>0, <1>13 DEF DownloadRefused, Take, Ack, steps, PlaceFitsStage, BrokerOK, StepsOK
<1>14. ASSUME NEW m \in Ids, DownloadDone(m) PROVE WorkersClaim'
  BY <1>0, <1>14 DEF DownloadDone, At, Ack, Move, Settle, PlaceFitsStage, BrokerOK, StepsOK
<1>15. ASSUME NEW m \in Ids, DownloadFailed(m) PROVE WorkersClaim'
  BY <1>0, <1>15 DEF DownloadFailed, At, Requeue, Move, Settle, PlaceFitsStage, BrokerOK, StepsOK
<1>16. ASSUME NEW m \in Ids, HandOverRefused(m) PROVE WorkersClaim'
  BY <1>0, <1>16 DEF HandOverRefused, At, Ack, steps, PlaceFitsStage, BrokerOK, StepsOK
<1>17. ASSUME NEW m \in Ids, DownloadExhausted(m) PROVE WorkersClaim'
  BY <1>0, <1>17 DEF DownloadExhausted, At, Ack, FailSteps, steps, PlaceFitsStage, BrokerOK, StepsOK
<1>18. ASSUME NEW m \in Ids, LoadVisual(m) PROVE WorkersClaim'
  BY <1>0, <1>18 DEF LoadVisual, Take, LoadAndMove, steps, PlaceFitsStage, BrokerOK, StepsOK
<1>19. ASSUME NEW m \in Ids, SkipVisual(m) PROVE WorkersClaim'
  BY <1>0, <1>19 DEF SkipVisual, Take, Ack, steps, PlaceFitsStage, BrokerOK, StepsOK
<1>20. ASSUME NEW m \in Ids, ClaimVisual(m) PROVE WorkersClaim'
  BY <1>0, <1>20 DEF ClaimVisual, At, Claimable, Overdue, Move, Claim, PlaceFitsStage, BrokerOK, StepsOK
<1>21. ASSUME NEW m \in Ids, VisualRefused(m) PROVE WorkersClaim'
  BY <1>0, <1>21 DEF VisualRefused, At, Ack, steps, PlaceFitsStage, BrokerOK, StepsOK
<1>22. ASSUME NEW m \in Ids, SnapshotsNoVideo(m) PROVE WorkersClaim'
  BY <1>0, <1>22 DEF SnapshotsNoVideo, At, Claimable, Overdue, Ack, PlaceFitsStage, BrokerOK, StepsOK
<1>23. ASSUME NEW m \in Ids, SnapshotsDone(m) PROVE WorkersClaim'
  BY <1>0, <1>23 DEF SnapshotsDone, At, Ack, Abandon, Settle, PlaceFitsStage, BrokerOK, StepsOK
<1>24. ASSUME NEW m \in Ids, SnapshotsFailed(m) PROVE WorkersClaim'
  BY <1>0, <1>24 DEF SnapshotsFailed, At, Ack, Settle, PlaceFitsStage, BrokerOK, StepsOK
<1>25. ASSUME NEW m \in Ids, SlidesNoSlot(m) PROVE WorkersClaim'
  BY <1>0, <1>25 DEF SlidesNoSlot, At, Requeue, Move, steps, PlaceFitsStage, BrokerOK, StepsOK
<1>26. ASSUME NEW m \in Ids, SlidesExhausted(m) PROVE WorkersClaim'
  BY <1>0, <1>26 DEF SlidesExhausted, At, Ack, FailSteps, steps, PlaceFitsStage, BrokerOK, StepsOK
<1>27. ASSUME NEW m \in Ids, SlidesEnd(m, "completed") \/ SlidesEnd(m, "failed") PROVE WorkersClaim'
  BY <1>0, <1>27 DEF SlidesEnd, At, Ack, Abandon, Settle, PlaceFitsStage, BrokerOK, StepsOK
<1>28. ASSUME NEW m \in Ids, SlidesRaises(m) PROVE WorkersClaim'
  BY <1>0, <1>28 DEF SlidesRaises, At, Ack, Abandon, PlaceFitsStage, BrokerOK, StepsOK
<1>29. ASSUME NEW m \in Ids, Die(m) PROVE WorkersClaim'
  BY <1>0, <1>29 DEF Die, At, Requeue, Abandon, PlaceFitsStage, BrokerOK, StepsOK
<1>30. ASSUME NEW m \in Ids, TimeOut(m) PROVE WorkersClaim'
  BY <1>0, <1>30 DEF TimeOut, At, Ack, Abandon, PlaceFitsStage, BrokerOK, StepsOK
<1>31. ASSUME NEW s \in Stages, Publish(s) \/ PublishAgain(s) PROVE WorkersClaim'
  BY <1>0, <1>31 DEF Publish, PublishAgain, Send, steps, BrokerOK, StepsOK, JobOK
<1>32. ASSUME NEW s \in Stages, Reap(s) \/ RetryStep(s) PROVE WorkersClaim'
  BY <1>0, <1>32 DEF Reap, RetryStep, Overdue, broker, BrokerOK, StepsOK, JobOK
<1>33. CASE DispatchDirectly
  BY <1>0, <1>33 DEF DispatchDirectly, Send, steps, BrokerOK, StepsOK, JobOK
<1>34. CASE CancelCheck
  BY <1>0, <1>34 DEF CancelCheck, steps, broker, BrokerOK, StepsOK, JobOK
<1>35. CASE CancelCommit
  BY <1>0, <1>35 DEF CancelCommit, Ack, Abandon, steps, broker, BrokerOK, StepsOK, JobOK
<1>36. CASE UNCHANGED vars
  BY <1>0, <1>36 DEF vars, steps, broker, BrokerOK, StepsOK, JobOK
<1> QED
  BY <1>1, <1>2, <1>3, <1>4, <1>5, <1>6, <1>61, <1>7, <1>8, <1>9, <1>10, <1>11, <1>12, <1>13, <1>14,
     <1>15, <1>16, <1>17, <1>18, <1>19, <1>20, <1>21, <1>22, <1>23, <1>24, <1>25, <1>26, <1>27,
     <1>28, <1>29, <1>30, <1>31, <1>32, <1>33, <1>34, <1>35, <1>36
     DEF Next, Task, Receives, Begins, Succeeds, Concludes, Fails

---------------------------------------------------------------------------------
(* The status of the job *)

\* Only these steps complete a job.
Completes(m) ==
    TranscriptOnly(m) \/ SnapshotsDone(m) \/ SlidesEnd(m, "completed") \/ SlidesEnd(m, "failed")

StatusMoves ==
    /\ status' = "pending" => status = "pending"
    /\ status' = "completed" /\ status # "completed" => \E m \in Ids : Completes(m)

\* No other step completes a job, and none makes it pending.
LEMMA StatusStep ==
    ASSUME [Next]_vars
    PROVE  StatusMoves
<1> USE DEF Keep, StatusMoves
<1>1. ASSUME NEW m \in Ids, Receives(m)
      PROVE  StatusMoves
  BY <1>1
     DEF Receives, StartTranscript, SkipTranscript, LoadVisual, SkipVisual
<1>2. ASSUME NEW m \in Ids, Begins(m)
      PROVE  StatusMoves
  BY <1>2
     DEF Begins, ClaimTranscribe, TranscribeRefused, ClaimDownload, DownloadRefused,
         ClaimVisual, VisualRefused, Assigned
<1>3. ASSUME NEW m \in Ids, Succeeds(m)
      PROVE  StatusMoves
  BY <1>3
     DEF Succeeds, Transcribed, TranscriptOnly, TranscriptAgain, DownloadedInline, DownloadDone, SnapshotsDone,
         SlidesEnd, Assigned, Completes
<1>4. ASSUME NEW m \in Ids, Fails(m)
      PROVE  StatusMoves
  BY <1>4
     DEF Fails, TranscriptEmpty, TranscriptRaises, InlineDownloadFailed, DownloadFailed,
         HandOverRefused, SnapshotsNoVideo, SnapshotsFailed, SlidesNoSlot, SlidesEnd,
         SlidesRaises, Completes
<1>5. ASSUME NEW m \in Ids, Concludes(m) \/ Die(m) \/ TimeOut(m)
      PROVE  StatusMoves
  BY <1>5
     DEF Concludes, HandOver, DownloadExhausted, SlidesExhausted, Die, TimeOut
<1>6. ASSUME NEW s \in Stages, Publish(s) \/ PublishAgain(s) \/ Reap(s) \/ RetryStep(s)
      PROVE  StatusMoves
  BY <1>6
     DEF Publish, PublishAgain, Reap, RetryStep, job
<1>7. ASSUME DispatchDirectly \/ CancelCheck \/ CancelCommit \/ UNCHANGED vars
      PROVE  StatusMoves
  BY <1>7
     DEF DispatchDirectly, CancelCheck, CancelCommit, job, vars
<1> QED
  BY <1>1, <1>2, <1>3, <1>4, <1>5, <1>6, <1>7 DEF Next, Task

\* A step releases the admission and leaves the job inactive, or neither changes.
ReleasedOrKept ==
    \/ Release /\ status' \notin Active
    \/ UNCHANGED admitted /\ (status' \in Active <=> status \in Active)

\* An active status is written only over an active one.
LEMMA ReleasedStep ==
    ASSUME TypeOK, HeldWhileActive, WorkersClaim, CompletedIsDone, LoadedActive, [Next]_vars
    PROVE  ReleasedOrKept
<1> USE DEF Keep, Release, ReleasedOrKept
<1>0. JobOK /\ (status = "failed" => ~admitted)
  BY TypeParts DEF HeldWhileActive
<1>1. ASSUME NEW m \in Ids, Receives(m)
      PROVE  ReleasedOrKept
  BY <1>0, <1>1
     DEF Receives, StartTranscript, SkipTranscript, LoadVisual, SkipVisual, Startable, JobOK
<1>2. ASSUME NEW m \in Ids, Begins(m)
      PROVE  ReleasedOrKept
  BY <1>0, <1>2
     DEF Begins, ClaimTranscribe, TranscribeRefused, ClaimDownload, DownloadRefused,
         ClaimVisual, VisualRefused, Assigned, JobOK, At, LoadedActive
<1>3. ASSUME NEW m \in Ids, Succeeds(m)
      PROVE  ReleasedOrKept
  BY <1>0, <1>3
     DEF Succeeds, Transcribed, TranscriptOnly, TranscriptAgain, DownloadedInline, DownloadDone, SnapshotsDone,
         SlidesEnd, Assigned, JobOK, At, WorkersClaim, Worker, Owns, CompletedIsDone
<1>4. ASSUME NEW m \in Ids, Fails(m)
      PROVE  ReleasedOrKept
  BY <1>0, <1>4
     DEF Fails, TranscriptEmpty, TranscriptRaises, InlineDownloadFailed, DownloadFailed,
         HandOverRefused, SnapshotsNoVideo, SnapshotsFailed, SlidesNoSlot, SlidesEnd,
         SlidesRaises, JobOK
<1>5. ASSUME NEW m \in Ids, Concludes(m) \/ Die(m) \/ TimeOut(m)
      PROVE  ReleasedOrKept
  BY <1>0, <1>5
     DEF Concludes, HandOver, DownloadExhausted, SlidesExhausted, Die, TimeOut, JobOK
<1>6. ASSUME NEW s \in Stages, Publish(s) \/ PublishAgain(s) \/ Reap(s) \/ RetryStep(s)
      PROVE  ReleasedOrKept
  BY <1>0, <1>6
     DEF Publish, PublishAgain, Reap, RetryStep, job
<1>7. ASSUME DispatchDirectly \/ CancelCheck \/ CancelCommit \/ UNCHANGED vars
      PROVE  ReleasedOrKept
  BY <1>0, <1>7
     DEF DispatchDirectly, CancelCheck, CancelCommit, job, vars
<1> QED
  BY <1>1, <1>2, <1>3, <1>4, <1>5, <1>6, <1>7 DEF Next, Task

\* So the admission is held exactly while the job is active.
LEMMA HeldStep ==
    ASSUME TypeOK, HeldWhileActive, WorkersClaim, CompletedIsDone, LoadedActive, [Next]_vars
    PROVE  HeldWhileActive'
BY ReleasedStep DEF Release, ReleasedOrKept, HeldWhileActive

\* The kind of a job is fixed.
LEMMA ModeStep ==
    ASSUME [Next]_vars
    PROVE  UNCHANGED mode
BY DEF Next, Task, Receives, Begins, Succeeds, Fails, Concludes, Keep, vars, job,
       StartTranscript, SkipTranscript, LoadVisual, SkipVisual, ClaimTranscribe,
       TranscribeRefused, ClaimDownload, DownloadRefused, ClaimVisual, VisualRefused,
       Transcribed, TranscriptOnly, TranscriptAgain, DownloadedInline, DownloadDone, SnapshotsDone, SlidesEnd,
       TranscriptEmpty, TranscriptRaises, InlineDownloadFailed, DownloadFailed, HandOverRefused,
       SnapshotsNoVideo, SnapshotsFailed, SlidesNoSlot, SlidesRaises, HandOver,
       DownloadExhausted, SlidesExhausted, Die, TimeOut, Publish, PublishAgain, Reap, RetryStep,
       DispatchDirectly, CancelCheck, CancelCommit

---------------------------------------------------------------------------------
(* The order of the stages *)

\* A transcript message more leaves only transcript messages.
LEMMA SendTranscript ==
    ASSUME BrokerOK, Send("transcribe", None), \A m \in Ids : stage[m] = "transcribe"
    PROVE  \A m \in Ids : stage'[m] = "transcribe" /\ place'[m] \in {place[m], "queued"}
BY PipelineAssumption DEF BrokerOK, Send

\* A pending job has only transcript messages, and nobody has taken one up.
LEMMA PendingStep ==
    ASSUME TypeOK, PlaceFitsStage, PendingWaits, [Next]_vars
    PROVE  PendingWaits'
<1> SUFFICES ASSUME status' = "pending" PROVE Waiting' /\ OnlyTranscripts'
  BY DEF PendingWaits
<1> USE DEF Keep, Waiting, OnlyTranscripts
<1>0. BrokerOK /\ StepsOK /\ JobOK /\ Waiting /\ OnlyTranscripts /\ status = "pending"
  BY TypeParts, StatusStep DEF StatusMoves, PendingWaits
<1>1. ASSUME NEW m \in Ids, Receives(m)
      PROVE  Waiting' /\ OnlyTranscripts'
  <2>1. CASE StartTranscript(m)
    BY <1>0, <2>1
       DEF StartTranscript
  <2>2. CASE SkipTranscript(m)
    BY <1>0, <2>2
       DEF SkipTranscript, Take, Ack, steps, BrokerOK
  <2>3. CASE LoadVisual(m) \/ SkipVisual(m)
    BY <1>0, <2>3
       DEF LoadVisual, SkipVisual, Take
  <2> QED
    BY <1>1, <2>1, <2>2, <2>3 DEF Receives
<1>2. ASSUME NEW m \in Ids, Begins(m)
      PROVE  Waiting' /\ OnlyTranscripts'
  BY <1>0, <1>2
     DEF Begins, ClaimTranscribe, TranscribeRefused, ClaimDownload, DownloadRefused,
         ClaimVisual, VisualRefused, At, Take
<1>3. ASSUME NEW m \in Ids, Succeeds(m)
      PROVE  Waiting' /\ OnlyTranscripts'
  BY <1>0, <1>3
     DEF Succeeds, Transcribed, TranscriptOnly, TranscriptAgain, DownloadedInline, DownloadDone, SnapshotsDone,
         SlidesEnd, At
<1>4. ASSUME NEW m \in Ids, Fails(m)
      PROVE  Waiting' /\ OnlyTranscripts'
  BY <1>0, <1>4
     DEF Fails, TranscriptEmpty, TranscriptRaises, InlineDownloadFailed, DownloadFailed,
         HandOverRefused, SnapshotsNoVideo, SnapshotsFailed, SlidesNoSlot, SlidesEnd,
         SlidesRaises, At
<1>5. ASSUME NEW m \in Ids, Concludes(m) \/ Die(m) \/ TimeOut(m)
      PROVE  Waiting' /\ OnlyTranscripts'
  BY <1>0, <1>5
     DEF Concludes, HandOver, DownloadExhausted, SlidesExhausted, Die, TimeOut, At
<1>6. ASSUME NEW s \in Stages, Publish(s) \/ PublishAgain(s) \/ Reap(s) \/ RetryStep(s)
      PROVE  Waiting' /\ OnlyTranscripts'
  <2>1. CASE Publish(s) \/ PublishAgain(s)
    <3>1. s = "transcribe"
      BY <1>0, <2>1 DEF Publish, PublishAgain
    <3>2. Send("transcribe", None) /\ UNCHANGED step /\ outbox' \subseteq outbox
      BY <2>1, <3>1 DEF Publish, PublishAgain, steps
    <3> QED
      BY <1>0, <3>2, SendTranscript
  <2>2. CASE Reap(s) \/ RetryStep(s)
    BY <1>0, <2>2
       DEF Reap, RetryStep, Overdue, broker, job, BrokerOK, StepsOK
  <2> QED
    BY <1>6, <2>1, <2>2
<1>7. ASSUME DispatchDirectly \/ CancelCheck \/ CancelCommit \/ UNCHANGED vars
      PROVE  Waiting' /\ OnlyTranscripts'
  <2>1. CASE DispatchDirectly
    BY <1>0, <2>1
       DEF DispatchDirectly, Send, steps, job, BrokerOK, StepsOK
  <2>2. CASE CancelCheck
    BY <1>0, <2>2
       DEF CancelCheck, steps, job, broker, BrokerOK, StepsOK
  <2>3. CASE CancelCommit
    BY <1>0, <2>3
       DEF CancelCommit, Ack, Abandon, steps, broker, JobOK, BrokerOK, StepsOK
  <2>4. CASE UNCHANGED vars
    BY <1>0, <2>4
       DEF vars, steps, job, broker, BrokerOK, StepsOK
  <2> QED
    BY <1>7, <2>1, <2>2, <2>3, <2>4
<1> QED
  BY <1>1, <1>2, <1>3, <1>4, <1>5, <1>6, <1>7 DEF Next, Task

\* A visual task's job was processing when it was loaded.
LEMMA LoadedStep ==
    ASSUME TypeOK, PendingWaits, LoadedActive, [Next]_vars
    PROVE  LoadedActive'
<1> USE DEF Keep, LoadedActive
<1>0. BrokerOK /\ JobOK /\ PendingWaits
  BY TypeParts
<1>1. ASSUME NEW m \in Ids, Receives(m)
      PROVE  LoadedActive'
  BY <1>0, <1>1
     DEF Receives, StartTranscript, SkipTranscript, LoadVisual, SkipVisual, PendingWaits,
         OnlyTranscripts, Take, Admissible, Ack, Move, LoadAndMove, BrokerOK, JobOK
<1>2. ASSUME NEW m \in Ids, Begins(m)
      PROVE  LoadedActive'
  BY <1>0, <1>2
     DEF Begins, ClaimTranscribe, TranscribeRefused, ClaimDownload, DownloadRefused,
         ClaimVisual, VisualRefused, Take, Ack, Move, LoadAndMove, BrokerOK
<1>3. ASSUME NEW m \in Ids, Succeeds(m)
      PROVE  LoadedActive'
  BY <1>0, <1>3
     DEF Succeeds, Transcribed, TranscriptOnly, TranscriptAgain, DownloadedInline, DownloadDone, SnapshotsDone,
         SlidesEnd, Ack, Move, BrokerOK
<1>4. ASSUME NEW m \in Ids, Fails(m)
      PROVE  LoadedActive'
  BY <1>0, <1>4
     DEF Fails, TranscriptEmpty, TranscriptRaises, InlineDownloadFailed, DownloadFailed,
         HandOverRefused, SnapshotsNoVideo, SnapshotsFailed, SlidesNoSlot, SlidesEnd,
         SlidesRaises, Ack, Move, Requeue, BrokerOK
<1>5. ASSUME NEW m \in Ids, Concludes(m) \/ Die(m) \/ TimeOut(m)
      PROVE  LoadedActive'
  BY <1>0, <1>5
     DEF Concludes, HandOver, DownloadExhausted, SlidesExhausted, Die, TimeOut, Ack, Send,
         Requeue, BrokerOK
<1>6. ASSUME NEW s \in Stages, Publish(s) \/ PublishAgain(s) \/ Reap(s) \/ RetryStep(s)
      PROVE  LoadedActive'
  BY <1>0, <1>6
     DEF Publish, PublishAgain, Reap, RetryStep, Send, broker, BrokerOK
<1>7. ASSUME DispatchDirectly \/ CancelCheck \/ CancelCommit \/ UNCHANGED vars
      PROVE  LoadedActive'
  BY <1>0, <1>7
     DEF DispatchDirectly, CancelCheck, CancelCommit, Send, Ack, broker, vars, BrokerOK, JobOK
<1> QED
  BY <1>1, <1>2, <1>3, <1>4, <1>5, <1>6, <1>7 DEF Next, Task

\* Nothing else is dispatched or begun before the transcript is done ...
LEMMA TranscriptStep ==
    ASSUME TypeOK, PlaceFitsStage, FailedHasReleased, WorkersClaim, TranscriptFirst, [Next]_vars
    PROVE  TranscriptFirst'
<1> SUFFICES ASSUME status' \notin Ended, step'["transcribe"] # "completed" PROVE OnlyTranscripts'
  BY DEF TranscriptFirst
<1> USE DEF Keep, OnlyTranscripts
<1>0. BrokerOK /\ StepsOK /\ JobOK /\ OnlyTranscripts
  BY TypeParts, EndedStep, DoneStep DEF EndedStaysEnded, DoneStaysDone, TranscriptFirst
<1>1. ASSUME NEW m \in Ids, Receives(m)
      PROVE  OnlyTranscripts'
  <2>1. CASE StartTranscript(m) \/ SkipTranscript(m)
    <3>1. UNCHANGED <<step, outbox>>
      BY <2>1 DEF StartTranscript, SkipTranscript, steps
    <3>2. \/ Move(m, "started")
          \/ Ack(m)
      BY <2>1 DEF StartTranscript, SkipTranscript
    <3>3. \A n \in Ids : stage'[n] = "transcribe" /\ place'[n] \notin {"downloading", "handover"}
      BY <1>0, <3>2 DEF Move, Ack, BrokerOK
    <3> QED
      BY <1>0, <3>1, <3>3
  <2>2. CASE LoadVisual(m) \/ SkipVisual(m)
    BY <1>0, <2>2 DEF LoadVisual, SkipVisual, Take
  <2> QED
    BY <1>1, <2>1, <2>2 DEF Receives
<1>2. ASSUME NEW m \in Ids, Begins(m)
      PROVE  OnlyTranscripts'
  <2>1. CASE ClaimTranscribe(m)
    BY <1>0, <2>1
       DEF ClaimTranscribe, At, Move, Claim, PlaceFitsStage, BrokerOK, StepsOK
  <2>2. CASE TranscribeRefused(m)
    BY <1>0, <2>2
       DEF TranscribeRefused, At, Ack, steps, PlaceFitsStage, BrokerOK, StepsOK
  <2>3. CASE ClaimDownload(m) \/ DownloadRefused(m)
    BY <1>0, <2>3
       DEF ClaimDownload, DownloadRefused, Take
  <2>4. CASE ClaimVisual(m) \/ VisualRefused(m)
    BY <1>0, <2>4
       DEF ClaimVisual, VisualRefused, At, PlaceFitsStage
  <2> QED
    BY <1>2, <2>1, <2>2, <2>3, <2>4 DEF Begins
<1>3. ASSUME NEW m \in Ids, Succeeds(m)
      PROVE  OnlyTranscripts'
  <2>1. CASE Transcribed(m) \/ TranscriptOnly(m) \/ TranscriptAgain(m)
    <3>1. Owns(m, "transcribe")
      BY <1>0, <2>1
         DEF Transcribed, TranscriptOnly, TranscriptAgain, At, WorkersClaim, Worker
    <3>2. status \notin Ended
      BY EndedStep DEF EndedStaysEnded
    <3>3. step'["transcribe"] = "completed"
      BY <1>0, <2>1, <3>1, <3>2
         DEF Transcribed, TranscriptOnly, TranscriptAgain, Settle, Owns, StepsOK
    <3> QED
      BY <3>3
  <2>2. CASE DownloadedInline(m)
    BY <1>0, <2>2 DEF DownloadedInline, At
  <2>3. CASE DownloadDone(m) \/ SnapshotsDone(m) \/ SlidesEnd(m, "completed")
    BY <1>0, <2>3 DEF DownloadDone, SnapshotsDone, SlidesEnd, At
  <2> QED
    BY <1>3, <2>1, <2>2, <2>3 DEF Succeeds
<1>4. ASSUME NEW m \in Ids, Fails(m)
      PROVE  OnlyTranscripts'
  <2>1. CASE TranscriptRaises(m)
    BY <1>0, <2>1
       DEF TranscriptRaises, At, Settle, Ack, Requeue, BrokerOK, StepsOK
  <2>2. CASE TranscriptEmpty(m)
    BY <1>0, <2>2
       DEF TranscriptEmpty
  <2>3. CASE ~TranscriptRaises(m) /\ ~TranscriptEmpty(m) /\ Fails(m)
    BY <1>0, <2>3
       DEF Fails, InlineDownloadFailed, DownloadFailed, HandOverRefused, SnapshotsNoVideo,
           SnapshotsFailed, SlidesNoSlot, SlidesEnd, SlidesRaises, At, PlaceFitsStage
  <2> QED
    BY <1>4, <2>1, <2>2, <2>3 DEF Fails
<1>5. ASSUME NEW m \in Ids, Concludes(m) \/ Die(m) \/ TimeOut(m)
      PROVE  OnlyTranscripts'
  BY <1>0, <1>5
     DEF Concludes, HandOver, DownloadExhausted, SlidesExhausted, Die, TimeOut, At, Ack,
         Requeue, Abandon, BrokerOK, StepsOK
<1>6. ASSUME NEW s \in Stages, Publish(s) \/ PublishAgain(s) \/ Reap(s) \/ RetryStep(s)
      PROVE  OnlyTranscripts'
  <2>1. CASE Publish(s) \/ PublishAgain(s)
    <3>1. s = "transcribe"
      BY <1>0, <2>1 DEF Publish, PublishAgain
    <3>2. Send("transcribe", None) /\ UNCHANGED step /\ outbox' \subseteq outbox
      BY <2>1, <3>1 DEF Publish, PublishAgain, steps
    <3> QED
      BY <1>0, <3>2, SendTranscript
  <2>2. CASE Reap(s) \/ RetryStep(s)
    <3>1. s = "transcribe"
      BY <1>0, <2>2 DEF Reap, RetryStep, Overdue
    <3> QED
      BY <1>0, <2>2, <3>1 DEF Reap, RetryStep, broker, StepsOK
  <2> QED
    BY <1>6, <2>1, <2>2
<1>7. ASSUME DispatchDirectly \/ CancelCheck \/ CancelCommit \/ UNCHANGED vars
      PROVE  OnlyTranscripts'
  <2>1. CASE DispatchDirectly
    BY <1>0, <2>1
       DEF DispatchDirectly, Send, steps, job, BrokerOK, StepsOK
  <2>2. CASE CancelCheck
    BY <1>0, <2>2
       DEF CancelCheck, steps, job, broker, BrokerOK, StepsOK
  <2>3. CASE CancelCommit
    BY <1>0, <2>3
       DEF CancelCommit, Ack, Abandon, steps, broker, JobOK, BrokerOK, StepsOK
  <2>4. CASE UNCHANGED vars
    BY <1>0, <2>4
       DEF vars, steps, job, broker, BrokerOK, StepsOK
  <2> QED
    BY <1>7, <2>1, <2>2, <2>3, <2>4
<1> QED
  BY <1>1, <1>2, <1>3, <1>4, <1>5, <1>6, <1>7 DEF Next, Task

\* ... and nothing visual before the download is.
LEMMA VisualStep ==
    ASSUME TypeOK, PlaceFitsStage, FailedHasReleased, WorkersClaim, VisualLast, [Next]_vars
    PROVE  VisualLast'
<1> SUFFICES ASSUME status' \notin Ended, step'["download"] \notin {"completed", "skipped"}
             PROVE  NothingVisual'
  BY DEF VisualLast
<1> USE DEF Keep, NothingVisual
<1>0. BrokerOK /\ StepsOK /\ JobOK /\ NothingVisual
  BY TypeParts, EndedStep, DoneStep DEF EndedStaysEnded, DoneStaysDone, VisualLast
<1>1. ASSUME NEW m \in Ids, Receives(m)
      PROVE  NothingVisual'
  BY <1>0, <1>1
     DEF Receives, StartTranscript, SkipTranscript, LoadVisual, SkipVisual, Take, Ack, Move,
         steps, BrokerOK
<1>2. ASSUME NEW m \in Ids, Begins(m)
      PROVE  NothingVisual'
  <2>1. CASE ClaimTranscribe(m)
    BY <1>0, <2>1
       DEF ClaimTranscribe, At, Move, Claim, PlaceFitsStage, BrokerOK, StepsOK
  <2>2. CASE ClaimDownload(m)
    BY <1>0, <2>2
       DEF ClaimDownload, Take, LoadAndMove, Claim, BrokerOK, StepsOK
  <2>3. CASE TranscribeRefused(m) \/ DownloadRefused(m)
    BY <1>0, <2>3
       DEF TranscribeRefused, DownloadRefused, Ack, steps, BrokerOK, StepsOK
  <2>4. CASE ClaimVisual(m) \/ VisualRefused(m)
    BY <1>0, <2>4
       DEF ClaimVisual, VisualRefused, At, PlaceFitsStage
  <2> QED
    BY <1>2, <2>1, <2>2, <2>3, <2>4 DEF Begins
<1>3. ASSUME NEW m \in Ids, Succeeds(m)
      PROVE  NothingVisual'
  BY <1>0, <1>3
     DEF Succeeds, Transcribed, TranscriptOnly, TranscriptAgain, DownloadedInline, DownloadDone, SnapshotsDone,
         SlidesEnd, At, Settle, Abandon, Ack, Move, WorkersClaim, Worker, Owns, PlaceFitsStage,
         BrokerOK, StepsOK
<1>4. ASSUME NEW m \in Ids, Fails(m)
      PROVE  NothingVisual'
  BY <1>0, <1>4
     DEF Fails, TranscriptEmpty, TranscriptRaises, InlineDownloadFailed, DownloadFailed,
         HandOverRefused, SnapshotsNoVideo, SnapshotsFailed, SlidesNoSlot, SlidesEnd,
         SlidesRaises, At, Settle, Ack, Move, Requeue, PlaceFitsStage, BrokerOK, StepsOK
<1>5. ASSUME NEW m \in Ids, Concludes(m) \/ Die(m) \/ TimeOut(m)
      PROVE  NothingVisual'
  BY <1>0, <1>5
     DEF Concludes, HandOver, DownloadExhausted, SlidesExhausted, Die, TimeOut, At, Ack,
         FailSteps, Requeue, Abandon, steps, BrokerOK, StepsOK
<1>6. ASSUME NEW s \in Stages, Publish(s) \/ PublishAgain(s) \/ Reap(s) \/ RetryStep(s)
      PROVE  NothingVisual'
  <2>1. CASE Publish(s) \/ PublishAgain(s)
    BY <1>0, <2>1
       DEF Publish, PublishAgain, Send, steps, BrokerOK, StepsOK
  <2>2. CASE Reap(s) \/ RetryStep(s)
    BY <1>0, <2>2
       DEF Reap, RetryStep, Overdue, broker, job, BrokerOK, StepsOK
  <2> QED
    BY <1>6, <2>1, <2>2
<1>7. ASSUME DispatchDirectly \/ CancelCheck \/ CancelCommit \/ UNCHANGED vars
      PROVE  NothingVisual'
  <2>1. CASE DispatchDirectly
    BY <1>0, <2>1
       DEF DispatchDirectly, Send, steps, job, BrokerOK, StepsOK
  <2>2. CASE CancelCheck
    BY <1>0, <2>2
       DEF CancelCheck, steps, job, broker, BrokerOK, StepsOK
  <2>3. CASE CancelCommit
    BY <1>0, <2>3
       DEF CancelCommit, Ack, Abandon, steps, broker, JobOK, BrokerOK, StepsOK
  <2>4. CASE UNCHANGED vars
    BY <1>0, <2>4
       DEF vars, steps, job, broker, BrokerOK, StepsOK
  <2> QED
    BY <1>7, <2>1, <2>2, <2>3, <2>4
<1> QED
  BY <1>1, <1>2, <1>3, <1>4, <1>5, <1>6, <1>7 DEF Next, Task
---------------------------------------------------------------------------------
(* Completion *)

\* Who completes a job has done the last stage it asked for, after the others.
LEMMA CompletesTruly ==
    ASSUME TypeOK, OrderInv, NEW m \in Ids, Completes(m), status' = "completed",
           status # "completed"
    PROVE  /\ step'["transcribe"] = "completed"
           /\ step'["download"] \in {"completed", "skipped"}
           /\ \/ step'[Dependent] \in {"completed", "skipped"}
              \/ SlideMode /\ step'["slides"] = "failed"
           /\ \A s \in Stages :
                 step'[s] \in {"pending", "running"} => s = "snapshots" /\ SlideMode
<1> USE DEF OrderInv, WorkersClaim, Worker, Owns, StepsOK, Settle, Dependent
<1>0. StepsOK /\ status \notin Ended
  BY TypeParts DEF Completes, TranscriptOnly, SnapshotsDone, SlidesEnd, Abandon
<1>1. CASE TranscriptOnly(m)
  <2>1. step["transcribe"] = "running" /\ Owns(m, "transcribe") /\ step["download"] = "skipped"
    BY <1>0, <1>1 DEF TranscriptOnly, At, Ready, TranscriptFirst, OnlyTranscripts
  <2>2. step["snapshots"] = "skipped" /\ step["slides"] = "skipped" /\ ~SlideMode
    BY <2>1 DEF SkippedAsAsked, SlideMode, Frames
  <2> QED
    BY <1>0, <1>1, <2>1, <2>2 DEF TranscriptOnly
<1>2. CASE SnapshotsDone(m) \/ SlidesEnd(m, "completed") \/ SlidesEnd(m, "failed")
  <2>1. /\ At(m, "working") /\ stage[m] \in Visual /\ Owns(m, stage[m])
        /\ stage[m] = "slides" <=> SlideMode
        /\ stage[m] = "snapshots" => SnapshotsDone(m)
    BY <1>2 DEF SnapshotsDone, SlidesEnd, At, SkippedAsAsked
  <2>2. step["download"] \in {"completed", "skipped"}
    BY <1>0, <2>1 DEF VisualLast, NothingVisual
  <2>3. step["transcribe"] = "completed"
    BY <1>0, <2>1 DEF TranscriptFirst, OnlyTranscripts
  <2>4. CASE stage[m] = "slides"
    BY <1>0, <1>2, <2>1, <2>2, <2>3, <2>4 DEF SnapshotsDone, SlidesEnd
  <2>5. CASE stage[m] = "snapshots"
    <3>1. step["slides"] = "skipped" /\ ~SlideMode
      BY <2>1, <2>5 DEF SkippedAsAsked
    <3> QED
      BY <1>0, <2>1, <2>2, <2>3, <2>5, <3>1 DEF SnapshotsDone
  <2> QED
    BY <2>1, <2>4, <2>5
<1> QED
  BY <1>1, <1>2 DEF Completes

\* A completed job was completed by one of those, and is not undone.
LEMMA CompletedStep ==
    ASSUME TypeOK, OrderInv, [Next]_vars
    PROVE  CompletedIsDone'
<1> SUFFICES ASSUME status' = "completed" PROVE CompletedIsDone'
  BY DEF CompletedIsDone
<1>1. CASE status = "completed"
  <2>1. DoneStaysDone /\ UNCHANGED mode
    BY DoneStep, ModeStep
  <2> QED
    BY <1>1, <2>1 DEF OrderInv, CompletedIsDone, DoneStaysDone, SlideMode
<1>2. CASE status # "completed"
  <2>1. PICK m \in Ids : Completes(m)
    BY <1>2, StatusStep DEF StatusMoves
  <2>2. UNCHANGED mode
    BY ModeStep
  <2> QED
    BY <1>2, <2>1, <2>2, CompletesTruly DEF CompletedIsDone, SlideMode, Dependent
<1> QED
  BY <1>1, <1>2

\* The invariant is inductive together with the types and the claims.
LEMMA OrderStep ==
    ASSUME TypeOK, ClaimInv, OrderInv, ~Overruns, [Next]_vars
    PROVE  OrderInv'
<1>1. WorkersClaim'
  BY WorkersStep DEF ClaimInv, OrderInv
<1>2. PendingWaits'
  BY PendingStep DEF ClaimInv, OrderInv
<1>3. TranscriptFirst' /\ VisualLast'
  <2>1. FailedHasReleased
    BY DEF OrderInv, HeldWhileActive, FailedHasReleased
  <2> QED
    BY <2>1, TranscriptStep, VisualStep DEF ClaimInv, OrderInv
<1>4. SkippedAsAsked'
  BY DoneStep, ModeStep DEF DoneStaysDone, OrderInv, SkippedAsAsked, SlideMode, Frames
<1>5. LoadedActive'
  BY LoadedStep DEF OrderInv
<1>6. CompletedIsDone'
  BY CompletedStep
<1>7. HeldWhileActive'
  BY HeldStep DEF OrderInv
<1> QED
  BY <1>1, <1>2, <1>3, <1>4, <1>5, <1>6, <1>7 DEF OrderInv

\* As long as no task outlives its claim, the claims are those of the deliveries
\* at work and the stages follow one another.
THEOREM OrderCorrect == ~Overruns => (Spec => []OrderInv)
<1> SUFFICES ASSUME ~Overruns PROVE Spec => []OrderInv
  OBVIOUS
<1>1. Init => OrderInv
  BY PipelineAssumption
     DEF Init, OrderInv, WorkersClaim, Worker, Owns, PendingWaits, Waiting, OnlyTranscripts,
         TranscriptFirst, VisualLast, NothingVisual, SkippedAsAsked, LoadedActive,
         CompletedIsDone, HeldWhileActive, SlideMode, Frames
<1>2. TypeOK /\ ClaimInv /\ OrderInv /\ [Next]_vars => OrderInv'
  BY OrderStep
<1> QED
  BY <1>1, <1>2, TypeCorrect, ClaimsCorrect, PTL DEF Spec

---------------------------------------------------------------------------------
(* The properties *)

\* Two deliveries, duplicates or retries of one stage never work at once.
THEOREM OneWorkerPerStepHolds == ~Overruns => (Spec => []OneWorkerPerStep)
<1> SUFFICES ASSUME ~Overruns PROVE Spec => []OneWorkerPerStep
  OBVIOUS
<1>1. TypeOK /\ OrderInv => OneWorkerPerStep
  BY DEF TypeOK, OrderInv, WorkersClaim, Worker, Owns, At, OneWorkerPerStep
<1> QED
  BY <1>1, TypeCorrect, OrderCorrect, PTL

\* The admission counter is released with the last status the job takes, and
\* not before.
THEOREM HeldWhileActiveHolds == ~Overruns => (Spec => []HeldWhileActive)
<1> SUFFICES ASSUME ~Overruns PROVE Spec => []HeldWhileActive
  OBVIOUS
<1>1. OrderInv => HeldWhileActive
  BY DEF OrderInv
<1> QED
  BY <1>1, OrderCorrect, PTL

\* A job is reported completed only when its transcript, its video and the step the
\* video is for are done (slides may have failed), and it leaves nothing unfinished but
\* the snapshots of a slide job.
THEOREM CompletedTruthfullyHolds == ~Overruns => (Spec => CompletedTruthfully)
<1> SUFFICES ASSUME ~Overruns PROVE Spec => CompletedTruthfully
  OBVIOUS
<1> DEFINE Truthful ==
             /\ step'["transcribe"] = "completed"
             /\ step'["download"] \in {"completed", "skipped"}
             /\ \/ step'[Dependent] \in {"completed", "skipped"}
                \/ SlideMode /\ step'["slides"] = "failed"
             /\ \A s \in Stages :
                   step'[s] \in {"pending", "running"} => s = "snapshots" /\ SlideMode
<1>1. TypeOK /\ OrderInv /\ [Next]_vars
      => [status # "completed" /\ status' = "completed" => Truthful]_vars
  <2> SUFFICES ASSUME TypeOK, OrderInv, [Next]_vars, status # "completed", status' = "completed"
               PROVE  Truthful
    OBVIOUS
  <2>1. PICK m \in Ids : Completes(m)
    BY StatusStep DEF StatusMoves
  <2> QED
    BY <2>1, CompletesTruly
<1> QED
  BY <1>1, TypeCorrect, OrderCorrect, PTL DEF Spec, CompletedTruthfully

\* A completed job is not made active again by a delivery that was under way.
THEOREM NeverReopenedHolds == ~Overruns => (Spec => NeverReopened)
<1> SUFFICES ASSUME ~Overruns PROVE Spec => NeverReopened
  OBVIOUS
<1>1. TypeOK /\ OrderInv /\ [Next]_vars
      => [(status = "completed") => (status' \notin Active)]_vars
  BY ReleasedStep DEF OrderInv, ReleasedOrKept
<1> QED
  BY <1>1, TypeCorrect, OrderCorrect, PTL DEF Spec, NeverReopened
=================================================================================
