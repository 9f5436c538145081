-------------------------------- MODULE FetchProofs --------------------------------
(***************************************************************************)
(* A job for itself in the shared directories has its own video's text, for     *)
(* any jobs, videos, languages, ids and names.  The argument: every file there      *)
(* was written by a job under its own name, and as long as nothing has been left      *)
(* behind each belongs to a job that has not tidied up yet; so that what a job          *)
(* finds is its own, because no other writes such a name at all or because none          *)
(* has while it was there.                                                                 *)
(***************************************************************************)
EXTENDS Fetch, TLAPS

\* What the theorems ask of the constants: a name begins with itself.
Legal == /\ Plans \subseteq [Jobs -> Videos]
         /\ Id \in [Videos -> Names] /\ File \in [Videos -> Names]
         /\ \A n \in Names : n \in Like[n]

Captioning == {"written", "found", "cleaning"}

Shape ==
    /\ video \in Plans
    /\ DOMAIN pc = Jobs /\ DOMAIN picked = Jobs /\ DOMAIN text = Jobs
    /\ alone \in [Jobs -> BOOLEAN] /\ litter \in BOOLEAN

\* No other whose files it finds is there with a job that counts as alone.
Private == \A j \in Jobs : (alone[j] /\ pc[j] \in Inside) => Company(j) = {}

\* Every file was written by a job, under the name of its video.
Authored ==
    /\ \A f \in subs : \E k \in Jobs : f = [name |-> Written(k), lang |-> LangOf[k], video |-> video[k]]
    /\ \A f \in audio : \E k \in Jobs : f.name = Written(k) /\ f.video = video[k]

\* As long as nothing has been left behind, by a job that has not tidied up.
Owned == ~litter =>
    \A f \in subs : \E k \in Jobs : pc[k] \in Captioning /\ f.name = Written(k)

\* What a job has found begins with its id.
Sighted == \A j \in Jobs : pc[j] \in {"found", "listening"} => picked[j].name \in Sought(j)

\* What a job alone may find there is its own.
OwnDirectory ==
    \A j \in Jobs : (alone[j] /\ pc[j] \in Captioning) =>
        \A f \in subs : f.name \in Sought(j) => f.video = video[j] /\ f.lang = LangOf[j]

\* A job for itself whose ids agree listens to the mp3 it has recorded, and that is whole.
HeardWhole ==
    \A j \in Jobs : (ForItself(j) /\ Exact(j) /\ pc[j] = "listening") =>
        /\ picked[j] = [name |-> Written(j), mp3 |-> TRUE]
        /\ \A f \in audio : f.name = Written(j) => f.whole /\ f.video = video[j]

Blank == \A j \in Jobs : pc[j] \in {"idle", "native", "subtitles", "written", "found", "audio",
                                    "recording", "listening"} => text[j] = None

IInv == /\ Shape /\ Private /\ Authored /\ Owned /\ Sighted /\ OwnDirectory /\ HeardWhole /\ Blank
        /\ TextIsOwn

---------------------------------------------------------------------------------
\* No job changes its video, and with it what it writes and what it looks for.
LEMMA VideoStays == [Next]_vars => video' = video
  BY DEF Next, vars, Begin, NativeCaptions, WriteSubtitles, FindSubtitle, ReadSubtitle, CleanSubtitles,
         RecordAudio, AudioRecorded, Transcribe, AudioFails, Die

\* A job always finds the names that its ids share.
LEMMA NamesMeet == ASSUME Legal, Shape, NEW j \in Jobs, Exact(j) PROVE Finds(j, j)
  BY DEF Legal, Shape, Exact, Finds, Written, Sought

\* Every variable stays a function of the jobs.
LEMMA ShapeKept ==
    ASSUME Legal, Shape, [Next]_vars
    PROVE  Shape'
<1> USE DEF Legal, Shape
<1>1. ASSUME NEW j \in Jobs, Begin(j) PROVE Shape'
  BY <1>1 DEF Begin, To, Enters
<1>2. ASSUME NEW j \in Jobs, NativeCaptions(j) PROVE Shape'
  BY <1>2 DEF NativeCaptions, To, Enters
<1>3. ASSUME NEW j \in Jobs, WriteSubtitles(j) PROVE Shape'
  BY <1>3 DEF WriteSubtitles, To, Enters
<1>4. ASSUME NEW j \in Jobs, FindSubtitle(j) PROVE Shape'
  BY <1>4 DEF FindSubtitle, To, Enters
<1>5. ASSUME NEW j \in Jobs, ReadSubtitle(j) PROVE Shape'
  BY <1>5 DEF ReadSubtitle, To, Enters
<1>6. ASSUME NEW j \in Jobs, CleanSubtitles(j) PROVE Shape'
  BY <1>6 DEF CleanSubtitles, To, Enters
<1>7. ASSUME NEW j \in Jobs, RecordAudio(j) PROVE Shape'
  BY <1>7 DEF RecordAudio, To, Enters
<1>8. ASSUME NEW j \in Jobs, AudioRecorded(j) PROVE Shape'
  BY <1>8 DEF AudioRecorded, To, Enters
<1>9. ASSUME NEW j \in Jobs, Transcribe(j) PROVE Shape'
  BY <1>9 DEF Transcribe, To, Enters
<1>10. ASSUME NEW j \in Jobs, AudioFails(j) PROVE Shape'
  BY <1>10 DEF AudioFails, To, Enters
<1>11. ASSUME NEW j \in Jobs, Die(j) PROVE Shape'
  BY <1>11 DEF Die, To, Enters
<1>12. CASE UNCHANGED vars
  BY <1>12 DEF vars
<1> QED
  BY <1>1, <1>2, <1>3, <1>4, <1>5, <1>6, <1>7, <1>8, <1>9, <1>10, <1>11, <1>12 DEF Next

\* Who comes in and writes what another finds ends the other's being alone.
LEMMA PrivateKept ==
    ASSUME Legal, Shape, Private, [Next]_vars
    PROVE  Private'
<1> USE DEF Legal, Shape, Private, Written, Sought, Finds, Exact, Company, Inside
<1>1. ASSUME NEW j \in Jobs, Begin(j) PROVE Private'
  BY <1>1 DEF Begin, To, Enters
<1>2. ASSUME NEW j \in Jobs, NativeCaptions(j) PROVE Private'
  BY <1>2 DEF NativeCaptions, To, Enters
<1>3. ASSUME NEW j \in Jobs, WriteSubtitles(j) PROVE Private'
  BY <1>3 DEF WriteSubtitles, To, Enters
<1>4. ASSUME NEW j \in Jobs, FindSubtitle(j) PROVE Private'
  BY <1>4 DEF FindSubtitle, To, Enters
<1>5. ASSUME NEW j \in Jobs, ReadSubtitle(j) PROVE Private'
  BY <1>5 DEF ReadSubtitle, To, Enters
<1>6. ASSUME NEW j \in Jobs, CleanSubtitles(j) PROVE Private'
  BY <1>6 DEF CleanSubtitles, To, Enters
<1>7. ASSUME NEW j \in Jobs, RecordAudio(j) PROVE Private'
  BY <1>7 DEF RecordAudio, To, Enters
<1>8. ASSUME NEW j \in Jobs, AudioRecorded(j) PROVE Private'
  BY <1>8 DEF AudioRecorded, To, Enters
<1>9. ASSUME NEW j \in Jobs, Transcribe(j) PROVE Private'
  BY <1>9 DEF Transcribe, To, Enters
<1>10. ASSUME NEW j \in Jobs, AudioFails(j) PROVE Private'
  BY <1>10 DEF AudioFails, To, Enters
<1>11. ASSUME NEW j \in Jobs, Die(j) PROVE Private'
  BY <1>11 DEF Die, To, Enters
<1>12. CASE UNCHANGED vars
  BY <1>12 DEF vars
<1> QED
  BY <1>1, <1>2, <1>3, <1>4, <1>5, <1>6, <1>7, <1>8, <1>9, <1>10, <1>11, <1>12 DEF Next

\* A job writes under its video's name only.
LEMMA AuthoredKept ==
    ASSUME Legal, Shape, Authored, [Next]_vars
    PROVE  Authored'
<1> USE DEF Shape, Authored, Written
<1>1. ASSUME NEW j \in Jobs, Begin(j) PROVE Authored'
  BY <1>1 DEF Begin, To, Enters
<1>2. ASSUME NEW j \in Jobs, NativeCaptions(j) PROVE Authored'
  BY <1>2 DEF NativeCaptions, To, Enters
<1>3. ASSUME NEW j \in Jobs, WriteSubtitles(j) PROVE Authored'
  BY <1>3 DEF WriteSubtitles, To, Enters
<1>4. ASSUME NEW j \in Jobs, FindSubtitle(j) PROVE Authored'
  BY <1>4 DEF FindSubtitle, To, Enters
<1>5. ASSUME NEW j \in Jobs, ReadSubtitle(j) PROVE Authored'
  BY <1>5 DEF ReadSubtitle, To, Enters
<1>6. ASSUME NEW j \in Jobs, CleanSubtitles(j) PROVE Authored'
  BY <1>6 DEF CleanSubtitles, To, Enters
<1>7. ASSUME NEW j \in Jobs, RecordAudio(j) PROVE Authored'
  BY <1>7 DEF RecordAudio, To, Enters
<1>8. ASSUME NEW j \in Jobs, AudioRecorded(j) PROVE Authored'
  BY <1>8 DEF AudioRecorded, To, Enters
<1>9. ASSUME NEW j \in Jobs, Transcribe(j) PROVE Authored'
  BY <1>9 DEF Transcribe, To, Enters
<1>10. ASSUME NEW j \in Jobs, AudioFails(j) PROVE Authored'
  BY <1>10 DEF AudioFails, To, Enters
<1>11. ASSUME NEW j \in Jobs, Die(j) PROVE Authored'
  BY <1>11 DEF Die, To, Enters
<1>12. CASE UNCHANGED vars
  BY <1>12 DEF vars
<1> QED
  BY <1>1, <1>2, <1>3, <1>4, <1>5, <1>6, <1>7, <1>8, <1>9, <1>10, <1>11, <1>12 DEF Next

\* Files come with their job, and go with it or leave litter.
LEMMA OwnedKept ==
    ASSUME Legal, Shape, Owned, [Next]_vars
    PROVE  Owned'
<1> USE DEF Shape, Owned, Captioning, Written, Sought, Finds
<1>1. ASSUME NEW j \in Jobs, Begin(j) PROVE Owned'
  BY <1>1 DEF Begin, To, Enters
<1>2. ASSUME NEW j \in Jobs, NativeCaptions(j) PROVE Owned'
  BY <1>2 DEF NativeCaptions, To, Enters
<1>3. ASSUME NEW j \in Jobs, WriteSubtitles(j) PROVE Owned'
  BY <1>3 DEF WriteSubtitles, To, Enters
<1>4. ASSUME NEW j \in Jobs, FindSubtitle(j) PROVE Owned'
  BY <1>4 DEF FindSubtitle, To, Enters
<1>5. ASSUME NEW j \in Jobs, ReadSubtitle(j) PROVE Owned'
  BY <1>5 DEF ReadSubtitle, To, Enters
<1>6. ASSUME NEW j \in Jobs, CleanSubtitles(j) PROVE Owned'
  BY <1>6 DEF CleanSubtitles, To, Enters
<1>7. ASSUME NEW j \in Jobs, RecordAudio(j) PROVE Owned'
  BY <1>7 DEF RecordAudio, To, Enters
<1>8. ASSUME NEW j \in Jobs, AudioRecorded(j) PROVE Owned'
  BY <1>8 DEF AudioRecorded, To, Enters
<1>9. ASSUME NEW j \in Jobs, Transcribe(j) PROVE Owned'
  BY <1>9 DEF Transcribe, To, Enters
<1>10. ASSUME NEW j \in Jobs, AudioFails(j) PROVE Owned'
  BY <1>10 DEF AudioFails, To, Enters
<1>11. ASSUME NEW j \in Jobs, Die(j) PROVE Owned'
  BY <1>11 DEF Die, To, Enters
<1>12. CASE UNCHANGED vars
  BY <1>12 DEF vars
<1> QED
  BY <1>1, <1>2, <1>3, <1>4, <1>5, <1>6, <1>7, <1>8, <1>9, <1>10, <1>11, <1>12 DEF Next

\* What is found has been looked for.
LEMMA SightedKept ==
    ASSUME Legal, Shape, Sighted, [Next]_vars
    PROVE  Sighted'
<1> USE DEF Legal, Shape, Sighted, Sought, Written
<1>1. ASSUME NEW j \in Jobs, Begin(j) PROVE Sighted'
  BY <1>1 DEF Begin, To, Enters
<1>2. ASSUME NEW j \in Jobs, NativeCaptions(j) PROVE Sighted'
  BY <1>2 DEF NativeCaptions, To, Enters
<1>3. ASSUME NEW j \in Jobs, WriteSubtitles(j) PROVE Sighted'
  BY <1>3 DEF WriteSubtitles, To, Enters
<1>4. ASSUME NEW j \in Jobs, FindSubtitle(j) PROVE Sighted'
  BY <1>4 DEF FindSubtitle, To, Enters
<1>5. ASSUME NEW j \in Jobs, ReadSubtitle(j) PROVE Sighted'
  BY <1>5 DEF ReadSubtitle, To, Enters
<1>6. ASSUME NEW j \in Jobs, CleanSubtitles(j) PROVE Sighted'
  BY <1>6 DEF CleanSubtitles, To, Enters
<1>7. ASSUME NEW j \in Jobs, RecordAudio(j) PROVE Sighted'
  BY <1>7 DEF RecordAudio, To, Enters
<1>8. ASSUME NEW j \in Jobs, AudioRecorded(j) PROVE Sighted'
  BY <1>8 DEF AudioRecorded, To, Enters
<1>9. ASSUME NEW j \in Jobs, Transcribe(j) PROVE Sighted'
  BY <1>9 DEF Transcribe, To, Enters
<1>10. ASSUME NEW j \in Jobs, AudioFails(j) PROVE Sighted'
  BY <1>10 DEF AudioFails, To, Enters
<1>11. ASSUME NEW j \in Jobs, Die(j) PROVE Sighted'
  BY <1>11 DEF Die, To, Enters
<1>12. CASE UNCHANGED vars
  BY <1>12 DEF vars
<1> QED
  BY <1>1, <1>2, <1>3, <1>4, <1>5, <1>6, <1>7, <1>8, <1>9, <1>10, <1>11, <1>12 DEF Next

\* Where a job is alone, nothing of another's is put among what it finds.
LEMMA OwnDirectoryKept ==
    ASSUME Legal, Shape, Private, Owned, Authored, OwnDirectory, [Next]_vars
    PROVE  OwnDirectory'
<1> USE DEF Legal, Shape, Private, Owned, Authored, OwnDirectory, Captioning, Written, Sought, Finds, Exact, Company, Inside
<1>1. ASSUME NEW j \in Jobs, Begin(j) PROVE OwnDirectory'
  BY <1>1 DEF Begin, To, Enters
<1>2. ASSUME NEW j \in Jobs, NativeCaptions(j) PROVE OwnDirectory'
  BY <1>2 DEF NativeCaptions, To, Enters
<1>3. ASSUME NEW j \in Jobs, WriteSubtitles(j) PROVE OwnDirectory'
  <2>1. /\ video' = video /\ pc[j] = "subtitles" /\ pc'[j] \in Captioning
        /\ \A k \in Jobs \ {j} : pc'[k] = pc[k]
    BY <1>3 DEF WriteSubtitles, To
  <2>2. \A f \in subs' : f \in subs \/ f = [name |-> Written(j), lang |-> LangOf[j], video |-> video[j]]
    BY <1>3 DEF WriteSubtitles
  <2>3. \A f \in subs' : f \in subs \/ (f.name = Written(j) /\ f.lang = LangOf[j] /\ f.video = video[j])
    BY <2>2
  <2>4. /\ alone'[j] => ~litter /\ Company(j) = {}
        /\ \A k \in Jobs \ {j} : alone'[k] => alone[k] /\ ~(pc[k] \in Inside /\ Finds(k, j))
    BY <1>3 DEF WriteSubtitles, Enters
  <2>5. ASSUME NEW f \in subs', f.name \in Sought(j), alone'[j] PROVE f.video = video[j] /\ f.lang = LangOf[j]
    <3>1. ASSUME f \in subs PROVE FALSE
      <4>1. PICK k \in Jobs : pc[k] \in Captioning /\ f.name = Written(k)
        BY <2>4, <2>5, <3>1
      <4> QED
        BY <2>1, <2>4, <2>5, <4>1
    <3> QED
      BY <2>3, <2>5, <3>1
  <2>6. ASSUME NEW k \in Jobs \ {j}, alone'[k], pc'[k] \in Captioning, NEW f \in subs', f.name \in Sought(k)
        PROVE  f.video = video[k] /\ f.lang = LangOf[k]
    <3>1. f \in subs
      BY <2>1, <2>3, <2>4, <2>6
    <3> QED
      BY <2>1, <2>4, <2>6, <3>1
  <2> QED
    BY <2>1, <2>5, <2>6
<1>4. ASSUME NEW j \in Jobs, FindSubtitle(j) PROVE OwnDirectory'
  BY <1>4 DEF FindSubtitle, To, Enters
<1>5. ASSUME NEW j \in Jobs, ReadSubtitle(j) PROVE OwnDirectory'
  BY <1>5 DEF ReadSubtitle, To, Enters
<1>6. ASSUME NEW j \in Jobs, CleanSubtitles(j) PROVE OwnDirectory'
  BY <1>6 DEF CleanSubtitles, To, Enters
<1>7. ASSUME NEW j \in Jobs, RecordAudio(j) PROVE OwnDirectory'
  BY <1>7 DEF RecordAudio, To, Enters
<1>8. ASSUME NEW j \in Jobs, AudioRecorded(j) PROVE OwnDirectory'
  <2>1. subs' = subs /\ alone' = alone /\ video' = video /\ \A k \in Jobs : pc'[k] \in Captioning => pc'[k] = pc[k]
    BY <1>8 DEF AudioRecorded, To
  <2> QED
    BY <2>1
<1>9. ASSUME NEW j \in Jobs, Transcribe(j) PROVE OwnDirectory'
  <2>1. subs' = subs /\ alone' = alone /\ video' = video /\ \A k \in Jobs : pc'[k] \in Captioning => pc'[k] = pc[k]
    BY <1>9 DEF Transcribe, To
  <2> QED
    BY <2>1
<1>10. ASSUME NEW j \in Jobs, AudioFails(j) PROVE OwnDirectory'
  <2>1. subs' = subs /\ alone' = alone /\ video' = video /\ \A k \in Jobs : pc'[k] \in Captioning => pc'[k] = pc[k]
    BY <1>10 DEF AudioFails, To
  <2> QED
    BY <2>1
<1>11. ASSUME NEW j \in Jobs, Die(j) PROVE OwnDirectory'
  BY <1>11 DEF Die, To, Enters
<1>12. CASE UNCHANGED vars
  BY <1>12 DEF vars
<1> QED
  BY <1>1, <1>2, <1>3, <1>4, <1>5, <1>6, <1>7, <1>8, <1>9, <1>10, <1>11, <1>12 DEF Next

\* What a job for itself hears is the audio it has recorded.
LEMMA HeardWholeKept ==
    ASSUME Legal, Shape, Private, HeardWhole, [Next]_vars
    PROVE  HeardWhole'
<1> USE DEF Legal, Shape, Private, HeardWhole, ForItself, Written, Sought, Finds, Exact, Company, Inside
<1>1. ASSUME NEW j \in Jobs, Begin(j) PROVE HeardWhole'
  BY <1>1 DEF Begin, To, Enters
<1>2. ASSUME NEW j \in Jobs, NativeCaptions(j) PROVE HeardWhole'
  BY <1>2 DEF NativeCaptions, To, Enters
<1>3. ASSUME NEW j \in Jobs, WriteSubtitles(j) PROVE HeardWhole'
  BY <1>3 DEF WriteSubtitles, To, Enters
<1>4. ASSUME NEW j \in Jobs, FindSubtitle(j) PROVE HeardWhole'
  <2>1. /\ audio' = audio /\ alone' = alone /\ video' = video
        /\ \A k \in Jobs : pc'[k] = "listening" => pc[k] = "listening" /\ picked'[k] = picked[k]
    BY <1>4 DEF FindSubtitle, To
  <2>2. ASSUME NEW k \in Jobs, ForItself(k)', Exact(k)', pc'[k] = "listening" PROVE ForItself(k) /\ Exact(k) /\ pc[k] = "listening"
    BY <2>1, <2>2
  <2> HIDE DEF ForItself, Finds
  <2> QED
    BY <2>1, <2>2
<1>5. ASSUME NEW j \in Jobs, ReadSubtitle(j) PROVE HeardWhole'
  <2>1. /\ audio' = audio /\ alone' = alone /\ video' = video
        /\ \A k \in Jobs : pc'[k] = "listening" => pc[k] = "listening" /\ picked'[k] = picked[k]
    BY <1>5 DEF ReadSubtitle, To
  <2>2. ASSUME NEW k \in Jobs, ForItself(k)', Exact(k)', pc'[k] = "listening" PROVE ForItself(k) /\ Exact(k) /\ pc[k] = "listening"
    BY <2>1, <2>2
  <2> HIDE DEF ForItself, Finds
  <2> QED
    BY <2>1, <2>2
<1>6. ASSUME NEW j \in Jobs, CleanSubtitles(j) PROVE HeardWhole'
  <2>1. /\ audio' = audio /\ alone' = alone /\ video' = video
        /\ \A k \in Jobs : pc'[k] = "listening" => pc[k] = "listening" /\ picked'[k] = picked[k]
    BY <1>6 DEF CleanSubtitles, To
  <2>2. ASSUME NEW k \in Jobs, ForItself(k)', Exact(k)', pc'[k] = "listening" PROVE ForItself(k) /\ Exact(k) /\ pc[k] = "listening"
    BY <2>1, <2>2
  <2> HIDE DEF ForItself, Finds
  <2> QED
    BY <2>1, <2>2
<1>7. ASSUME NEW j \in Jobs, RecordAudio(j) PROVE HeardWhole'
  <2>1. /\ video' = video /\ picked' = picked /\ pc'[j] = "recording"
        /\ \A k \in Jobs \ {j} : pc'[k] = pc[k]
    BY <1>7 DEF RecordAudio, To
  <2>2. \A f \in audio' : f \in audio \/ f.name = Written(j)
    BY <1>7 DEF RecordAudio
  <2>3. \A k \in Jobs \ {j} : alone'[k] => alone[k] /\ ~(pc[k] \in Inside /\ Finds(k, j))
    BY <1>7 DEF RecordAudio, Enters
  <2>4. ASSUME NEW k \in Jobs, ForItself(k)', Exact(k), pc'[k] = "listening", NEW f \in audio', f.name = Written(k)
        PROVE  f \in audio /\ ForItself(k) /\ pc[k] = "listening" /\ k # j
    <3>1. k # j /\ pc[k] = "listening"
      BY <2>1, <2>4
    <3>2. ForItself(k) /\ ~Finds(k, j)
      BY <2>1, <2>3, <2>4, <3>1
    <3>3. Written(k) # Written(j)
      BY <2>4, <3>2, NamesMeet
    <3> QED
      BY <2>2, <2>4, <3>1, <3>2, <3>3
  <2>5. ASSUME NEW k \in Jobs, ForItself(k)', Exact(k), pc'[k] = "listening"
        PROVE  ForItself(k) /\ pc[k] = "listening"
    BY <2>1, <2>3, <2>5
  <2> QED
    BY <2>1, <2>4, <2>5
<1>8. ASSUME NEW j \in Jobs, AudioRecorded(j) PROVE HeardWhole'
  <2> DEFINE now == {f \in audio : f.name # Written(j)}
                    \cup {[name |-> Written(j), mp3 |-> TRUE, video |-> video[j], whole |-> TRUE]}
             own == {f \in now : f.name = Id[video[j]] /\ f.mp3}
  <2>1. /\ video' = video /\ alone' = alone /\ audio' = now /\ pc[j] = "recording"
        /\ \A k \in Jobs \ {j} : pc'[k] = pc[k] /\ picked'[k] = picked[k]
    BY <1>8 DEF AudioRecorded, To
  <2>2. \A f \in now : f \in audio \/ (f.name = Written(j) /\ f.mp3 /\ f.whole /\ f.video = video[j])
    OBVIOUS
  <2>3. \A f \in now : f.name = Written(j) => f.whole /\ f.video = video[j] /\ f.mp3
    OBVIOUS
  <2>4. ASSUME Exact(j), pc'[j] = "listening" PROVE picked'[j] = [name |-> Written(j), mp3 |-> TRUE]
    <3>1. own # {}
      <4> DEFINE new == [name |-> Written(j), mp3 |-> TRUE, video |-> video[j], whole |-> TRUE]
      <4>1. new \in now /\ new.name = Id[video[j]] /\ new.mp3
        BY <2>4
      <4> QED
        BY <4>1
    <3>2. PICK f \in own : picked'[j] = [name |-> f.name, mp3 |-> f.mp3]
      <4>1. \/ \E f \in IF own # {} THEN own ELSE {g \in now : g.name \in Sought(j)} :
                  picked' = [picked EXCEPT ![j] = [name |-> f.name, mp3 |-> f.mp3]]
            \/ pc' = [pc EXCEPT ![j] = "failed"] \/ pc' = [pc EXCEPT ![j] = "idle"]
        BY <1>8 DEF AudioRecorded, To
      <4> QED
        BY <2>4, <3>1, <4>1
    <3>3. f.name = Written(j) /\ f.mp3 = TRUE
      BY <2>3, <2>4, <3>2
    <3> QED
      BY <3>2, <3>3
  <2>5. ASSUME NEW k \in Jobs \ {j}, ForItself(k), Exact(k), pc[k] = "listening" PROVE Written(k) # Written(j)
    <3>1. ~Finds(k, j)
      <4>1. CASE \A z \in Jobs \ {k} : ~Finds(k, z)
        BY <4>1, <2>5
      <4>2. CASE alone[k]
        BY <4>2, <2>1, <2>5
      <4> QED
        BY <2>5, <4>1, <4>2
    <3> QED
      BY <2>5, <3>1, NamesMeet
  <2> HIDE DEF now, own
  <2>6. ASSUME NEW k \in Jobs \ {j}, ForItself(k), Exact(k), pc[k] = "listening", NEW f \in now, f.name = Written(k)
        PROVE  f.whole /\ f.video = video[k]
    BY <2>2, <2>5, <2>6
  <2>7. ASSUME NEW k \in Jobs, ForItself(k)', Exact(k)', pc'[k] = "listening"
        PROVE  /\ ForItself(k) /\ Exact(k) /\ Written(k)' = Written(k)
               /\ k # j => pc[k] = "listening" /\ picked'[k] = picked[k]
    BY <2>1, <2>7
  <2>8. ASSUME NEW k \in Jobs \ {j}, ForItself(k), Exact(k), pc[k] = "listening"
        PROVE  picked[k] = [name |-> Written(k), mp3 |-> TRUE]
    BY <2>8
  <2> HIDE DEF ForItself, Finds, Exact, Written, Private, Company, Inside, Sought
  <2>9. ASSUME NEW k \in Jobs, ForItself(k)', Exact(k)', pc'[k] = "listening"
        PROVE  /\ picked'[k] = [name |-> Written(k), mp3 |-> TRUE]
               /\ \A f \in audio' : f.name = Written(k) => f.whole /\ f.video = video[k]
    <3>1. CASE k = j
      BY <2>1, <2>3, <2>4, <2>7, <2>9, <3>1
    <3>2. CASE k # j
      <4>1. ForItself(k) /\ Exact(k) /\ pc[k] = "listening" /\ picked'[k] = picked[k]
        BY <2>7, <2>9, <3>2
      <4> QED
        BY <2>1, <2>6, <2>8, <3>2, <4>1
    <3> QED
      BY <3>1, <3>2
  <2> QED
    BY <2>1, <2>7, <2>9
<1>9. ASSUME NEW j \in Jobs, Transcribe(j) PROVE HeardWhole'
  <2>1. /\ audio' = audio /\ alone' = alone /\ video' = video
        /\ \A k \in Jobs : pc'[k] = "listening" => pc[k] = "listening" /\ picked'[k] = picked[k]
    BY <1>9 DEF Transcribe, To
  <2>2. ASSUME NEW k \in Jobs, ForItself(k)', Exact(k)', pc'[k] = "listening" PROVE ForItself(k) /\ Exact(k) /\ pc[k] = "listening"
    BY <2>1, <2>2
  <2> HIDE DEF ForItself, Finds
  <2> QED
    BY <2>1, <2>2
<1>10. ASSUME NEW j \in Jobs, AudioFails(j) PROVE HeardWhole'
  <2>1. /\ audio' = audio /\ alone' = alone /\ video' = video
        /\ \A k \in Jobs : pc'[k] = "listening" => pc[k] = "listening" /\ picked'[k] = picked[k]
    BY <1>10 DEF AudioFails, To
  <2>2. ASSUME NEW k \in Jobs, ForItself(k)', Exact(k)', pc'[k] = "listening" PROVE ForItself(k) /\ Exact(k) /\ pc[k] = "listening"
    BY <2>1, <2>2
  <2> HIDE DEF ForItself, Finds
  <2> QED
    BY <2>1, <2>2
<1>11. ASSUME NEW j \in Jobs, Die(j) PROVE HeardWhole'
  BY <1>11 DEF Die, To, Enters
<1>12. CASE UNCHANGED vars
  BY <1>12 DEF vars
<1> QED
  BY <1>1, <1>2, <1>3, <1>4, <1>5, <1>6, <1>7, <1>8, <1>9, <1>10, <1>11, <1>12 DEF Next

\* There is no text before it has been read or heard.
LEMMA BlankKept ==
    ASSUME Legal, Shape, Blank, [Next]_vars
    PROVE  Blank'
<1> USE DEF Shape, Blank
<1>1. ASSUME NEW j \in Jobs, Begin(j) PROVE Blank'
  BY <1>1 DEF Begin, To, Enters
<1>2. ASSUME NEW j \in Jobs, NativeCaptions(j) PROVE Blank'
  BY <1>2 DEF NativeCaptions, To, Enters
<1>3. ASSUME NEW j \in Jobs, WriteSubtitles(j) PROVE Blank'
  BY <1>3 DEF WriteSubtitles, To, Enters
<1>4. ASSUME NEW j \in Jobs, FindSubtitle(j) PROVE Blank'
  BY <1>4 DEF FindSubtitle, To, Enters
<1>5. ASSUME NEW j \in Jobs, ReadSubtitle(j) PROVE Blank'
  BY <1>5 DEF ReadSubtitle, To, Enters
<1>6. ASSUME NEW j \in Jobs, CleanSubtitles(j) PROVE Blank'
  BY <1>6 DEF CleanSubtitles, To, Enters
<1>7. ASSUME NEW j \in Jobs, RecordAudio(j) PROVE Blank'
  BY <1>7 DEF RecordAudio, To, Enters
<1>8. ASSUME NEW j \in Jobs, AudioRecorded(j) PROVE Blank'
  BY <1>8 DEF AudioRecorded, To, Enters
<1>9. ASSUME NEW j \in Jobs, Transcribe(j) PROVE Blank'
  BY <1>9 DEF Transcribe, To, Enters
<1>10. ASSUME NEW j \in Jobs, AudioFails(j) PROVE Blank'
  BY <1>10 DEF AudioFails, To, Enters
<1>11. ASSUME NEW j \in Jobs, Die(j) PROVE Blank'
  BY <1>11 DEF Die, To, Enters
<1>12. CASE UNCHANGED vars
  BY <1>12 DEF vars
<1> QED
  BY <1>1, <1>2, <1>3, <1>4, <1>5, <1>6, <1>7, <1>8, <1>9, <1>10, <1>11, <1>12 DEF Next

\* Text is its job's own from the moment it is got.
LEMMA TextKept ==
    ASSUME Legal, IInv, [Next]_vars
    PROVE  TextIsOwn'
<1> USE DEF Legal, IInv, Shape, TextIsOwn, Blank, ForItself, Got, Written, Sought, Finds, Exact, Company, Inside
<1>1. ASSUME NEW j \in Jobs, Begin(j) PROVE TextIsOwn'
  BY <1>1 DEF Begin, To, Enters
<1>2. ASSUME NEW j \in Jobs, NativeCaptions(j) PROVE TextIsOwn'
  <2>1. /\ video' = video /\ alone' = alone
        /\ text' = text \/ \E t \in Chosen(j) : text' = [text EXCEPT ![j] = Got(video[j], t.lang, t.lang, "native")]
    BY <1>2 DEF NativeCaptions, To
  <2>2. ASSUME NEW t, text' = [text EXCEPT ![j] = Got(video[j], t.lang, t.lang, "native")]
        PROVE  TextIsOwn'
    <3> DEFINE got == Got(video[j], t.lang, t.lang, "native")
    <3>1. got.video = video[j] /\ got.lang = got.said /\ got.from # "cut audio"
      OBVIOUS
    <3> HIDE DEF got
    <3>2. \A k \in Jobs : text'[k] = IF k = j THEN got ELSE text[k]
      BY <2>2 DEF got
    <3> QED
      BY <2>1, <3>1, <3>2
  <2> QED
    BY <2>1, <2>2
<1>3. ASSUME NEW j \in Jobs, WriteSubtitles(j) PROVE TextIsOwn'
  BY <1>3 DEF WriteSubtitles, To, Enters
<1>4. ASSUME NEW j \in Jobs, FindSubtitle(j) PROVE TextIsOwn'
  BY <1>4 DEF FindSubtitle, To, Enters
<1>5. ASSUME NEW j \in Jobs, ReadSubtitle(j) PROVE TextIsOwn'
  <2>1. /\ video' = video /\ alone' = alone /\ pc[j] = "found"
        /\ \/ text' = text
           \/ \E f \in subs : /\ f.name = picked[j].name
                             /\ text' = [text EXCEPT ![j] = Got(f.video, f.lang, LangOf[j], "subtitles")]
    BY <1>5 DEF ReadSubtitle, To
  <2>2. ASSUME NEW f \in subs, f.name = picked[j].name,
               text' = [text EXCEPT ![j] = Got(f.video, f.lang, LangOf[j], "subtitles")]
        PROVE  TextIsOwn'
    <3> DEFINE got == Got(f.video, f.lang, LangOf[j], "subtitles")
    <3>1. got.video = f.video /\ got.lang = f.lang /\ got.said = LangOf[j] /\ got.from # "cut audio"
      OBVIOUS
    <3> HIDE DEF got
    <3>2. \A k \in Jobs : text'[k] = IF k = j THEN got ELSE text[k]
      BY <2>2 DEF got
    <3>3. f.name \in Sought(j)
      BY <2>1, <2>2 DEF Sighted
    <3>4. ASSUME ForItself(j) PROVE f.video = video[j] /\ f.lang = LangOf[j]
      <4>1. CASE alone[j]
        BY <2>1, <2>2, <3>3, <4>1 DEF OwnDirectory, Captioning
      <4>2. CASE \A k \in Jobs \ {j} : ~Finds(j, k)
        <5>1. PICK k \in Jobs : f = [name |-> Written(k), lang |-> LangOf[k], video |-> video[k]]
          BY <2>2 DEF Authored
        <5>2. f.name = Written(k) /\ f.lang = LangOf[k] /\ f.video = video[k]
          BY <5>1
        <5> QED
          BY <3>3, <4>2, <5>2
      <4> QED
        BY <3>4, <4>1, <4>2
    <3> HIDE DEF Written, Sought, Finds, Company, Inside
    <3>5. \A k \in Jobs : (ForItself(k)' <=> ForItself(k)) /\ (Exact(k)' <=> Exact(k))
      BY <2>1 DEF Written, Sought, Finds
    <3> HIDE DEF ForItself, Exact
    <3> QED
      BY <2>1, <3>1, <3>2, <3>4, <3>5
  <2> QED
    BY <2>1, <2>2
<1>6. ASSUME NEW j \in Jobs, CleanSubtitles(j) PROVE TextIsOwn'
  BY <1>6 DEF CleanSubtitles, To, Enters
<1>7. ASSUME NEW j \in Jobs, RecordAudio(j) PROVE TextIsOwn'
  BY <1>7 DEF RecordAudio, To, Enters
<1>8. ASSUME NEW j \in Jobs, AudioRecorded(j) PROVE TextIsOwn'
  <2>1. text' = text /\ alone' = alone /\ video' = video
    BY <1>8 DEF AudioRecorded, To
  <2> QED
    BY <2>1
<1>9. ASSUME NEW j \in Jobs, Transcribe(j) PROVE TextIsOwn'
  <2>1. /\ video' = video /\ alone' = alone /\ pc[j] = "listening"
        /\ \E f \in audio, l \in Langs :
             /\ f.name = picked[j].name /\ f.mp3 = picked[j].mp3
             /\ text' = [text EXCEPT ![j] = Got(f.video, l, l, IF f.whole THEN "audio" ELSE "cut audio")]
    BY <1>9 DEF Transcribe, To
  <2>2. PICK f \in audio, l \in Langs :
             /\ f.name = picked[j].name /\ f.mp3 = picked[j].mp3
             /\ text' = [text EXCEPT ![j] = Got(f.video, l, l, IF f.whole THEN "audio" ELSE "cut audio")]
    BY <2>1
  <2> DEFINE got == Got(f.video, l, l, IF f.whole THEN "audio" ELSE "cut audio")
  <2>3. got.video = f.video /\ got.lang = got.said /\ (f.whole => got.from # "cut audio")
    OBVIOUS
  <2> HIDE DEF got
  <2>4. \A k \in Jobs : text'[k] = IF k = j THEN got ELSE text[k]
    BY <2>2 DEF got
  <2>5. f.name \in Sought(j)
    BY <2>1, <2>2 DEF Sighted
  <2>6. ASSUME ForItself(j), Exact(j) PROVE f.whole /\ f.video = video[j]
    <3>1. picked[j] = [name |-> Written(j), mp3 |-> TRUE]
      BY <2>1, <2>6 DEF HeardWhole
    <3>2. f.name = Written(j)
      <4>1. [name |-> Written(j), mp3 |-> TRUE].name = Written(j)
        OBVIOUS
      <4>2. f.name = picked[j].name
        BY <2>2
      <4> QED
        BY <3>1, <4>1, <4>2, Zenon
    <3> QED
      BY <2>1, <2>6, <3>2 DEF HeardWhole
  <2>7. ASSUME \A k \in Jobs \ {j} : ~Finds(j, k) PROVE f.video = video[j]
    <3>1. PICK k \in Jobs : f.name = Written(k) /\ f.video = video[k]
      BY DEF Authored
    <3> QED
      BY <2>5, <2>7, <3>1
  <2>8. ForItself(j) => f.video = video[j]
    BY <2>6, <2>7
  <2>9. \A k \in Jobs : (ForItself(k)' <=> ForItself(k)) /\ (Exact(k)' <=> Exact(k))
    BY <2>1
  <2> HIDE DEF ForItself, Exact, Finds, Written, Sought, Company, Inside
  <2> QED
    BY <2>1, <2>3, <2>4, <2>6, <2>8, <2>9
<1>10. ASSUME NEW j \in Jobs, AudioFails(j) PROVE TextIsOwn'
  BY <1>10 DEF AudioFails, To, Enters
<1>11. ASSUME NEW j \in Jobs, Die(j) PROVE TextIsOwn'
  BY <1>11 DEF Die, To, Enters
<1>12. CASE UNCHANGED vars
  BY <1>12 DEF vars
<1> QED
  BY <1>1, <1>2, <1>3, <1>4, <1>5, <1>6, <1>7, <1>8, <1>9, <1>10, <1>11, <1>12 DEF Next

---------------------------------------------------------------------------------
\* The inductive invariant, and with it: a job for itself, that nobody wrote for or
\* removed what it was to find, has its own video's text, in the language it is labelled
\* with, whatever other jobs do there before and after.
THEOREM OwnText == Legal => (Spec => [](IInv /\ TextIsOwn))
<1> SUFFICES ASSUME Legal PROVE Spec => [](IInv /\ TextIsOwn)
  OBVIOUS
<1>1. Init => IInv
  BY DEF Init, Legal, IInv, Shape, Private, Authored, Owned, Sighted, OwnDirectory, HeardWhole, Blank, TextIsOwn,
         Inside, Captioning
<1>2. IInv /\ [Next]_vars => IInv'
  BY ShapeKept, PrivateKept, AuthoredKept, OwnedKept, SightedKept, OwnDirectoryKept, HeardWholeKept, BlankKept,
     TextKept DEF IInv
<1>3. IInv => TextIsOwn
  BY DEF IInv
<1> QED
  BY <1>1, <1>2, <1>3, PTL DEF Spec
====================================================================================
