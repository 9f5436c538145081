----------------------------------- MODULE Fetch -----------------------------------
(***************************************************************************)
(* Where a job's text comes from.  Captions are tried first: those of the      *)
(* platform, then a subtitle file that yt-dlp leaves in a directory every job      *)
(* shares; without either the audio is transcribed, from another shared              *)
(* directory.  yt-dlp names its files after its own id of the video; they are          *)
(* looked for by the id the resolver made of the URL, which may be another, and          *)
(* by its beginning only: what a job finds depends on what others have left there.         *)
(***************************************************************************)
EXTENDS Integers, FiniteSets

CONSTANTS None, Jobs, Videos, Langs,
          Plans,             \* which job is for which video: the possible ones
          LangOf,            \* of each job: the caption language asked for
          Native,            \* videos with captions on the platform itself (YouTube)
          Tracks,            \* of a native video: its tracks [lang, manual]
          Names,             \* ids of videos
          Id, File,          \* of each video: the resolver's id, yt-dlp's id
          Like,              \* of each name: the names that begin with it
          MaxDeaths          \* bound on the workers killed

VARIABLES
    video,     \* of each job: its video
    pc,        \* what its worker does
    picked,    \* the file it has found: [name, lang] or [name, mp3]
    text,      \* what it has got: [video, lang, said, from], or None
    subs,      \* the subtitle directory: [name, lang, video]
    audio,     \* the audio directory: [name, mp3, video, whole]
    alone,     \* has no other job used files that j finds, while j was at it?
    litter,    \* has a subtitle file been left behind?
    deaths

vars == <<video, pc, picked, text, subs, audio, alone, litter, deaths>>

Sought(j)   == Like[Id[video[j]]]           \* glob(source_id*)
Written(j)  == File[video[j]]               \* %(id)s of yt-dlp
Finds(j, k) == Written(k) \in Sought(j)
Exact(j)    == File[video[j]] = Id[video[j]]

\* The others in the shared directories whose files j finds.
Inside     == {"written", "found", "cleaning", "recording", "listening"}
Company(j) == {k \in Jobs \ {j} : pc[k] \in Inside /\ Finds(j, k)}
Enters(j, clean) ==
    alone' = [k \in Jobs |-> IF k = j THEN clean /\ Company(j) = {}
                             ELSE alone[k] /\ ~(pc[k] \in Inside /\ Finds(k, j))]

To(j, where) == pc' = [pc EXCEPT ![j] = where]
Got(v, l, said, from) == [video |-> v, lang |-> l, said |-> said, from |-> from]

---------------------------------------------------------------------------------
(* Captions *)

Begin(j) ==
    /\ pc[j] = "idle"
    /\ To(j, IF video[j] \in Native THEN "native" ELSE "subtitles")
    /\ UNCHANGED <<video, picked, text, subs, audio, alone, litter, deaths>>

\* The track of the requested language, else any manual one, else the first.
Chosen(j) ==
    LET all == Tracks[video[j]]
        own == {t \in all : t.lang = LangOf[j]}
        man == {t \in all : t.manual}
    IN  IF own # {} THEN own ELSE IF man # {} THEN man ELSE all

NativeCaptions(j) ==
    /\ pc[j] = "native"
    /\ \/ \E t \in Chosen(j) :
            /\ text' = [text EXCEPT ![j] = Got(video[j], t.lang, t.lang, "native")]
            /\ To(j, "got")
       \/ To(j, "subtitles") /\ UNCHANGED text      \* none, empty, or an exception
    /\ UNCHANGED <<video, picked, subs, audio, alone, litter, deaths>>

\* yt-dlp writes the languages that match the one asked for, over what there is of
\* the name; none if it fails.
WriteSubtitles(j) ==
    /\ pc[j] = "subtitles"
    /\ \/ /\ subs' = {f \in subs : f.name # Written(j) \/ f.lang # LangOf[j]}
                     \cup {[name |-> Written(j), lang |-> LangOf[j], video |-> video[j]]}
          /\ To(j, "written")
       \/ UNCHANGED subs /\ To(j, "written")
       \/ UNCHANGED subs /\ To(j, "cleaning")
    /\ Enters(j, ~litter)
    /\ UNCHANGED <<video, picked, text, audio, litter, deaths>>

\* Any file whose name begins with the id, in any language.
FindSubtitle(j) ==
    /\ pc[j] = "written"
    /\ LET all == {f \in subs : f.name \in Sought(j)}
       IN  \/ /\ all = {} /\ To(j, "cleaning") /\ UNCHANGED picked
           \/ \E f \in all :
                 /\ picked' = [picked EXCEPT ![j] = [name |-> f.name, lang |-> f.lang]]
                 /\ To(j, "found")
    /\ UNCHANGED <<video, text, subs, audio, alone, litter, deaths>>

\* The file as it is by now; one that is gone, or without text, ends as no captions.
\* The text is labelled with the language asked for.
ReadSubtitle(j) ==
    /\ pc[j] = "found"
    /\ \/ \E f \in subs :
            /\ f.name = picked[j].name /\ f.lang = picked[j].lang
            /\ text' = [text EXCEPT ![j] = Got(f.video, f.lang, LangOf[j], "subtitles")]
       \/ UNCHANGED text
    /\ picked' = [picked EXCEPT ![j] = None]
    /\ To(j, "cleaning")
    /\ UNCHANGED <<video, subs, audio, alone, litter, deaths>>

\* Mutant: only a job that has found captions tidies up.
CleanFound(j) ==
    /\ pc[j] = "cleaning"
    /\ \E stay \in SUBSET {f \in subs : f.name \in Sought(j)} :
         /\ subs' = IF text[j] = None THEN subs ELSE {f \in subs : f.name \notin Sought(j)} \cup stay
         /\ litter' = (litter \/ stay # {} \/ ~Finds(j, j))
    /\ To(j, IF text[j] = None THEN "audio" ELSE "got")
    /\ UNCHANGED <<video, picked, text, audio, alone, deaths>>

\* The finally clause, whatever happened before; a file that cannot be removed is
\* passed over, one that is not found under the id is not seen.
CleanSubtitles(j) ==
    /\ pc[j] = "cleaning"
    /\ \E stay \in SUBSET {f \in subs : f.name \in Sought(j)} :
         /\ subs' = {f \in subs : f.name \notin Sought(j)} \cup stay
         /\ litter' = (litter \/ stay # {} \/ ~Finds(j, j))
    /\ To(j, IF text[j] = None THEN "audio" ELSE "got")
    /\ UNCHANGED <<video, picked, text, audio, alone, deaths>>

---------------------------------------------------------------------------------
(* Audio *)

\* yt-dlp downloads, and makes an mp3 of what it has, over one there is of the name.
RecordAudio(j) ==
    /\ pc[j] = "audio"
    /\ \E mp3 \in BOOLEAN :
         audio' = {f \in audio : f.name # Written(j) \/ f.mp3 # mp3}
                  \cup {[name |-> Written(j), mp3 |-> mp3, video |-> video[j], whole |-> FALSE]}
    /\ To(j, "recording")
    /\ Enters(j, TRUE)
    /\ UNCHANGED <<video, picked, text, subs, litter, deaths>>

\* The mp3 is whole, and only the mp3 is kept.  It is looked for under the id; if it is
\* not there, any file will do whose name begins with it; there may be none.
AudioRecorded(j) ==
    /\ pc[j] = "recording"
    /\ LET now  == {f \in audio : f.name # Written(j)}
                   \cup {[name |-> Written(j), mp3 |-> TRUE, video |-> video[j], whole |-> TRUE]}
           own  == {f \in now : f.name = Id[video[j]] /\ f.mp3}
           like == {f \in now : f.name \in Sought(j)}
       IN  /\ audio' = now
           /\ \/ \E f \in IF own # {} THEN own ELSE like :
                    /\ picked' = [picked EXCEPT ![j] = [name |-> f.name, mp3 |-> f.mp3]]
                    /\ To(j, "listening")
              \/ /\ like = {} /\ UNCHANGED picked
                 /\ To(j, "failed") \/ To(j, "idle")
    /\ UNCHANGED <<video, text, subs, alone, litter, deaths>>

\* The file found is sent to Whisper as it is at that moment, and never removed.
Transcribe(j) ==
    /\ pc[j] = "listening"
    /\ \E f \in audio, l \in Langs :
         /\ f.name = picked[j].name /\ f.mp3 = picked[j].mp3
         /\ text' = [text EXCEPT ![j] = Got(f.video, l, l, IF f.whole THEN "audio" ELSE "cut audio")]
    /\ picked' = [picked EXCEPT ![j] = None]
    /\ To(j, "got")
    /\ UNCHANGED <<video, subs, audio, alone, litter, deaths>>

\* Whatever goes wrong here fails the task, which may be tried again; what has
\* been written stays.
AudioFails(j) ==
    /\ pc[j] \in {"audio", "recording", "listening"}
    /\ picked' = [picked EXCEPT ![j] = None]
    /\ To(j, "failed") \/ To(j, "idle")
    /\ UNCHANGED <<video, text, subs, audio, alone, litter, deaths>>

\* The worker is killed; the task is delivered again and begins anew.
Die(j) ==
    /\ deaths < MaxDeaths /\ pc[j] \notin {"idle", "failed"}
    /\ deaths' = deaths + 1
    /\ To(j, "idle")
    /\ picked' = [picked EXCEPT ![j] = None]
    /\ text' = [text EXCEPT ![j] = None]
    /\ litter' = (litter \/ pc[j] \in {"written", "found", "cleaning"})
    /\ UNCHANGED <<video, subs, audio, alone>>

Init ==
    /\ video \in Plans
    /\ pc = [j \in Jobs |-> "idle"]
    /\ picked = [j \in Jobs |-> None] /\ text = [j \in Jobs |-> None]
    /\ subs = {} /\ audio = {}
    /\ alone = [j \in Jobs |-> FALSE] /\ litter = FALSE /\ deaths = 0

Next ==
    \E j \in Jobs :
        \/ Begin(j) \/ NativeCaptions(j)
        \/ WriteSubtitles(j) \/ FindSubtitle(j) \/ ReadSubtitle(j) \/ CleanSubtitles(j)
        \/ RecordAudio(j) \/ AudioRecorded(j) \/ Transcribe(j) \/ AudioFails(j)
        \/ Die(j)

Spec == Init /\ [][Next]_vars

---------------------------------------------------------------------------------
(* Properties *)

\* A job for itself: one that finds no other job's files at all, whatever the others do,
\* whoever is killed and whatever cannot be removed; or one whose ids agree and that
\* met nobody whose files it finds, and nothing left behind.
ForItself(j) ==
    \/ \A k \in Jobs \ {j} : ~Finds(j, k)
    \/ alone[j] /\ Exact(j)

\* A job for itself has its own video's text, in the language it is labelled with,
\* however jobs follow one another on the same video, in other languages, or on videos
\* whose ids begin alike; and if its ids agree, the whole of what was said.
TextIsOwn ==
    \A j \in Jobs :
        (text[j] # None /\ ForItself(j)) =>
            /\ text[j].video = video[j]
            /\ text[j].lang = text[j].said
            /\ Exact(j) => text[j].from # "cut audio"
=================================================================================
