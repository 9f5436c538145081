------------------------------ MODULE SlideDetection ------------------------------
(***************************************************************************)
(* run_full_pipeline: the slides of one video.  The video is sampled once a   *)
(* second; what a sample shows (which layout, and how like the one before) is  *)
(* the environment's choice.  The scan debounces layout changes into           *)
(* slide-present segments and notes the transitions inside them; a model is     *)
(* asked about the ambiguous ones, in batches, several at a time; the notes are  *)
(* grouped into slides, and a frame is read for each of them.                     *)
(*                                                                             *)
(* Times are in quarters of a second.                                           *)
(***************************************************************************)
EXTENDS Integers, Sequences, FiniteSets

CONSTANTS None, NoSlide,
          Layouts,      \* layouts with a slide: a region of the frame each
          Samples,      \* frames sampled
          Confirm,      \* layout_confirm_samples
          MinDuration,  \* min_slide_duration, in quarters
          Durations,    \* what the container may say of the video's length
          BatchSize,    \* llm_batch_size
          Concurrency,  \* llm_batch_concurrency
          Speech        \* segments of the transcript: [from, to]

Second     == 4
Looks      == {"same", "ambiguous", "near", "transition"}  \* near: an evident build
Boundaries == {"start", "end"}
Labels     == {"transition", "incremental"}

VARIABLES
    phase,      \* where the pipeline is
    stop,       \* the job has been cancelled, or the claim lost
    classifier, \* is there a model to ask, and is it asked in batches?
    duration,   \* _get_video_duration
    frame,      \* samples read
    active,     \* active_observation["layout"], None before the first sample
    pending, count, since,   \* the layout that may replace it, seen how often, from when
    notes,      \* transitions
    asked,      \* for each note: what has been asked of the model about it
    slides,     \* the slides, as grouping leaves them
    stored      \* slide sets in the database (metadata.job_id is unique)

scanning == <<frame, active, pending, count, since>>
vars == <<phase, stop, classifier, duration, scanning, notes, asked, slides, stored>>

Phases == {"scan", "classify", "group", "capture", "persist", "stored", "completed",
           "failed", "cancelled"}

Now == frame * Second

Note(kind, at, layout) == [kind |-> kind, at |-> at, layout |-> layout, label |-> None]

Shown(l) == l \in Layouts

---------------------------------------------------------------------------------
(* ssim_transition_scan *)

Sample(l) ==
    /\ phase = "scan" /\ ~stop /\ frame < Samples
    /\ frame' = frame + 1
    /\ UNCHANGED <<phase, stop, classifier, duration, asked, slides, stored>>

FirstSample(l) ==
    /\ active = None
    /\ Sample(l)
    /\ active' = l
    /\ notes' = IF Shown(l) THEN <<Note("start", Now, l)>> ELSE notes
    /\ UNCHANGED <<pending, count, since>>

\* How often in a row l has been seen, and since when.
Seen(l)  == IF pending = l THEN count + 1 ELSE 1
Onset(l) == IF pending = l THEN since ELSE Now

\* Another layout: a boundary once it has been seen Confirm times in a row,
\* dated back to the first of them.
OtherLayout(l) ==
    /\ active # None /\ l # active
    /\ Sample(l)
    /\ IF Seen(l) >= Confirm
       THEN /\ notes' = notes
                        \o (IF Shown(active) THEN <<Note("end", Onset(l), active)>> ELSE <<>>)
                        \o (IF Shown(l) THEN <<Note("start", Onset(l), l)>> ELSE <<>>)
            /\ active' = l
            /\ pending' = None /\ count' = 0 /\ since' = 0
       ELSE /\ pending' = l /\ count' = Seen(l) /\ since' = Onset(l)
            /\ UNCHANGED <<active, notes>>

\* Mutant: a layout that was only suspected is not forgotten.
SameLayoutRemembers(l, look) ==
    /\ active = l
    /\ Sample(l)
    /\ UNCHANGED <<active, pending, count, since>>
    /\ notes' = IF Shown(l) /\ look # "same" THEN Append(notes, Note(look, Now, l)) ELSE notes

\* The same layout: what was suspected is forgotten, the contents are compared.
SameLayout(l, look) ==
    /\ active = l
    /\ Sample(l)
    /\ pending' = None /\ count' = 0 /\ since' = 0
    /\ notes' = IF Shown(l) /\ look # "same" THEN Append(notes, Note(look, Now, l)) ELSE notes
    /\ UNCHANGED active

Ambiguous(i) == notes[i].kind \in {"ambiguous", "near"}

ToClassify == {i \in DOMAIN notes : notes[i].kind = "ambiguous"}

\* _apply_fast_path: an evident build is labelled without the model.
FastPath ==
    [i \in DOMAIN notes |->
        IF notes[i].kind = "near" THEN [notes[i] EXCEPT !.label = "incremental"] ELSE notes[i]]

\* Without a provider, or with nothing ambiguous, classification is left out;
\* with batches of one (_classify_sequential) every note is asked by itself.
ScanEnds ==
    /\ phase = "scan" /\ ~stop /\ frame = Samples
    /\ notes' = IF classifier = "none" THEN notes ELSE FastPath
    /\ phase' = IF classifier = "none" THEN "group" ELSE "classify"
    /\ asked' = [i \in DOMAIN notes |->
                    IF classifier = "sequential" /\ i \in ToClassify THEN "again" ELSE "no"]
    /\ UNCHANGED <<stop, classifier, duration, scanning, slides, stored>>

---------------------------------------------------------------------------------
(* _classify_batched *)

\* Batches are consecutive: a note's is given by how many come before it.
BatchOf(i) == Cardinality({j \in ToClassify : j < i}) \div BatchSize
Batch(b)   == {i \in ToClassify : BatchOf(i) = b}
OneByOne(i) == IF classifier = "batched" THEN Batch(BatchOf(i)) ELSE ToClassify
Begun(b)   == \E i \in Batch(b) : asked[i] # "no"
InHand     == {BatchOf(i) : i \in {j \in ToClassify : asked[j] \in {"batch", "again"}}}

Label(S, label) ==
    notes' = [i \in DOMAIN notes |-> IF i \in S THEN [notes[i] EXCEPT !.label = label[i]] ELSE notes[i]]

\* A worker of the pool takes the next batch, and asks about all of it.
AskBatch(b) ==
    /\ phase = "classify" /\ ~stop
    /\ Batch(b) # {} /\ ~Begun(b)
    /\ \A c \in 0..(b - 1) : Begun(c)
    /\ Cardinality(InHand) < Concurrency
    /\ asked' = [i \in DOMAIN asked |-> IF i \in Batch(b) THEN "batch" ELSE asked[i]]
    /\ UNCHANGED <<phase, stop, classifier, duration, scanning, notes, slides, stored>>

\* Mutant: what the answer leaves out is not asked again.
AnswerBatchOnce(b) ==
    /\ phase = "classify"
    /\ Batch(b) # {} /\ \A i \in Batch(b) : asked[i] = "batch"
    /\ \E S \in SUBSET Batch(b) : \E label \in [S -> Labels] : Label(S, label)
    /\ asked' = [i \in DOMAIN asked |-> IF i \in Batch(b) THEN "answered" ELSE asked[i]]
    /\ UNCHANGED <<phase, stop, classifier, duration, scanning, slides, stored>>

\* The answer labels some of the batch, in the right format; a failed call none.
AnswerBatch(b) ==
    /\ phase = "classify"
    /\ Batch(b) # {} /\ \A i \in Batch(b) : asked[i] = "batch"
    /\ \E S \in SUBSET Batch(b) :
         /\ \E label \in [S -> Labels] : Label(S, label)
         /\ asked' = [i \in DOMAIN asked |->
                        IF i \in S THEN "answered" ELSE IF i \in Batch(b) THEN "again" ELSE asked[i]]
    /\ UNCHANGED <<phase, stop, classifier, duration, scanning, slides, stored>>

\* The rest are asked one by one; a call that fails counts as a transition.
AskAgain(i) ==
    /\ phase = "classify" /\ ~stop
    /\ asked[i] = "again" /\ \A j \in OneByOne(i) : asked[j] = "again" => i <= j
    /\ \E label \in Labels : Label({i}, [j \in {i} |-> label])
    /\ asked' = [asked EXCEPT ![i] = "answered"]
    /\ UNCHANGED <<phase, stop, classifier, duration, scanning, slides, stored>>

Classified ==
    /\ phase = "classify"
    /\ \A i \in ToClassify : asked[i] = "answered"
    /\ phase' = "group"
    /\ UNCHANGED <<stop, classifier, duration, scanning, notes, asked, slides, stored>>

---------------------------------------------------------------------------------
(* slide_grouping: notes are in the order of their times, see InOrder *)

Clamp(t) == IF t < duration THEN t ELSE duration

NextBoundary(i) ==
    LET later == {j \in DOMAIN notes : j > i /\ notes[j].kind \in Boundaries}
    IN  IF later = {} THEN Len(notes) + 1 ELSE CHOOSE j \in later : \A k \in later : j <= k

\* Mutant: the end of a segment is not noted.
SegmentEndOpen(i) == duration

SegmentEnd(i) ==
    IF NextBoundary(i) > Len(notes) THEN duration ELSE Clamp(notes[NextBoundary(i)].at)

\* The segments, by the note that starts each.
Segments ==
    {i \in DOMAIN notes : notes[i].kind = "start" /\ Clamp(notes[i].at) < SegmentEnd(i)}

Within(i)       == {j \in DOMAIN notes : i < j /\ j < NextBoundary(i)}
Incremental(j)  == notes[j].label = "incremental"

\* A real transition starts a slide unless the slide before is too young;
\* LastStart[j]: when the slide in progress at note j has started.
LastStart(i) ==
    LET f[j \in i..(NextBoundary(i) - 1)] ==
          IF j = i THEN Clamp(notes[i].at)
          ELSE IF Incremental(j) \/ notes[j].at - f[j - 1] < MinDuration THEN f[j - 1]
          ELSE notes[j].at
    IN  f

Starts(i) == {LastStart(i)[j] : j \in {i} \cup Within(i)}

EndOf(i, t) ==
    LET later == {u \in Starts(i) : u > t}
    IN  IF later = {} THEN SegmentEnd(i) ELSE CHOOSE u \in later : \A v \in later : u <= v

Slide(from, to, build, parent, layout) ==
    [from |-> from, to |-> to, build |-> build, parent |-> parent, layout |-> layout]

Whole ==
    UNION {{Slide(t, EndOf(i, t), FALSE, None, notes[i].layout) :
                t \in {u \in Starts(i) : u < EndOf(i, u)}} : i \in Segments}

\* Incremental builds become children of the slide they fall into.
Builds ==
    UNION {{Slide(notes[j].at, s.to, TRUE, s.from, notes[j].layout) :
                s \in {p \in Whole : p.from <= notes[j].at /\ notes[j].at < p.to}} :
           j \in {k \in UNION {Within(i) : i \in Segments} : Incremental(k)}}

\* A video that never shows a slide is one slide.
Group ==
    /\ phase = "group" /\ ~stop
    /\ slides' = IF notes = <<>> THEN {Slide(0, duration, FALSE, None, None)} ELSE Whole \cup Builds
    /\ phase' = "capture"
    /\ UNCHANGED <<stop, classifier, duration, scanning, notes, asked, stored>>

\* slide_number: the slides by time, then their builds.
Number(s) ==
    LET earlier == {t \in slides : ~t.build /\ t.from < s.from}
        builds  == {t \in slides : t.build /\ t.from < s.from}
    IN  1 + IF s.build THEN Cardinality({t \in slides : ~t.build}) + Cardinality(builds)
            ELSE Cardinality(earlier)

\* transcript_alignment: the segments told with a slide.  One without a length
\* is told with no slide that it starts or ends with.
Told(s) == {seg \in Speech : seg.to > s.from /\ seg.from < s.to}

---------------------------------------------------------------------------------
(* Frames, text and the database *)

\* A frame and its text are read for every slide.
Capture ==
    /\ phase = "capture" /\ ~stop
    /\ phase' = "persist"
    /\ UNCHANGED <<stop, classifier, duration, scanning, notes, asked, slides, stored>>

\* Slides and metadata are one transaction, which the unique key of the
\* metadata refuses if an earlier run has committed its own.
Persist ==
    /\ phase = "persist"
    /\ IF stored = 0 THEN stored' = 1 /\ phase' = "stored"
       ELSE phase' = "failed" /\ UNCHANGED stored
    /\ UNCHANGED <<stop, classifier, duration, scanning, notes, asked, slides>>

Finish ==
    /\ phase = "stored" /\ phase' = IF stop THEN "cancelled" ELSE "completed"
    /\ UNCHANGED <<stop, classifier, duration, scanning, notes, asked, slides, stored>>

\* The worker dies before it has reported: the next delivery does it all again,
\* up to where it stores what it has found.
Redeliver ==
    /\ phase = "stored" /\ phase' = "persist"
    /\ UNCHANGED <<stop, classifier, duration, scanning, notes, asked, slides, stored>>

Cancel ==
    /\ ~stop /\ phase \notin {"completed", "failed", "cancelled"}
    /\ stop' = TRUE
    /\ UNCHANGED <<phase, classifier, duration, scanning, notes, asked, slides, stored>>

\* CancelledException: at the next check, once every call in hand has returned.
Cancelled ==
    /\ stop /\ phase \in {"scan", "classify", "group", "capture"}
    /\ phase = "classify" => \A i \in ToClassify : asked[i] # "batch"
    /\ phase' = "cancelled"
    /\ UNCHANGED <<stop, classifier, duration, scanning, notes, asked, slides, stored>>

---------------------------------------------------------------------------------
Init ==
    /\ phase = "scan" /\ stop = FALSE
    /\ classifier \in {"none", "sequential", "batched"} /\ duration \in Durations
    /\ frame = 0 /\ active = None /\ pending = None /\ count = 0 /\ since = 0
    /\ notes = <<>> /\ asked = <<>> /\ slides = {} /\ stored = 0

Scan ==
    \E l \in Layouts \cup {NoSlide} :
        FirstSample(l) \/ OtherLayout(l) \/ \E look \in Looks : SameLayout(l, look)

Classify ==
    \/ \E b \in 0..Samples : AskBatch(b) \/ AnswerBatch(b)
    \/ \E i \in DOMAIN notes : AskAgain(i)
    \/ Classified

Next ==
    \/ Scan \/ ScanEnds \/ Classify \/ Group \/ Capture
    \/ Persist \/ Finish \/ Redeliver \/ Cancel \/ Cancelled

Spec == Init /\ [][Next]_vars

---------------------------------------------------------------------------------
(* Properties *)

\* A boundary dated back to where it was first suspected still comes after
\* every transition noted before it, and boundaries alternate.
InOrder ==
    \A i, j \in DOMAIN notes : i < j =>
        /\ notes[i].at <= notes[j].at
        /\ notes[i].kind \in Boundaries /\ j = NextBoundary(i) =>
             (notes[i].kind = "start") = (notes[j].kind = "end")

\* Every moment of a slide-present segment belongs to exactly one slide, and no
\* moment outside of them to any; a build lies in the slide that is its parent;
\* and what is said while a slide is shown is told with it.
SlidesPartition ==
    (phase \in {"capture", "persist", "stored", "completed"} /\ notes # <<>>) =>
        /\ \A t \in 0..(duration - 1) :
             Cardinality({s \in slides : ~s.build /\ s.from <= t /\ t < s.to})
               = IF \E i \in Segments : Clamp(notes[i].at) <= t /\ t < SegmentEnd(i) THEN 1 ELSE 0
        /\ \A s \in slides : s.build =>
             \E p \in slides : ~p.build /\ p.from = s.parent /\ p.from <= s.from /\ s.to = p.to
        /\ \A s, u \in slides : Number(s) = Number(u) => s = u
        /\ \A seg \in Speech : \A t \in seg.from..(seg.to - 1) : \A s \in slides :
             s.from <= t /\ t < s.to => seg \in Told(s)

\* However little the answers contain, no ambiguous transition is left without a
\* label once the classification has ended.
AllLabelled ==
    (classifier # "none" /\ phase \in {"group", "capture", "persist", "stored", "completed"}) =>
        \A i \in DOMAIN notes : Ambiguous(i) => notes[i].label \in Labels
=================================================================================
