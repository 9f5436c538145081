------------------------------- MODULE TranscriptText -------------------------------
(***************************************************************************)
(* What becomes of captions between the platform and the database: the cues   *)
(* of a file are read into stamped lines without repeats, the chapters of the    *)
(* video are put in as headers, and the text is cut into segments of bounded      *)
(* length that carry the times of their first and last line.  A text is a model     *)
(* value with a length; of its wording only matters whether it begins like the       *)
(* head of a document.                                                                 *)
(***************************************************************************)
EXTENDS Integers, Sequences, FiniteSets, SequencesExt

CONSTANTS None, Blank,
          Title,      \* the text of a header
          Meta,       \* texts that begin with "#", "Source:" or "Language:"
          Files,      \* caption files: sequences of [at, text]; at is None before a first stamp
          Spoken,     \* texts of Whisper: sequences of texts, without stamps
          ChapterSets,\* sequences of the chapters' start times, ascending
          Length,     \* of each text
          MaxLength   \* max_segment_length

VARIABLES
    phase,     \* "read", "chapters", "save", "done"
    input,     \* the file, the snippets of the platform, or the spoken text
    chapters,
    lines,     \* the transcript: sequence of [kind, at, text]
    segments   \* sequence of [texts, from, to]

vars == <<phase, input, chapters, lines, segments>>

Stamped(at, text) == [kind |-> "stamped", at |-> at, text |-> text]
Plain(text)       == [kind |-> "plain", at |-> None, text |-> text]
Header(at)        == [kind |-> "header", at |-> at, text |-> Title]

\* The members of s at the places in I, one after the other.
Only(s, I) == FoldLeftDomain(LAMBDA t, i : IF i \in I THEN Append(t, s[i]) ELSE t, <<>>, s)

---------------------------------------------------------------------------------
(* _parse_vtt: a text that has been seen before, wherever, is dropped *)

Parse(file) ==
    LET Cue(done, cue) ==
            IF cue.text = Blank \/ \E i \in DOMAIN done : done[i].text = cue.text THEN done
            ELSE Append(done, IF cue.at = None THEN Plain(cue.text) ELSE Stamped(cue.at, cue.text))
    IN  FoldLeft(Cue, <<>>, file)

(* _embed_chapters: before the first stamped line at or after it; else at the end *)

Headers(starts) == [i \in DOMAIN starts |-> Header(starts[i])]

EmbedWith(text, starts, Due(_, _)) ==
    LET Line(acc, l) ==
            IF l.kind = "stamped"
            THEN LET due == Due(acc.left, l.at)
                 IN  [left |-> SubSeq(acc.left, Len(due) + 1, Len(acc.left)),
                      out  |-> Append(acc.out \o Headers(due), l)]
            ELSE [acc EXCEPT !.out = Append(acc.out, l)]
        all == FoldLeft(Line, [left |-> starts, out |-> <<>>], text)
    IN  all.out \o Headers(all.left)

\* Mutant: one chapter at most before a line.
EmbedOne(text, starts) ==
    EmbedWith(text, starts, LAMBDA left, at :
        IF left # <<>> /\ left[1] <= at THEN SubSeq(left, 1, 1) ELSE <<>>)

Embed(text, starts) ==
    EmbedWith(text, starts, LAMBDA left, at :
        LET later == SelectInSeq(left, LAMBDA c : c > at)
        IN  IF later = 0 THEN left ELSE SubSeq(left, 1, later - 1))

(* segment_transcript *)

\* Lines that carry text, each at its stamp or at the last one before it; without a
\* stamp of its own, one that looks like the head of a document is passed over.
Entries(text) ==
    LET Line(acc, l) ==
            CASE l.kind = "stamped" ->
                    [last |-> l.at, out |-> IF l.text = Blank THEN acc.out
                                            ELSE Append(acc.out, [at |-> l.at, text |-> l.text])]
              [] l.kind = "header" -> acc
              [] OTHER -> IF l.text \in Meta THEN acc
                          ELSE [acc EXCEPT !.out = Append(acc.out, [at |-> acc.last, text |-> l.text])]
    IN  FoldLeft(Line, [last |-> 0, out |-> <<>>], text).out

Begun(e) == [texts |-> <<e.text>>, from |-> e.at, to |-> e.at, size |-> Length[e.text]]
Grown(seg, e) == [seg EXCEPT !.texts = Append(@, e.text), !.to = e.at, !.size = @ + Length[e.text] + 1]
Full(seg, e) == seg.size + Length[e.text] + 1 > MaxLength

\* The first segment of a stamped text counts a space too many.
CutWith(entries, slack, Close(_, _)) ==
    LET Entry(acc, e) ==
            IF acc = <<>> THEN <<[Begun(e) EXCEPT !.size = @ + slack]>>
            ELSE IF Full(Last(acc), e) THEN Close(acc, e)
            ELSE Append(Front(acc), Grown(Last(acc), e))
    IN  FoldLeft(Entry, <<>>, entries)

\* Mutant: the segment that a text does not fit into is replaced, not closed.
CutLossy(entries, slack) == CutWith(entries, slack, LAMBDA acc, e : Append(Front(acc), Begun(e)))

\* Mutant: a new segment keeps the start of the one before.
CutSameStart(entries, slack) ==
    CutWith(entries, slack, LAMBDA acc, e : Append(acc, [Begun(e) EXCEPT !.from = Last(acc).from]))

\* Greedy: a text that does not fit begins a segment.
Cut(entries, slack) == CutWith(entries, slack, LAMBDA acc, e : Append(acc, Begun(e)))

HasStamps(text) == \E i \in DOMAIN text : text[i].kind = "stamped"

\* _segment_without_timestamps: the whole text, headers and all, at 0; sent_tokenize
\* is taken to divide it between its texts.
Untimed(text) == Cut([i \in DOMAIN text |-> [at |-> 0, text |-> text[i].text]], 0)

---------------------------------------------------------------------------------
(* The steps of process_transcript *)

\* The platform stamps every snippet.
Snippets(file) == \A i \in DOMAIN file : file[i].at # None

Read ==
    /\ phase = "read"
    /\ lines' = CASE input.kind = "file"   -> Parse(input.of)
                  [] input.kind = "native" -> [i \in DOMAIN input.of |-> Stamped(input.of[i].at, input.of[i].text)]
                  [] OTHER                 -> [i \in DOMAIN input.of |-> Plain(input.of[i])]
    /\ phase' = IF lines' = <<>> THEN "done" ELSE "chapters"
    /\ UNCHANGED <<input, chapters, segments>>

PutChapters ==
    /\ phase = "chapters"
    /\ \/ lines' = Embed(lines, chapters)
       \/ UNCHANGED lines                        \* the metadata could not be had
    /\ phase' = "save"
    /\ UNCHANGED <<input, chapters, segments>>

\* A text with stamps and no words cannot be cut: it is saved without segments.
Save ==
    /\ phase = "save"
    /\ segments' = IF HasStamps(lines) THEN Cut(Entries(lines), 1) ELSE Untimed(lines)
    /\ phase' = "done"
    /\ UNCHANGED <<input, chapters, lines>>

Init ==
    /\ phase = "read"
    /\ input \in {[kind |-> "file", of |-> f] : f \in Files}
                 \cup {[kind |-> "native", of |-> f] : f \in {g \in Files : Snippets(g)}}
                 \cup {[kind |-> "spoken", of |-> s] : s \in Spoken}
    /\ chapters \in ChapterSets
    /\ lines = <<>> /\ segments = <<>>

Next == Read \/ PutChapters \/ Save

Spec == Init /\ [][Next]_vars

---------------------------------------------------------------------------------
(* Properties *)

Said(segs)  == FlattenSeq([i \in DOMAIN segs |-> segs[i].texts])
Words(text) == [i \in DOMAIN text |-> text[i].text]

\* What of a transcript there is to say: all of it if nothing has a stamp, and else no
\* header, nothing blank, and no unstamped line that looks like the head of a document.
Utters(l)  == (l.kind = "stamped" /\ l.text # Blank) \/ (l.kind = "plain" /\ l.text \notin Meta)
Told(text) == IF HasStamps(text) THEN Only(text, {i \in DOMAIN text : Utters(text[i])}) ELSE text

\* Between the captions and the segments nothing that is to be said is lost, repeated or
\* reordered, whatever is blank, unstamped, repeated or a header: the transcript of a
\* file has each of its texts once, the segments say what the transcript has to say,
\* and none is longer than the limit unless it is one text.
SegmentsSayAll ==
    phase = "done" =>
        /\ Said(segments) = Words(Told(lines))
        /\ \A i \in DOMAIN segments : Len(segments[i].texts) > 1 => segments[i].size <= MaxLength
        /\ input.kind = "file" =>
             LET own == Words(Only(lines, {i \in DOMAIN lines : lines[i].kind # "header"}))
             IN  IsInjective(own) /\ Range(own) = {input.of[i].text : i \in DOMAIN input.of} \ {Blank}

\* Captions with ascending stamps give segments that follow one another in time,
\* each from its first line to its last: none reaches back behind another, so
\* that a moment of the video finds its text.
SegmentsInTime ==
    LET Ascending(s) == \A i, k \in DOMAIN s : i <= k => s[i].at <= s[k].at
    IN  (phase = "done" /\ input.kind # "spoken" /\ Snippets(input.of) /\ Ascending(input.of)) =>
            /\ \A i \in DOMAIN segments : segments[i].from <= segments[i].to
            /\ \A i \in 1..(Len(segments) - 1) : segments[i].to <= segments[i + 1].from

\* Every chapter stands in the transcript once and in order, behind all that is
\* said before it begins and before the next line that is said after.
ChaptersInPlace ==
    LET heads == Only(lines, {k \in DOMAIN lines : lines[k].kind = "header"})
        said  == {k \in DOMAIN lines : lines[k].kind = "stamped"}
    IN  (phase = "save" /\ heads # <<>>) =>
            /\ heads = Headers(chapters)
            /\ \A i \in {k \in DOMAIN lines : lines[k].kind = "header"} :
                 /\ \A k \in said : k < i => lines[k].at < lines[i].at
                 /\ \A k \in said : (k > i /\ \A m \in said : m > i => m >= k) => lines[k].at >= lines[i].at
=================================================================================
