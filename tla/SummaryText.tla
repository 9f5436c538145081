------------------------------- MODULE SummaryText -------------------------------
(***************************************************************************)
(* summarize_transcript_sections: from a transcript and the times of its      *)
(* snapshots to a document.  A model is first asked for the sections of the     *)
(* transcript and then to rewrite each; if the first fails, or the answer is      *)
(* malformed, the transcript is cut at its chapters and images instead.            *)
(*                                                                             *)
(* A line is its kind and time; a reply of the model is a sequence of the        *)
(* tokens that the removal of leaked reasoning looks at.                         *)
(***************************************************************************)
EXTENDS Integers, Sequences, FiniteSets, SequencesExt

CONSTANTS None,
          Transcripts,  \* sequences of lines
          SnapshotSets, \* sets of times
          Analyses,     \* what the model may say: sequences of sections
          Replies       \* what the model may reply: sequences of tokens

Kinds  == {"chapter", "line", "plain"}   \* plain: a line without a timestamp
Line(kind, at, ends) == [kind |-> kind, at |-> at, ends |-> ends]
Section(from, to) == [from |-> from, to |-> to]  \* None: "END", or not a time

\* What the removal of leaked reasoning looks for in a reply: <think>, </think>, a
\* "thinking process", an "[output]" and the like; and the words between them.
Tokens == {"open", "close", "marker", "boundary", "words"}

VARIABLES
    lines, snaps,  \* the transcript, the snapshots
    pass,          \* "describe", "analyze", "sections", "single", "done" or "cancelled"
    plan,          \* the sections of the analysis, or the pieces of the fallback
    parts,         \* how many pieces have been written
    latest,        \* the reply that the last of them is from, and the places kept of it
    again,         \* the first reply to this piece was nothing but reasoning
    stop           \* the user has cancelled

vars == <<lines, snaps, pass, plan, parts, latest, again, stop>>

Own == [reply |-> <<>>, kept |-> {}]   \* nothing of a reply: the piece itself

Timed(l) == l.kind # "plain"

\* The line a snapshot belongs after: the latest at or before it; 0 if none is.
HostLine(t) ==
    LET S == {i \in DOMAIN lines : Timed(lines[i]) /\ lines[i].at <= t}
    IN  IF S = {} THEN 0
        ELSE CHOOSE i \in S : \A j \in S : lines[j].at < lines[i].at
                                          \/ (lines[j].at = lines[i].at /\ i <= j)

---------------------------------------------------------------------------------
(* _inject_vision_annotations: each description becomes a line after the       *)
(* snapshot's own, or after the first line if it has none                        *)

VisionAfter(i, S) ==
    {t \in S : i = IF HostLine(t) = 0 THEN 1 ELSE HostLine(t)}

Annotated(S) ==
    FlattenSeq([i \in DOMAIN lines |->
        <<lines[i]>> \o [k \in 1..Cardinality(VisionAfter(i, S)) |-> Line("plain", 0, FALSE)]])

---------------------------------------------------------------------------------
(* _strip_cot_leakage *)

FirstOf(t, r) == SelectInSeq(r, LAMBDA x : x = t)
LastOf(t, r)  == SelectLastInSeq(r, LAMBDA x : x = t)

\* Mutant: a block that is never closed is kept.
StripOpen(r) ==
    LET open   == FirstOf("open", r)     close    == FirstOf("close", r)
        marker == FirstOf("marker", r)   boundary == LastOf("boundary", r)
    IN  {i \in DOMAIN r :
            IF open > 0 /\ close > open THEN i < open \/ i > close
            ELSE marker > 0 => boundary > marker /\ i > boundary}

\* The places of a reply that are kept: all but its first block, or what follows the
\* last boundary behind its first marker.
Strip(r) ==
    LET open   == FirstOf("open", r)     close    == FirstOf("close", r)
        marker == FirstOf("marker", r)   boundary == LastOf("boundary", r)
    IN  {i \in DOMAIN r :
            IF open > 0 /\ close > open THEN i < open \/ i > close
            ELSE IF open > 0 THEN i < open
            ELSE marker > 0 => boundary > marker /\ i > boundary}

---------------------------------------------------------------------------------
(* Two passes: _extract_sections_from_analysis *)

LinesFrom(t) == {i \in DOMAIN lines : Timed(lines[i]) /\ lines[i].at >= t}

\* The first line at or after t, in the order of the transcript.
LineAt(t, default) ==
    IF t = None \/ LinesFrom(t) = {} THEN default
    ELSE CHOOSE i \in LinesFrom(t) : \A j \in LinesFrom(t) : i <= j

\* Mutant: a section runs up to and including the line at its end.
SectionLinesLong(s) ==
    {i \in DOMAIN lines :
        /\ i >= LineAt(s.from, 1)
        /\ i <= LineAt(s.to, Len(lines) + 1)
        /\ lines[i].kind # "chapter"}

\* The lines of a section; its chapter headers become its title.
SectionLines(s) ==
    {i \in DOMAIN lines :
        /\ i >= LineAt(s.from, 1)
        /\ i < LineAt(s.to, Len(lines) + 1)
        /\ lines[i].kind # "chapter"}

SectionSnaps(s) == {t \in snaps : (s.from # None => t >= s.from) /\ (s.to # None => t < s.to)}

---------------------------------------------------------------------------------
(* One pass: _inject_snapshot_refs and _split_into_sections *)

Image(t) == [kind |-> "image", at |-> t]
Text(S)  == [kind |-> "text", of |-> S]
Chapter(i) == [kind |-> "chapter", of |-> i]

\* The members of a set of times, ascending.
InOrder(S) == CHOOSE q \in [1..Cardinality(S) -> S] : \A i, k \in DOMAIN q : i < k => q[i] < q[k]

\* The walk over the lines: w.open is the text not yet written out, w.images
\* the images that wait for the end of a sentence, for at most three lines.
Flushed(w) ==
    [out    |-> w.out \o (IF w.open = {} THEN <<>> ELSE <<Text(w.open)>>)
                      \o [k \in DOMAIN w.images |-> Image(w.images[k])],
     open   |-> {}, images |-> <<>>, waited |-> 0]

AtLine(w, i) ==
    IF lines[i].kind = "chapter" THEN [Flushed(w) EXCEPT !.out = Append(@, Chapter(i))]
    ELSE LET held == [w EXCEPT !.open = @ \cup {i},
                               !.waited = IF w.images = <<>> THEN @ ELSE @ + 1]
         IN  IF w.images # <<>> /\ (lines[i].ends \/ held.waited >= 3) THEN Flushed(held) ELSE held

\* The images shown after line i.
AtImages(w, i) ==
    LET new == InOrder({t \in snaps : HostLine(t) = i})
    IN  IF new = <<>> THEN w ELSE [w EXCEPT !.images = @ \o new, !.waited = 0]

Walk ==
    LET f[i \in 0..Len(lines)] ==
          IF i = 0 THEN [out |-> <<>>, open |-> {}, images |-> <<>>, waited |-> 0]
          ELSE AtImages(AtLine(f[i - 1], i), i)
    IN  f[Len(lines)]

\* Mutant: what is left after the last line is not written out.
PiecesUnflushed == Walk.out

Pieces == Flushed(Walk).out

---------------------------------------------------------------------------------
(* The run *)

\* Cancellation is looked at before the analysis and before every piece.
Cancelled ==
    /\ stop /\ pass \in {"analyze", "sections", "single"} /\ ~again
    /\ pass' = "cancelled"
    /\ UNCHANGED <<lines, snaps, plan, parts, latest, again, stop>>

Cancel ==
    /\ ~stop /\ pass \notin {"done", "cancelled"}
    /\ stop' = TRUE
    /\ UNCHANGED <<lines, snaps, pass, plan, parts, latest, again>>

\* The vision model describes some of the snapshots; nobody asks meanwhile
\* whether the summary is still wanted.
Describe(S) ==
    /\ pass = "describe"
    /\ lines' = Annotated(S)
    /\ pass' = "analyze"
    /\ UNCHANGED <<snaps, plan, parts, latest, again, stop>>

Analyze ==
    /\ pass = "analyze" /\ ~stop
    /\ plan' \in Analyses
    /\ pass' = "sections"
    /\ UNCHANGED <<lines, snaps, parts, latest, again, stop>>

\* No answer, no JSON, no list, or fields that are not what they should be.
AnalysisFails ==
    /\ pass = "analyze" /\ ~stop
    /\ pass' = "single" /\ plan' = Pieces
    /\ UNCHANGED <<lines, snaps, parts, latest, again, stop>>

\* A field that the prompt of a section cannot be made from: all over again.
SectionsFail ==
    /\ pass = "sections" /\ ~stop
    /\ pass' = "single" /\ plan' = Pieces /\ parts' = 0 /\ latest' = Own /\ again' = FALSE
    /\ UNCHANGED <<lines, snaps, stop>>

\* The lines a piece of the plan is made from.
Source(k) ==
    IF pass = "sections" THEN SectionLines(plan[k])
    ELSE IF plan[k].kind = "text" THEN plan[k].of ELSE {}

Next1 == parts + 1
Busy  == pass \in {"sections", "single"} /\ Next1 <= Len(plan)

Written(r, kept) ==
    /\ parts' = parts + 1 /\ latest' = [reply |-> r, kept |-> kept] /\ again' = FALSE
    /\ UNCHANGED <<lines, snaps, pass, plan, stop>>

\* Nothing to ask: an empty section, a chapter header or an image.
Copy == Busy /\ ~stop /\ Source(Next1) = {} /\ Written(<<>>, {})

\* A reply that is more than reasoning is kept without it.
Reply(r) ==
    /\ Busy /\ (stop => again) /\ Source(Next1) # {}
    /\ Strip(r) # {}
    /\ Written(r, Strip(r))

\* The first reply is reasoning alone: asked once more, without it.
OnlyReasoning(r) ==
    /\ Busy /\ ~stop /\ ~again /\ Source(Next1) # {}
    /\ r # <<>> /\ Strip(r) = {}
    /\ again' = TRUE
    /\ UNCHANGED <<lines, snaps, pass, plan, parts, latest, stop>>

\* An error, a timeout, an empty reply, or reasoning again: the lines themselves.
KeepLines ==
    /\ Busy /\ (stop => again) /\ Source(Next1) # {}
    /\ Written(<<>>, {})

Assemble ==
    /\ pass \in {"sections", "single"} /\ Next1 > Len(plan)
    /\ pass' = "done"
    /\ UNCHANGED <<lines, snaps, plan, parts, latest, again, stop>>

Init ==
    /\ lines \in Transcripts /\ snaps \in SnapshotSets
    /\ pass = "describe" /\ plan = <<>> /\ parts = 0 /\ latest = Own
    /\ again = FALSE /\ stop = FALSE

Next ==
    \/ \E S \in SUBSET snaps : Describe(S)
    \/ Cancel \/ Cancelled \/ Analyze \/ AnalysisFails \/ SectionsFail
    \/ Copy \/ KeepLines \/ Assemble
    \/ \E r \in Replies : Reply(r) \/ OnlyReasoning(r)

Spec == Init /\ [][Next]_vars

---------------------------------------------------------------------------------
(* Properties *)

\* Where a reply is known to be reasoning: in its first block, closed or not; in one
\* without a block, behind a marker, and before a boundary if there is any.
Thinking(r) ==
    {i \in DOMAIN r :
        \/ /\ \E o \in DOMAIN r : o < i /\ r[o] = "open"
           /\ \A k \in DOMAIN r : k < i => r[k] # "close"
        \/ /\ \A k \in DOMAIN r : r[k] # "open"
           /\ \E m \in DOMAIN r : m < i /\ r[m] = "marker"
           /\ (\E k \in DOMAIN r : r[k] = "boundary") => \E k \in DOMAIN r : k > i /\ r[k] = "boundary"}

\* None of that gets into a document, be the reply the first or the second, nor does its
\* removal leave a piece empty.  Reasoning that stands elsewhere is published: what
\* comes before a block, in a second one, or before a </think> that closes none.
NoReasoning ==
    /\ latest.kept \cap Thinking(latest.reply) = {}
    /\ latest.reply # <<>> => latest.kept # {}

Texts == {k \in DOMAIN plan : plan[k].kind = "text"}

\* The fallback loses nothing: every line is in one piece, in order; every
\* snapshot that has a line to follow is shown once, after that line and
\* before the next chapter.
FallbackKeepsAll ==
    (pass = "single" \/ (pass = "done" /\ \E k \in DOMAIN plan : "kind" \in DOMAIN plan[k])) =>
        /\ \A i \in DOMAIN lines :
             Cardinality({k \in DOMAIN plan :
                            \/ plan[k].kind = "text" /\ i \in plan[k].of
                            \/ plan[k].kind = "chapter" /\ i = plan[k].of}) = 1
        /\ \A k, l \in Texts : k < l => \A i \in plan[k].of, j \in plan[l].of : i < j
        /\ \A t \in {s \in snaps : HostLine(s) # 0} :
             LET shown == {k \in DOMAIN plan : plan[k] = Image(t)}
             IN  /\ Cardinality(shown) = 1
                 /\ \A k \in shown, l \in DOMAIN plan :
                      /\ l > k /\ plan[l].kind = "text" => \A i \in plan[l].of : i > HostLine(t)
                      /\ l < k /\ plan[l].kind = "chapter" => plan[l].of <= HostLine(t)

\* An analysis in good order: from the first line on without gaps, up to the end,
\* and with no section that starts after the last line.
Contiguous(p) ==
    /\ \A k \in DOMAIN p : p[k].from # None
    /\ LinesFrom(p[1].from) = {i \in DOMAIN lines : Timed(lines[i])}
    /\ \A k \in 1..(Len(p) - 1) : p[k].to = p[k + 1].from /\ p[k].from < p[k].to
    /\ \A k \in DOMAIN p : LinesFrom(p[k].from) # {}
    /\ p[Len(p)].to = None

\* From an analysis in good order every line and every snapshot of the time it
\* spans gets into exactly one section.
SectionsPartition ==
    (pass = "sections" /\ Contiguous(plan)) =>
        /\ \A i \in {j \in DOMAIN lines : lines[j].kind # "chapter" /\ j >= LineAt(plan[1].from, 1)} :
             Cardinality({k \in DOMAIN plan : i \in SectionLines(plan[k])}) = 1
        /\ \A t \in {s \in snaps : s >= plan[1].from} :
             Cardinality({k \in DOMAIN plan : t \in SectionSnaps(plan[k])}) = 1
=================================================================================
