-------------------------------- MODULE MCServices --------------------------------
(* The services on small instances. *)
EXTENDS Services, TLC

CONSTANTS e1, e2, e3, n1, n2, x, y, c, d,  \* LlmRoute
          lane,                            \* Telemetry
          j1, j2, v, vv, u, o, en, fr,     \* Fetch, and v the video of Intake
          i0, i1, i2, i3, i4,              \* its names
          a, b, title                      \* TranscriptText, with c

---------------------------------------------------------------------------------
(* Slides: six samples do not fit a layout twice changed and more; five show a     *)
(* segment begun, suspected, ended and begun again.  A slide of two seconds.        *)
MCSpeech == {[from |-> 0, to |-> 6], [from |-> 6, to |-> 17]}

---------------------------------------------------------------------------------
(* Summary: three lines, and up to two of the vision model *)

Line(kind, at, ends) == [kind |-> kind, at |-> at, ends |-> ends]
Section(from, to)    == [from |-> from, to |-> to]

LineShapes ==
    {Line("chapter", 1, FALSE), Line("line", 1, FALSE), Line("line", 1, TRUE),
     Line("plain", 0, FALSE), Line("chapter", 5, FALSE), Line("line", 5, TRUE)}

InTime(s) ==
    \A i, k \in DOMAIN s : i < k /\ s[i].kind # "plain" /\ s[k].kind # "plain" => s[i].at <= s[k].at

MCTranscripts  == {s \in [1..3 -> LineShapes] : InTime(s)}
MCSnapshotSets == {{}, {0, 2, 5}}
MCAnalyses     == {<<Section(0, None)>>, <<Section(1, 3), Section(3, None)>>,
                   <<Section(0, 2), Section(4, 3)>>, <<Section(2, None), Section(5, 9)>>,
                   <<Section(None, 3), Section(9, None)>>}
MCReplies      == {<<>>, <<"words">>, <<"open", "words", "close", "words">>,
                   <<"open", "words">>, <<"words", "marker", "words">>,
                   <<"marker", "boundary", "words", "boundary", "words">>,
                   <<"marker", "words", "boundary">>,
                   <<"marker", "words", "open", "words", "close", "words">>,
                   <<"open", "words", "close", "open", "words", "close", "words">>,
                   <<"words", "close", "words">>}

---------------------------------------------------------------------------------
(* Routing: two nodes and an endpoint of a profile's own *)

Profile(node, model, caps, priority, context, url, key) ==
    [node |-> node, model |-> model, caps |-> caps, priority |-> priority,
     context |-> context, url |-> url, key |-> key]

FirstX  == Profile(n1, x, {"text"}, 2, 8, None, None)
SecondX == Profile(n2, x, {"text", "vision"}, 1, 4, None, None)
OwnY    == Profile(n2, y, {"text"}, 3, 8, e3, None)
Keyed   == Profile(c, y, {"text"}, 5, 9, None, TRUE)
Keyless == Profile(d, y, {"text"}, 6, 9, None, FALSE)

MCHome      == <<[node |-> n1, url |-> e1], [node |-> n2, url |-> e2]>>
MCManifests == {{}, {Keyed}, {FirstX, SecondX, Keyed, Keyless}, {FirstX, OwnY},
                {SecondX, OwnY, Keyless}}
MCRequests  == {[caps |-> {"text"}, context |-> 6], [caps |-> {"vision"}, context |-> 0]}
MCOwners    == {[vllm |-> TRUE, model |-> None, url |-> None],
                [vllm |-> TRUE, model |-> x, url |-> None],
                [vllm |-> FALSE, model |-> None, url |-> e2]}

---------------------------------------------------------------------------------
(* Telemetry: one lane, the API and a worker *)

MCConfigs == {{[lane |-> lane, enabled |-> TRUE]}, {[lane |-> lane, enabled |-> FALSE]}}

---------------------------------------------------------------------------------
(* Fetch: two jobs, on two videos of which one's id begins the other's, on one video   *)
(* with captions of the platform, or one on a video whose ids differ, and whose          *)
(* resolver's id begins the names of the other's files                                     *)

MCPlans  == {j1 :> v @@ j2 :> vv, j1 :> u @@ j2 :> u, j1 :> o @@ j2 :> v}
MCLangOf == j1 :> en @@ j2 :> fr
MCTracks == u :> {[lang |-> en, manual |-> TRUE], [lang |-> fr, manual |-> FALSE]}
MCId     == v :> i1 @@ vv :> i2 @@ u :> i4 @@ o :> i0
MCFile   == v :> i1 @@ vv :> i2 @@ u :> i4 @@ o :> i3
MCLike   == i0 :> {i0, i1, i2} @@ i1 :> {i1, i2} @@ i2 :> {i2} @@ i3 :> {i3} @@ i4 :> {i4}

---------------------------------------------------------------------------------
(* Transcripts: up to three cues, those without a stamp first; b looks like the head   *)
(* of a document                                                                          *)

MCFiles ==
    {f \in UNION {[1..n -> [at : {None, 0, 4, 9}, text : {a, b, c, Blank}]] : n \in 1..3} :
        \A i, k \in DOMAIN f : i < k /\ f[k].at = None => f[i].at = None}
MCSpoken      == {<<a>>, <<a, b>>, <<a, b, c, a>>}
MCChapterSets == {<<>>, <<0>>, <<0, 5>>, <<4, 12>>}
MCLength      == a :> 3 @@ b :> 3 @@ c :> 12 @@ title :> 3
=================================================================================
