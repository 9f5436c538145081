--------------------------------- MODULE Services ---------------------------------
(***************************************************************************)
(* The algorithms the tasks and the routes call, side by side.  They share no  *)
(* state: a behaviour is one of one component, the one part names; the             *)
(* variables of the others are None throughout.  Each constant is that of its      *)
(* component; two components have a constant of one name where the last column      *)
(* says so.                                                                          *)
(***************************************************************************)
EXTENDS Integers, Sequences, FiniteSets

CONSTANTS
    None,
    Layouts, NoSlide, Samples, Debounce, MinDuration, Durations, BatchSize, Concurrency,
    Speech,                                                 \* SlideDetection
    Transcripts, SnapshotSets, Analyses, Replies,           \* SummaryText
    Refused, NoModel, Endpoints, Managed, Home, Models, Manifests, Requests, Owners,
    MaxChanges,                                             \* LlmRoute, and Telemetry
    Lanes, Workers, Api, Configs, LocalTTL, Stale, RedisTTL, MaxRestarts,  \* Telemetry
    Jobs, Videos,                                           \* Fetch, and Intake
    Plans, Langs, LangOf, Native, Tracks, Names, Id, File, Like, MaxDeaths,    \* Fetch
    Deliveries, MaxAttempts,                                \* Download
    Blank, Title, Meta, Files, Spoken, ChapterSets, Length, MaxLength,         \* TranscriptText
    Users, Sources, Clients, Tasks,                         \* Intake; Sources: its videos
    Callers, Limit, Window, MaxCount                        \* RateLimit; Callers: its requests

\* None stands for nothing at all; a name begins with itself.
ASSUME ServicesAssumption ==
    /\ None \notin Lanes \cup Sources \cup Layouts \cup {NoSlide} /\ None \notin [ok : BOOLEAN, age : Nat]
    /\ Stale \in Nat /\ LocalTTL \in Int /\ RedisTTL \in Int
    /\ Plans \subseteq [Jobs -> Videos] /\ Id \in [Videos -> Names] /\ File \in [Videos -> Names]
    /\ \A z \in Names : z \in Like[z]
    /\ Limit \in Nat /\ Window \in Nat \ {0} /\ None \notin Nat /\ None # "whole"

\* Times of the video are whole numbers of quarters of a second.
ASSUME VideoAssumption ==
    Durations \subseteq Nat /\ MinDuration \in Int /\ Speech \subseteq [from : Int, to : Int]

\* Times are in whole seconds; an analysis has a section at least.
ASSUME TextAssumption ==
    /\ Transcripts \subseteq Seq([kind : {"chapter", "line", "plain"}, at : Nat, ends : BOOLEAN])
    /\ \A s \in SnapshotSets : s \subseteq Nat /\ IsFiniteSet(s)
    /\ \A p \in Analyses : p # <<>> /\ p \in Seq([from : Nat \cup {None}, to : Nat \cup {None}])
    /\ Replies \subseteq Seq({"open", "close", "marker", "boundary", "words"})

\* Texts, headers and spoken ones too, have a length unless they are blank, and stand
\* at whole seconds if at any; the chapters of a video are in order.
ASSUME CaptionAssumption ==
    /\ Length \in [DOMAIN Length -> Nat] /\ MaxLength \in Int
    /\ Files \subseteq Seq([at : Nat \cup {None}, text : DOMAIN Length \cup {Blank}])
    /\ Spoken \subseteq Seq(DOMAIN Length) /\ Title \in DOMAIN Length
    /\ \A c \in ChapterSets : c \in Seq(Nat) /\ \A i, k \in DOMAIN c : i <= k => c[i] <= c[k]

\* A fleet is a list of nodes with endpoints; a manifest is finite, its local
\* profiles are of models and endpoints there are, and no decision is None or Refused.
ASSUME FleetAssumption ==
    /\ Home \in Seq({Home[i] : i \in DOMAIN Home}) /\ \A i \in DOMAIN Home : Home[i].url \in Endpoints
    /\ None \notin Models /\ \A m \in Manifests : IsFiniteSet(m)
    /\ \A m \in Manifests : \A p \in m : p.key = None =>
         /\ p.model \in Models /\ p.url \in Endpoints \cup {None}
         /\ \A u \in Endpoints \cup {None} : [node |-> p.node, model |-> p.model, url |-> u] \notin {None, Refused}

VARIABLES
    part,
    phase, stop, classifier, duration, frame, active, pending, count, since,
    notes, asked, slides, stored,
    lines, snaps, pass, plan, parts, latest, again, halt,
    manifest, request, owner, cloud, loaded, moves, asking, listing, inventory, route, was,
    serving, silent, registry, redis, cache, sweep, thread, lease, changes, restarts,
    video, pc, picked, text, subs, audio, alone, litter, deaths,
    exact, folder, stands, attempt, film,
    done, input, chapters, transcript, segments,
    rows, client, task, files, archives, raced,
    hits, expiry, handler, served

slideVars   == <<phase, stop, classifier, duration, frame, active, pending, count, since,
                 notes, asked, slides, stored>>
summaryVars == <<lines, snaps, pass, plan, parts, latest, again, halt>>
routeVars   == <<manifest, request, owner, cloud, loaded, moves, asking, listing, inventory,
                 route, was>>
laneVars    == <<serving, silent, registry, redis, cache, sweep, thread, lease, changes, restarts>>
fetchVars   == <<video, pc, picked, text, subs, audio, alone, litter, deaths>>
filmVars    == <<exact, folder, stands, attempt, film>>
cutVars     == <<done, input, chapters, transcript, segments>>
jobVars     == <<rows, client, task, files, archives, raced>>
limitVars   == <<hits, expiry, handler, served>>

WithoutSlide ==
    /\ phase = None /\ stop = None /\ classifier = None /\ duration = None /\ frame = None
    /\ active = None /\ pending = None /\ count = None /\ since = None /\ notes = None
    /\ asked = None /\ slides = None /\ stored = None

WithoutSummary ==
    /\ lines = None /\ snaps = None /\ pass = None /\ plan = None /\ parts = None
    /\ latest = None /\ again = None /\ halt = None

WithoutRoute ==
    /\ manifest = None /\ request = None /\ owner = None /\ cloud = None /\ loaded = None
    /\ moves = None /\ asking = None /\ listing = None /\ inventory = None /\ route = None
    /\ was = None

WithoutLane ==
    /\ serving = None /\ silent = None /\ registry = None /\ redis = None /\ cache = None
    /\ sweep = None /\ thread = None /\ lease = None /\ changes = None /\ restarts = None

WithoutFetch ==
    /\ video = None /\ pc = None /\ picked = None /\ text = None /\ subs = None
    /\ audio = None /\ alone = None /\ litter = None /\ deaths = None

WithoutFilm ==
    /\ exact = None /\ folder = None /\ stands = None /\ attempt = None /\ film = None

WithoutCut ==
    /\ done = None /\ input = None /\ chapters = None /\ transcript = None
    /\ segments = None

WithoutJob ==
    /\ rows = None /\ client = None /\ task = None /\ files = None /\ archives = None
    /\ raced = None

WithoutLimit == hits = None /\ expiry = None /\ handler = None /\ served = None

---------------------------------------------------------------------------------
Slides   == INSTANCE SlideDetection WITH Confirm <- Debounce
Summary  == INSTANCE SummaryText WITH stop <- halt
Routes   == INSTANCE LlmRoute WITH changes <- moves
Sidecars == INSTANCE Telemetry
Fetching == INSTANCE Fetch
Films    == INSTANCE Download WITH at <- stands
Cut      == INSTANCE TranscriptText WITH phase <- done, lines <- transcript
Taken    == INSTANCE Intake WITH job <- rows, Videos <- Sources
Limited  == INSTANCE RateLimit WITH Requests <- Callers

---------------------------------------------------------------------------------
Init ==
    \/ /\ part = "slides" /\ Slides!Init
       /\ WithoutSummary /\ WithoutRoute /\ WithoutLane /\ WithoutFetch /\ WithoutFilm
       /\ WithoutCut /\ WithoutJob /\ WithoutLimit
    \/ /\ part = "summary" /\ Summary!Init
       /\ WithoutSlide /\ WithoutRoute /\ WithoutLane /\ WithoutFetch /\ WithoutFilm
       /\ WithoutCut /\ WithoutJob /\ WithoutLimit
    \/ /\ part = "route" /\ Routes!Init
       /\ WithoutSlide /\ WithoutSummary /\ WithoutLane /\ WithoutFetch /\ WithoutFilm
       /\ WithoutCut /\ WithoutJob /\ WithoutLimit
    \/ /\ part = "lanes" /\ Sidecars!Init
       /\ WithoutSlide /\ WithoutSummary /\ WithoutRoute /\ WithoutFetch /\ WithoutFilm
       /\ WithoutCut /\ WithoutJob /\ WithoutLimit
    \/ /\ part = "fetch" /\ Fetching!Init
       /\ WithoutSlide /\ WithoutSummary /\ WithoutRoute /\ WithoutLane /\ WithoutFilm
       /\ WithoutCut /\ WithoutJob /\ WithoutLimit
    \/ /\ part = "film" /\ Films!Init
       /\ WithoutSlide /\ WithoutSummary /\ WithoutRoute /\ WithoutLane /\ WithoutFetch
       /\ WithoutCut /\ WithoutJob /\ WithoutLimit
    \/ /\ part = "cut" /\ Cut!Init
       /\ WithoutSlide /\ WithoutSummary /\ WithoutRoute /\ WithoutLane
       /\ WithoutFetch /\ WithoutFilm /\ WithoutJob /\ WithoutLimit
    \/ /\ part = "jobs" /\ Taken!Init
       /\ WithoutSlide /\ WithoutSummary /\ WithoutRoute /\ WithoutLane
       /\ WithoutFetch /\ WithoutFilm /\ WithoutCut /\ WithoutLimit
    \/ /\ part = "limit" /\ Limited!Init
       /\ WithoutSlide /\ WithoutSummary /\ WithoutRoute /\ WithoutLane
       /\ WithoutFetch /\ WithoutFilm /\ WithoutCut /\ WithoutJob

Next ==
    \/ /\ part = "slides" /\ Slides!Next
       /\ UNCHANGED <<part, summaryVars, routeVars, laneVars, fetchVars, filmVars, cutVars, jobVars, limitVars>>
    \/ /\ part = "summary" /\ Summary!Next
       /\ UNCHANGED <<part, slideVars, routeVars, laneVars, fetchVars, filmVars, cutVars, jobVars, limitVars>>
    \/ /\ part = "route" /\ Routes!Next
       /\ UNCHANGED <<part, slideVars, summaryVars, laneVars, fetchVars, filmVars, cutVars, jobVars, limitVars>>
    \/ /\ part = "lanes" /\ Sidecars!Next
       /\ UNCHANGED <<part, slideVars, summaryVars, routeVars, fetchVars, filmVars, cutVars, jobVars, limitVars>>
    \/ /\ part = "fetch" /\ Fetching!Next
       /\ UNCHANGED <<part, slideVars, summaryVars, routeVars, laneVars, filmVars, cutVars, jobVars, limitVars>>
    \/ /\ part = "film" /\ Films!Next
       /\ UNCHANGED <<part, slideVars, summaryVars, routeVars, laneVars, fetchVars, cutVars, jobVars, limitVars>>
    \/ /\ part = "cut" /\ Cut!Next
       /\ UNCHANGED <<part, slideVars, summaryVars, routeVars, laneVars, fetchVars, filmVars, jobVars, limitVars>>
    \/ /\ part = "jobs" /\ Taken!Next
       /\ UNCHANGED <<part, slideVars, summaryVars, routeVars, laneVars, fetchVars, filmVars, cutVars, limitVars>>
    \/ /\ part = "limit" /\ Limited!Next
       /\ UNCHANGED <<part, slideVars, summaryVars, routeVars, laneVars, fetchVars, filmVars, cutVars, jobVars>>

vars == <<part, slideVars, summaryVars, routeVars, laneVars, fetchVars, filmVars, cutVars, jobVars, limitVars>>

Spec == Init /\ [][Next]_vars

---------------------------------------------------------------------------------
(* The properties of the components, each stated where its component is *)

\* The notes of the scan are in the order of their times.
InOrder == part = "slides" => Slides!InOrder
\* Slides divide the time a slide is shown.
SlidesPartition == part = "slides" => Slides!SlidesPartition
\* No ambiguous transition is left without a label.
AllLabelled == part = "slides" => Slides!AllLabelled
\* No reasoning of the model gets into the document.
NoReasoning == part = "summary" => Summary!NoReasoning
\* The fallback loses no line and no image.
FallbackKeepsAll == part = "summary" => Summary!FallbackKeepsAll
\* Sections of an analysis in good order divide the transcript.
SectionsPartition == part = "summary" => Summary!SectionsPartition
\* A task is routed to a model that is loaded and can do it.
RouteSound == part = "route" => Routes!RouteSound
\* No better or local model is passed over.
NonePassedOver == part = "route" => Routes!NonePassedOver
\* No lane is leased that has not served lately.
DeadLaneRefused == [][part = "lanes" => Sidecars!LeasesServed]_vars
\* A job for itself in the shared directories gets its own video's text.
TextIsOwn == part = "fetch" => Fetching!TextIsOwn
\* A film that has been answered with is not taken away again.
FilmStays == part = "film" => Films!FilmStays
\* Segments say what the captions said.
SegmentsSayAll == part = "cut" => Cut!SegmentsSayAll
\* Segments follow one another in time.
SegmentsInTime == part = "cut" => Cut!SegmentsInTime
\* Chapters stand where they begin.
ChaptersInPlace == part = "cut" => Cut!ChaptersInPlace
\* No video is taken in twice, unless two have looked at one time.
OncePerVideo == part = "jobs" => Taken!OncePerVideo
\* At most twice the limit is let in within any window.
TwiceAtMost == part = "limit" => Limited!TwiceAtMost
=================================================================================
