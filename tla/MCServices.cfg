SPECIFICATION Spec
CONSTANTS
  None = None  e1 = e1  e2 = e2  e3 = e3  n1 = n1  n2 = n2  x = x  y = y  c = c  d = d
  lane = lane  j1 = j1  j2 = j2  v = v  vv = vv  u = u  o = o  en = en  fr = fr
  i0 = i0  i1 = i1  i2 = i2  i3 = i3  i4 = i4  a = a  b = b  title = title
\* SlideDetection
  Layouts = {left, right}  NoSlide = NoSlide  Samples = 5  Debounce = 2  MinDuration = 8
  Durations = {11, 17}  BatchSize = 2  Concurrency = 2  Speech <- MCSpeech
\* SummaryText
  Transcripts <- MCTranscripts  SnapshotSets <- MCSnapshotSets
  Analyses <- MCAnalyses  Replies <- MCReplies
\* LlmRoute
  Refused = Refused  NoModel = NoModel  Endpoints = {e1, e2, e3}  Managed = {e1}
  Models = {x, y}  Home <- MCHome  Manifests <- MCManifests  Requests <- MCRequests
  Owners <- MCOwners  MaxChanges = 1
\* Telemetry
  Lanes = {lane}  Workers = {w}  Api = Api  Configs <- MCConfigs
  LocalTTL = 1  Stale = 1  RedisTTL = 2  MaxRestarts = 1
\* Fetch
  Jobs = {j1, j2}  Videos = {v, vv, u, o}  Plans <- MCPlans  Langs = {en, fr}  LangOf <- MCLangOf
  Native = {u}  Tracks <- MCTracks  Names = {i0, i1, i2, i3, i4}  Id <- MCId  File <- MCFile
  Like <- MCLike  MaxDeaths = 1
\* Download
  Deliveries = {w1, w2}  MaxAttempts = 3
\* TranscriptText
  Blank = Blank  Title = title  Meta = {b}  Files <- MCFiles  Spoken <- MCSpoken
  ChapterSets <- MCChapterSets  Length <- MCLength  MaxLength = 10
\* Intake
  Users = {u1, u2}  Sources = {v}  Clients = {r1, r2}  Tasks = {t1}
\* RateLimit
  Callers = {q1, q2}  Limit = 2  Window = 2  MaxCount = 4
CHECK_DEADLOCK FALSE
INVARIANTS InOrder SlidesPartition AllLabelled
INVARIANTS NoReasoning FallbackKeepsAll SectionsPartition
INVARIANTS RouteSound NonePassedOver
INVARIANTS TextIsOwn FilmStays
INVARIANTS  SegmentsInTime ChaptersInPlace
INVARIANTS OncePerVideo TwiceAtMost
PROPERTIES DeadLaneRefused
