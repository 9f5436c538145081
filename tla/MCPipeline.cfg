SPECIFICATION Spec
CONSTANTS
    i1 = i1
    i2 = i2
    i3 = i3
    None = None
    Orphan = Orphan
    Ids <- MCIds
    Modes = {"captions", "snapshots", "slides", "both"}
    Faults = {"kill", "timeout", "gap", "redis", "duplicate", "error"}
    Retried = {"transcribe", "download", "snapshots", "slides"}
    Overruns = FALSE
SYMMETRY Alike
CHECK_DEADLOCK FALSE
INVARIANTS TypeOK OneWorkerPerStep HeldWhileActive
PROPERTIES CompletedTruthfully NeverReopened
