SPECIFICATION Spec
CONSTANTS
    i1 = i1
    i2 = i2
    i3 = i3
    None = None
    Orphan = Orphan
    Ids <- TwoIds
    Modes = {"captions", "snapshots", "both"}
    Faults = {"kill", "timeout", "gap", "redis", "duplicate", "error"}
    Retried = {"transcribe", "download", "snapshots", "slides"}
    Overruns = TRUE
SYMMETRY Alike
CHECK_DEADLOCK FALSE
PROPERTIES EndedIsFinal DoneOnce SettledByOwner
