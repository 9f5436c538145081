SPECIFICATION FairSpec
CONSTANTS
    i1 = i1
    i2 = i2
    i3 = i3
    None = None
    Orphan = Orphan
    Ids <- MCIds
    Modes = {"captions", "snapshots", "slides", "both"}
    Faults = {"timeout"}
    Retried = {"download", "snapshots", "slides"}
    Overruns = FALSE
CHECK_DEADLOCK FALSE
PROPERTIES Ends
