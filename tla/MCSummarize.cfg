SPECIFICATION Spec
CONSTANTS
    i1 = i1
    i2 = i2
    None = None
    Orphan = Orphan
    Busy = Busy
    Ids <- MCIds
    MaxGen = 2
    MaxRows = 2
    MaxDocs = 2
    MaxRetries = 1
    Asks = {"summarize", "force", "retry", "cancel"}
    Scenarios <- Hard
SYMMETRY Alike
CHECK_DEADLOCK FALSE
INVARIANTS TypeOK PublishedWithStep
PROPERTIES ImplementsLatestWins CancelStands
