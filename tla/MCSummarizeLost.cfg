SPECIFICATION Spec
CONSTANTS
    i1 = i1
    i2 = i2
    None = None
    Orphan = Orphan
    Busy = Busy
    Ids <- MCIds
    MaxGen = 2
    MaxRows = 2
    MaxDocs = 1
    MaxRetries = 0
    Asks = {"summarize", "force"}
    Scenarios <- Calm
SYMMETRY Alike
CHECK_DEADLOCK FALSE
INVARIANTS Driven
