SPECIFICATION Spec
CONSTANTS
    x1 = x1
    x2 = x2
    x3 = x3
    a = a
    b = b
    None = None
    Execs <- MCExecs
    Slots <- MCSlots
    Wanted <- MCWanted
    TTL = 1
    Quarantine = 1
    Request = 1
    MaxTime = 4
SYMMETRY Alike
CHECK_DEADLOCK FALSE
INVARIANTS TypeOK FencesUnique NoOvercommit
PROPERTIES OnlyOwnerOrExpiry
