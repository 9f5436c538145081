SPECIFICATION FairSpec
CONSTANTS
    j1 = j1
    j2 = j2
    j3 = j3
    u1 = u1
    u2 = u2
    Global = Global
    Jobs <- MCJobs
    Users <- MCUsers
    Owner <- MCOwner
    Pinned <- MCPinned
    s1 = s1
    s2 = s2
    Schedulers = {s1}
    Batch = 1
    GlobalLimits = {1}
    UserLimits = {0}
CHECK_DEADLOCK FALSE
PROPERTIES QueueMoves
