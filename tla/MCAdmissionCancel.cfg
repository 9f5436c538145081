SPECIFICATION Spec
CONSTANTS
    j1 = j1
    j2 = j2
    j3 = j3
    u1 = u1
    u2 = u2
    Global = Global
    Jobs <- MCJobs
    Users <- MCUsers
    Owner <- MCOwner
    Pinned <- MCPinned
    s1 = s1
    s2 = s2
    Schedulers <- MCSchedulers
    Batch = 2
    GlobalLimits = {0, 1}
    UserLimits = {1}
CHECK_DEADLOCK FALSE
PROPERTIES OnlyActiveIsCancelled
