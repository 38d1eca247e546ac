SPECIFICATION Spec
CONSTANTS
    u1 = u1
    t1 = t1
    t2 = t2
    Users = {u1}
    Tasks = {t1, t2}
    Readers = {}
    NoClient = NoClient
    NoCache = NoCache
    NoAnswer = NoAnswer
    Ack = Ack
    NoRequest = NoRequest
    LateWrites = TRUE
    FailAt = {"write"}
    Initial <- MCLive
    Requests <- MCGrantsAndFreezes
    MaxCalls = 2
    MaxNow = 1
SYMMETRY MCSymmetry
CHECK_DEADLOCK FALSE
PROPERTIES
    GrantsKept
