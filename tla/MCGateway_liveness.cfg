SPECIFICATION FairSpec
CONSTANTS
    u1 = u1
    t1 = t1
    t2 = t2
    t3 = t3
    Users = {u1}
    Tasks = {t1, t2, t3}
    Readers = {t1, t2, t3}
    NoClient = NoClient
    NoCache = NoCache
    NoAnswer = NoAnswer
    Ack = Ack
    NoRequest = NoRequest
    LateWrites = TRUE
    FailAt = {"fetch", "read", "add", "write", "verify"}
    Initial <- MCLive
    Requests <- MCGrantsAndFreezes
    MaxCalls = 1
    MaxNow = 1
CHECK_DEADLOCK FALSE
PROPERTIES
    EveryCallEnds
