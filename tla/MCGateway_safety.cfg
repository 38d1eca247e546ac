SPECIFICATION Spec
CONSTANTS
    u1 = u1
    t1 = t1
    t2 = t2
    t3 = t3
    Users = {u1}
    Tasks = {t1, t2, t3}
    Readers = {t1, t2, t3}
    NoClient = NoClient
    NoCache = NoCache
    NoAnswer = NoAnswer
    Ack = Ack
    NoRequest = NoRequest
    LateWrites = FALSE
    FailAt = {"fetch", "read", "add", "write", "verify"}
    Initial <- MCInitial
    Requests <- MCEveryWrite
    MaxCalls = 1
    MaxNow = 2
SYMMETRY MCSymmetry
CHECK_DEADLOCK FALSE
INVARIANTS
    TypeOK
    LockInv
    ReadIsCurrent
    NoLostUpdate
PROPERTIES
    NoSilentSuccess
    CallsAreAtomic
    GrantsKept
