SPECIFICATION Spec
CONSTANTS
    u1 = u1
    r1 = r1
    r2 = r2
    b1 = b1
    b2 = b2
    NoClient = NoClient
    NoCache = NoCache
    NoAnswer = NoAnswer
    Ack = Ack
    NoRequest = NoRequest
    NoUser = NoUser
    Users = {u1}
    Reviewers = {r1, r2}
    Banners = {b1, b2}
    Tasks = {u1, r1, r2, b1, b2}
    Modes <- MCModes
    Initial <- MCAnybody
    LateWrites = TRUE
    FailAt = {"fetch", "read", "add", "write", "verify"}
    MaxInvites = 1
    MaxActs = 2
CHECK_DEADLOCK FALSE
CONSTRAINT MCFew
SYMMETRY MCStaff
INVARIANTS
    TypeOK
    BanIsCarriedOut
PROPERTIES
    RejectionStands
    NoneBecomesPerpetual
