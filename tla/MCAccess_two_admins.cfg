SPECIFICATION Spec
CONSTANTS
    u1 = u1
    r1 = r1
    r2 = r2
    b1 = b1
    b2 = b2
    NoClient = NoClient
    NoCache = NoCache
    NoAnswer = NoAnswer
    Ack = Ack
    NoRequest = NoRequest
    NoUser = NoUser
    Users = {u1}
    Reviewers = {}
    Banners = {b1, b2}
    Tasks = {u1, b1, b2}
    Modes <- MCModes
    Initial <- MCCustomers
    LateWrites = FALSE
    FailAt = {}
    MaxInvites = 1
    MaxActs = 1
CHECK_DEADLOCK FALSE
INVARIANTS
    BannedIsOff
