SPECIFICATION Spec
CONSTANTS
    u1 = u1
    u2 = u2
    r1 = r1
    r2 = r2
    e1 = e1
    p1 = p1
    p2 = p2
    NoClient = NoClient
    NoCache = NoCache
    NoAnswer = NoAnswer
    Ack = Ack
    NoRequest = NoRequest
    NoPayment = NoPayment
    Users = {u1}
    Reviewers = {r1, r2}
    Editors = {}
    Tasks = {u1, r1, r2}
    Payments = {p1}
    Owner <- MCOneOwner
    Days <- MCOneDay
    LateWrites = FALSE
    FailAt = {}
    InitialPanel <- MCLive
    EditorRequests <- MCNone
    MaxEdits = 1
    MaxCrash = 1
    MaxNow = 1
CHECK_DEADLOCK FALSE
INVARIANTS
    NoOverGrant
