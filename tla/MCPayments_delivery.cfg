SPECIFICATION Spec
CONSTANTS
    u1 = u1
    u2 = u2
    r1 = r1
    r2 = r2
    e1 = e1
    p1 = p1
    p2 = p2
    NoClient = NoClient
    NoCache = NoCache
    NoAnswer = NoAnswer
    Ack = Ack
    NoRequest = NoRequest
    NoPayment = NoPayment
    Users = {u1, u2}
    Reviewers = {r1}
    Editors = {}
    Tasks = {u1, u2, r1}
    Payments = {p1, p2}
    Owner <- MCTwoOwners
    Days <- MCOneDay
    LateWrites = FALSE
    FailAt = {"read", "verify"}
    InitialPanel <- MCMixed
    EditorRequests <- MCNone
    MaxEdits = 1
    MaxCrash = 1
    MaxNow = 3
CHECK_DEADLOCK FALSE
INVARIANTS
    DaysDelivered
PROPERTIES
    AppliedIsLive
