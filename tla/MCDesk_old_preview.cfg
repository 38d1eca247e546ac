SPECIFICATION Spec
CONSTANTS
    l1 = l1
    l2 = l2
    u1 = u1
    u2 = u2
    x1 = x1
    x2 = x2
    k1 = k1
    k2 = k2
    new = new
    del = del
    v1 = v1
    v2 = v2
    a1 = a1
    Accounts = {a1}
    Users = {u1, u2}
    Texts = {x1, x2}
    Loops = {l1, l2}
    Tokens = {k1, k2}
    Actions = {v1, v2, new, del}
    BankDetails = {v1, v2}
    Newlink = new
    ProgressEvery = 2
    NoCard = NoCard
    Nobody = Nobody
    NoText = NoText
    NoLoop = NoLoop
    NoBank = NoBank
    NoClient = NoClient
CONSTRAINT MCBound
SYMMETRY MCAlike
CHECK_DEADLOCK FALSE
INVARIANT SentAsPreviewed
