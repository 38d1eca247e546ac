SPECIFICATION Spec
CONSTANTS
    r1 = r1
    r2 = r2
    payer = payer
    boot = boot
    Staff = {r1, r2}
    Payer = payer
    Boot = boot
    NoMessage = NoMessage
    MaxMessages = 2
    MaxCrash = 1
SYMMETRY MCStaff
CHECK_DEADLOCK FALSE
INVARIANTS
    TypeOK
    CardsTellTheTruth
    RetryIsHeld
    ToldTheTruth
