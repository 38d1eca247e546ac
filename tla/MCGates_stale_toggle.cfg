\* The owner toggles while an update of a customer is reading the flag.
CONSTANTS
    x1 = x1
    x2 = x2
    x3 = x3
    y1 = y1
    customer = customer
    owner = owner
    Tasks = {x1, x2, y1}
    From <- MCFrom
    Staff = {owner}
    Starts = {x1}
    Button <- MCButton
    Cycle <- MCCycle
    Maintenance = "maintenance_mode"
    CacheTTL = 2
    NoEntry = NoEntry
    LockTTL = 2
    RateWindow = 1
    RateLimit = 2
    None = None
    MaxNow = 5
    MaxOutside = 0
SYMMETRY MCAlike
CHECK_DEADLOCK FALSE
SPECIFICATION Spec
INVARIANT
    ToggleIsImmediate
