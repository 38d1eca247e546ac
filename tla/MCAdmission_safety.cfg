SPECIFICATION Spec
CONSTANTS
    banned = banned
    kept = kept
    new = new
    Users = {banned, kept, new}
    Listed = {banned}
    NoClient = NoClient
    Nobody = Nobody
    NoInvite = NoInvite
    InviteIds = {i1}
    UsesOptions = {0, 1}
    DaysOptions = {1}
    MaxUses = 2
    Initial <- MCPerpetual
    Modes = {"open", "approval", "invite_only"}
    MaxRuns = 2
    MaxActs = 3
    MaxToday = 1
CHECK_DEADLOCK FALSE
INVARIANTS
    TypeOK
    LegacyBansHold
    InviteHolds
PROPERTIES
    ImportIsGentle
