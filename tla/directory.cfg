CONSTANTS
    Account = {"root", "ann"}
    Admin = "root"
    Risky = {"ann"}
    Pw = {p1, p2}
    SeedPw = p1
    NoHash = NoHash
    Statuses = {"active", "disabled"}
    Seeds <- MCSeeds
    Databases <- MCDatabases
    MaxRows = 3
    MaxCrash = 1
    MaxChanges = 1
SPECIFICATION Spec
CHECK_DEADLOCK FALSE
INVARIANTS
    ServesWhole
    TokenRoleIsStored
    ResetStands
PROPERTIES
    StartsSucceed
