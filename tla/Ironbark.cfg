SPECIFICATION FairProcessSpec
CONSTANTS
    Request = {r1}
    Policies = {p1}
    Names = {"db_password"}
    TokenTypes = {"service", "batch"}
    Repos <- MCRepos
    AdvertiseAddr = FALSE
    Faults = {"mint", "read", "revoke"}
    Roles <- MCRoles
    OrphanExposed = TRUE
    MaxOutages = 1
    MaxRoleChanges = 1
    MaxExpiries = 1
INVARIANTS
    ProcessInv
    RepliesAreEarned
    CleanExitCutsOnlyAbandoned
PROPERTIES
    KeepsSession
    KeepsServer
    GatePassesVerified
    ShutdownEnds
    EveryRequestAnswered
CHECK_DEADLOCK FALSE
