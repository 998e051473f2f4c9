SPECIFICATION ProcessSpec
CONSTANTS
    Request = {r1}
    Policies = {p1}
    Names = {"db_password"}
    TokenTypes = {"service", "batch"}
    Repos <- MCRepos
    AdvertiseAddr = FALSE
    Faults = {"mint", "read", "revoke"}
    Roles <- MCRoles
    OrphanExposed = TRUE
    MaxOutages = 1
    MaxRoleChanges = 1
    MaxExpiries = 1
PROPERTY
    ReloginFailureStopsMints
CHECK_DEADLOCK FALSE
