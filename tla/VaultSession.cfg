SPECIFICATION FairSpec
CONSTANTS
    Roles <- MCRoles
    OrphanExposed = TRUE
    MaxOutages = 2
    MaxRoleChanges = 2
    MaxExpiries = 1
INVARIANTS
    SessionInv
    ReadyMeansVerified
    OpenGateSawGoodRole
PROPERTIES
    StrayOnlyIfIrrevocable
    BecomesReady
    StopIsObserved
CHECK_DEADLOCK FALSE
