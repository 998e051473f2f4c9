SPECIFICATION FairServerSpec
CONSTANTS
    Request = {r1, r2}
    Policies = {p1}
    Names = {"db_password"}
    TokenTypes = {"service", "batch"}
    Repos <- MCRepos
    AdvertiseAddr = FALSE
    Faults = {"revoke"}
INVARIANTS
    ServerInv
    RepliesAreEarned
    LiveTokensExplained
PROPERTIES
    KeepsBroker
    KeepsCustody
    SettlesCustody
    HandleReturns
