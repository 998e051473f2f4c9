SPECIFICATION Spec
CONSTANTS
    Request = {r1}
    Policies = {p1, p2}
    Names <- MCNames
    TokenTypes = {"service", "batch"}
    Repos <- AllRepos
    AdvertiseAddr = TRUE
    Faults = {"mint"}
INVARIANTS
    BrokerInv
    RevokedByOutcome
    ServedOnlyIfEntitled
    RefusedWithReason
