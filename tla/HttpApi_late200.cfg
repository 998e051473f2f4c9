SPECIFICATION ServerSpec
CONSTANTS
    Request = {r1, r2}
    Policies = {p1}
    Names = {"db_password"}
    TokenTypes = {"service", "batch"}
    Repos <- MCRepos
    AdvertiseAddr = FALSE
    Faults = {"revoke"}
INVARIANT
    Non200Revokes
