SPECIFICATION Spec
CONSTANTS
    Lower <- MCLower
    Environments <- MCEnvironments
    Keys = {"k1", "k2"}
    Payloads <- MCPayloads
    Swaps <- MCSwaps
    Signings <- MCSignings
    DefaultWindow = 2
    MaxSkew = 1
    Second = 2
    MaxTime = 4
    MaxSigned = 1
    MaxBoots = 2
INVARIANTS
    AdmissionInv
    IdentityIsSigned
    ReplaysStayInWindow
    TimelyIsNeverRefused
    PoliciesSeparate
PROPERTIES
    BootIsUnambiguous
CHECK_DEADLOCK FALSE
