SPECIFICATION FairSpec
CONSTANTS
    Clients = {c1, c2}
    Keys = {k1, k2}
    NoKey = NoKey
    ServerRSA = ServerRSA
    ClientRSA = ClientRSA
CHECK_DEADLOCK FALSE
INVARIANTS
    SecretSealed
    NoHalfOpen
PROPERTIES
    ImplementsKeyAgreement
    BothAuthorize
