SPECIFICATION FairSpec
CONSTANTS
    Clients = {c1, c2}
    NoClient = NoClient
    Keys = {k1, k2}
    NoKey = NoKey
    MaxQueue = 1
CHECK_DEADLOCK FALSE
INVARIANTS
    KeyNeverInClear
    EncryptedIsReadable
PROPERTIES
    ImplementsKeyAgreement
    ServedClientAuthenticates
    ServerLeavesClosedClient
