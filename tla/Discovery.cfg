SPECIFICATION FairSpec
CONSTANTS
    Others = {p1, p2}
    NoPeer = NoPeer
    Lists = {l1, l2, l3}
    NoList = NoList
    MaxPeerJoins = 1
CHECK_DEADLOCK FALSE
INVARIANTS
    NoDuplicateEntries
    ReconnectsBounded
PROPERTIES
    PeerStaysKnown
    FirstPeerWired
