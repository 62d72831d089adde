SPECIFICATION FairSpec
CONSTANTS
    test = test
    join = join
    long = long
    Datagrams = {test, join, long}
    Test = test
    Large = {long}
    Nothing = Nothing
    SenderId <- MCSenderId
    Packets <- MCPackets
    Payloads <- MCPayloads
CHECK_DEADLOCK FALSE
INVARIANTS
    NoSocketLeak
    AnnouncementsRead
PROPERTIES
    HandledOnce
