SPECIFICATION FairSpec
CONSTANTS
    HeaderSize = 18
    Sizes = {1, 6, 40}
    Garbage <- MCGarbage
    MaxPackets = 4
    WholePacketsArrive = TRUE
CHECK_DEADLOCK FALSE
PROPERTIES
    ImplementsChannel
    CloseNoticed
