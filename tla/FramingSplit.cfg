SPECIFICATION Spec
CONSTANTS
    HeaderSize = 18
    Sizes = {1, 6}
    Garbage <- MCGarbage
    MaxPackets = 3
    WholePacketsArrive = FALSE
CHECK_DEADLOCK FALSE
INVARIANT PacketsWhole
