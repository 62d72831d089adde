SPECIFICATION Spec
CHECK_DEADLOCK FALSE
CONSTANTS
    WordBits = 3
    MaxCalls = 2
    Documents <- MCDocuments
    Values <- MCValues
    Pointers <- MCPointers
    Keys <- MCKeys
    Patches <- MCPatches
INVARIANTS
    PointersAgree
    MergesCombine
    DiffLeadsThere
    Ordered
PROPERTIES
    RefusedKeeps
    OperationsTakeBack
