SPECIFICATION Spec
CONSTANTS
    Keys = {1, 2}
    Scalars <- MCScalars
    Overflow <- MCOverflow
    Offered <- MCOffered
    MaxTokens = 10
    IndentSize = 2
    IndentStep = 2
    BytesKey = 1
    SubtypeKey = 2
    Documents <- MCDocuments
CHECK_DEADLOCK FALSE
INVARIANTS
    ParsesGrammar
    HandlersFollow
    DumpDenotes
    IndentFits
