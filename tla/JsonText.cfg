SPECIFICATION Spec
CONSTANTS
    Inputs <- MCInputs
    MaxTokens = 3
    MaxUnsigned = 16383
    MaxInteger = 8191
    Strings <- MCStrings
    Numbers <- MCNumbers
    Floats <- MCFloats
    BufferSize = 16
    MinExp <- MCMinExp
    MaxExp = 3
CHECK_DEADLOCK FALSE
INVARIANTS
    TokensScanned
    BufferHolds
    ScansBack
