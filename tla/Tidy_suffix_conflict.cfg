\* The specifications of two variables, and no write that fails.
SPECIFICATION Spec
CONSTANTS
    Tokens <- MCTokens
    Inputs <- ClashInputs
    SysFiles <- MCSysFiles
    MaxFails = 0
INVARIANT NamesDistinct
CHECK_DEADLOCK FALSE
