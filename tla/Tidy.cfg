\* Up to three directories of specs/ and two files of sys/<os>; two writes may fail.
SPECIFICATION Spec
CONSTANTS
    Tokens <- MCTokens
    Inputs <- MCInputs
    SysFiles <- MCSysFiles
    MaxFails = 2
INVARIANTS TypeOK RefsFollow UsedKept
PROPERTIES TidyConverges
CHECK_DEADLOCK FALSE
