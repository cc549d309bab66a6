\* A later fix turns an unchecked init_syscall of the Pool into a syscall.
SPECIFICATION Spec
CONSTANTS
    Names <- MCNames
    Kind <- MCKind
    Task <- MCTask
    SyzNames = {4, 6}
    Outlines <- MCOutlines
    Answers <- MCAnswers
    FixExtras = {}
    Complete = TRUE
    MaxIter = 8
    MaxRetry = 0
    Resume = TRUE
    Nil = Nil
    Missing = Missing
    Torn = Torn
    WriteErrors = FALSE
    TornWrites = FALSE
    MaxLaunches = 1
    MaxDup = 1
PROPERTIES InitSyscallStays
CHECK_DEADLOCK FALSE
