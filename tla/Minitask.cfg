\* Interruptions, writes that fail unnoticed, and the generator between two runs.
SPECIFICATION Spec
CONSTANTS
    Task <- MCTask
    NumVars = 2
    SysNames = {3}
    Outlines <- MCOutlines
    WritesMayFail = TRUE
    Generates = TRUE
    Resume = FALSE
    Required <- MCRequired
    NoFile = NoFile
    Torn = Torn
    MaxRuns = 2
    MaxCopies = 1
INVARIANTS TypeOK NoSyscallDropped
PROPERTIES NoSyscallWrittenTwice
CHECK_DEADLOCK FALSE
