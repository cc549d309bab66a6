\* A second run of minitask after the generator has begun.
SPECIFICATION Spec
CONSTANTS
    Task <- MCTask
    NumVars = 2
    SysNames = {3}
    Outlines <- MCOutlines
    WritesMayFail = FALSE
    Generates = TRUE
    Resume = TRUE
    Required <- MCRequired
    NoFile = NoFile
    Torn = Torn
    MaxRuns = 3
    MaxCopies = 1
INVARIANT GivenOnce
CHECK_DEADLOCK FALSE
