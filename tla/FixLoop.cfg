\* Two fix steps with one agent; a tool may go unheard, restoring the workdir may fail.
SPECIFICATION Spec
CONSTANTS
    Calls <- MCCalls
    Tools = {"func", "macro"}
    MaxCalls = 3
    MaxSame = 2
    MaxPerReply = 2
    Texts = {"unknown_const", "bad_type", "fixed"}
    Empty = Empty
    Extractable = {"bad_type", "fixed"}
    Good = {"fixed"}
    MaxFix = 2
    MayBeUnheard = TRUE
    RestoreMayFail = TRUE
    MaxSteps = 2
INVARIANTS TypeOK QueryIsWellFormed NoLongRepeat ValidWasChecked GoodNotRepaired
PROPERTIES FixEnds
CHECK_DEADLOCK FALSE
