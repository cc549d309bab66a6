\* One run, no crash, an agent that writes what it is asked: nothing is lost.
SPECIFICATION Spec
CONSTANTS
    Names <- MCNames
    Kind <- MCKind
    Task <- MCTask
    SyzNames = {6}
    Outlines <- MCOutlines
    Answers <- MCAnswers
    FixExtras = {5}
    Complete = TRUE
    MaxIter = 10
    MaxRetry = 2
    Resume = TRUE
    Nil = Nil
    Missing = Missing
    Torn = Torn
    WriteErrors = FALSE
    TornWrites = FALSE
    MaxLaunches = 1
    MaxDup = 2
INVARIANTS NothingForgotten CompCoversLedger
PROPERTIES AskedOnce
CHECK_DEADLOCK FALSE
