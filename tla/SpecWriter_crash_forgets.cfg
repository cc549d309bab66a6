\* A crash between two of the four files loses the task in hand.
SPECIFICATION Spec
CONSTANTS
    Names <- MCNames
    Kind <- MCKind
    Task <- MCTask
    SyzNames = {4, 6}
    Outlines <- MCOutlines
    Answers <- MCAnswers
    FixExtras = {}
    Complete = TRUE
    MaxIter = 6
    MaxRetry = 0
    Resume = TRUE
    Nil = Nil
    Missing = Missing
    Torn = Torn
    WriteErrors = FALSE
    TornWrites = FALSE
    MaxLaunches = 2
    MaxDup = 1
INVARIANTS NothingForgotten
CHECK_DEADLOCK FALSE
