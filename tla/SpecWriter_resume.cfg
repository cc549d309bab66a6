\* Crashes, failed writes and restarts; the agent may leave out what it was asked, and claim validity.
SPECIFICATION FairSpec
CONSTANTS
    Names <- MCNames
    Kind <- MCKind
    Task <- MCTask
    SyzNames = {4, 6}
    Outlines <- MCOutlines
    Answers <- MCFewAnswers
    FixExtras = {}
    Complete = FALSE
    MaxIter = 6
    MaxRetry = 1
    Resume = TRUE
    Nil = Nil
    Missing = Missing
    Torn = Torn
    WriteErrors = TRUE
    TornWrites = TRUE
    MaxLaunches = 2
    MaxDup = 1
INVARIANTS TypeOK ValidIsPoolsOrClaimed GenerateFindsTask
PROPERTIES ValidElementsStay ReusedStaysOut EntryEnds
CHECK_DEADLOCK FALSE
