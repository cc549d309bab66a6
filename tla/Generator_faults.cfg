\* Two workers that may fail to set up, fail on an entry, or leave early.
SPECIFICATION Spec
CONSTANTS
    Configs <- MCConfigs
    Database <- MCDatabase
    Cwd = "/"
    Blank = Blank
    NoComma = NoComma
    MaxJobs = 3
    Finished = {"proto"}
    SetupMayFail = TRUE
    RestoreMayFail = TRUE
    NoEntry = NoEntry
INVARIANTS TypeOK EntryConserved FailedWriteReported ReportedIsWritten OneResultEach NoSendAfterClose InstancesRemoved
PROPERTIES MainCompletes
CHECK_DEADLOCK FALSE
