\* Every thread, row, commit and file may fail, on a new database and on an old one.
SPECIFICATION Spec
CONSTANTS
    Jobs = 2
    Files <- MCFiles
    TableNames <- MCTables
    Rows <- MCRows
    Earlier <- MCEarlier
    Unset = Unset
    NotFound = NotFound
    Glob <- MCGlob
    Garbled = Garbled
    ToolError = ToolError
INVARIANTS TypeOK RowsAreReal EverythingStored LookupsFind
PROPERTIES MainEnds LookupStable
CHECK_DEADLOCK FALSE
