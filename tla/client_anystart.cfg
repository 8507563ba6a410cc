SPECIFICATION Spec
CHECK_DEADLOCK FALSE
CONSTANTS
    Files <- MCFiles
    NoFile = NoFile
    PosMod = 1000
    Logs <- OneFileLogs
    Source = "mysql"
    AppSaves = TRUE
    ValidStartOnly = FALSE
    MaxIndex = 4
    MaxStart = 999
    MaxRestarts = 2
    MaxLosses = 2
INVARIANTS ImpossibleIndexReported TableOfRow
