SPECIFICATION Spec
CHECK_DEADLOCK FALSE
CONSTANTS
    Files <- MCFiles
    NoFile = NoFile
    PosMod = 1000
    Logs <- StackedLogs
    Source = "mysql"
    AppSaves = FALSE
    ValidStartOnly = TRUE
    MaxIndex = 0
    MaxStart = 999
    MaxRestarts = 0
    MaxLosses = 0
INVARIANT NoAbort
