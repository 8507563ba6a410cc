SPECIFICATION Spec
CHECK_DEADLOCK FALSE
CONSTANTS
    Files <- MCFiles
    NoFile = NoFile
    PosMod = 1000
    Logs <- TwoFileLogs
    Source = "mysql"
    AppSaves = FALSE
    ValidStartOnly = FALSE
    MaxIndex = 3
    MaxStart = 999
    MaxRestarts = 0
    MaxLosses = 0
INVARIANT ImpossibleIndexReported
