SPECIFICATION Spec
CHECK_DEADLOCK FALSE
CONSTANTS
    Files <- MCFiles
    NoFile = NoFile
    PosMod = 1000
    Logs <- FileLogs
    Source = "file"
    AppSaves = FALSE
    ValidStartOnly = TRUE
    MaxIndex = 0
    MaxStart = 4
    MaxRestarts = 2
    MaxLosses = 0
INVARIANT CheckpointRight
PROPERTY ExactlyOnce
