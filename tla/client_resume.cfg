SPECIFICATION FairSpec
CHECK_DEADLOCK FALSE
CONSTANTS
    Files <- MCFiles
    NoFile = NoFile
    PosMod = 1000
    Logs <- ResumeLogs
    Source = "mysql"
    AppSaves = TRUE
    ValidStartOnly = TRUE
    MaxIndex = 3
    MaxStart = 999
    MaxRestarts = 2
    MaxLosses = 2
INVARIANTS TypeOK BufferFits Ownership CheckpointRight
PROPERTIES ExactlyOnce LossEndsFetch AllDelivered
