CONSTANTS
    MaxName = 256
    Lens <- MCLens
    HdrLen = 2
    BufSize = 4
    MaxEvents = 3
    Paths <- MCPaths
    Settings <- MCSettings
SPECIFICATION FairSpec
INVARIANTS TypeOK BufferDiscipline PathOpened
PROPERTIES InOrder WholeIsHanded
CHECK_DEADLOCK FALSE
