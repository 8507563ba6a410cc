SPECIFICATION FairSpec
CHECK_DEADLOCK FALSE
CONSTANTS
    Bodies <- MCBodies
    Base = 3
    IntMax = 27
    BufSize = 8
    MaxPackets = 3
INVARIANTS TypeOK BufferDiscipline EndsForReason
PROPERTIES InOrder LossEndsRead ArrivedIsHanded
