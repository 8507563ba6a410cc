SPECIFICATION Spec
CHECK_DEADLOCK FALSE
CONSTANTS
    Bodies <- MCBodies
    Base = 3
    IntMax = 27
    BufSize = 8
    MaxPackets = 2
INVARIANT TornIsLost
