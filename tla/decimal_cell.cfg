CONSTANTS
    DIG_PER_DEC1 = 2
    MaxPrecision = 5
    DigitValues = {0, 4, 9}
    Lens = {1, 2, 3, 128}
    ToLens = {16}
SPECIFICATION Spec
INVARIANTS TypeOK NothingLostSilently TextIsNumber
CHECK_DEADLOCK FALSE
