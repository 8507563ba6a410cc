CONSTANTS
    Behind = 170
    Tables <- ListTables
    Partial = {}
    Posthdrs = {27}
    InitRows = 1
    MaxRows = 1
SPECIFICATION Spec
INVARIANTS EveryRowAsWritten
CHECK_DEADLOCK FALSE
