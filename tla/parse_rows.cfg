CONSTANTS
    Behind = 170
    Tables <- MCTables
    Partial <- MCPartial
    Posthdrs = {27, 35}
    InitRows = 1
    MaxRows = 2
SPECIFICATION Spec
INVARIANTS TypeOK ArraysFit TableAsWritten LengthsDecoded CursorOnRow RowsAsWritten HeapExact
CHECK_DEADLOCK FALSE
