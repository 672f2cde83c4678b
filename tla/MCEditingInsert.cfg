SPECIFICATION Spec
CONSTANTS
    Rows = 2
    Cols = 3
    Graphic = {"a"}
    Writes <- MCWrites
    InsertAcross = TRUE
    MaxEdits = 3
PROPERTIES InsertionShifts
