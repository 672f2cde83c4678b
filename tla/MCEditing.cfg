SPECIFICATION Spec
CONSTANTS
    Rows = 2
    Cols = 3
    Graphic = {"a"}
    Writes <- MCWrites
    InsertAcross = FALSE
    MaxEdits = 3
PROPERTIES ProtectedKept EditsReachHost FieldsShift
