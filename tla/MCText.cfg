SPECIFICATION MCSpec
CONSTANTS
    Rows = 3
    Cols = 3
    Graphic = {"A", "B", "C", "D", "E", "F", "G", "H", "I", "x", "y"}
    Page <- MCPage
    Printed = {"x", "y"}
    Counts = {0, 1, 2, 3}
    MaxSequences = 4
    InsertAcross = TRUE
    MaxEdits = 1
CHECK_DEADLOCK FALSE
INVARIANTS PageKept TextArrives
PROPERTIES RegionKept
