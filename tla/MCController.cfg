SPECIFICATION Spec
CONSTANTS
    Rows = 2
    Cols = 2
    Graphic = {"a"}
    FieldKinds <- MCFieldKinds
INVARIANTS ScreenConsistent ReadBufferRestores
PROPERTIES EraseLeavesProtected
