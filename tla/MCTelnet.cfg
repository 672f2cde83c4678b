SPECIFICATION Spec
CONSTANTS
    Lus = 1
    NonTn3270e = FALSE
    BsdTm = FALSE
    Option = {"BINARY", "EOR", "TTYPE", "ECHO", "TN3270E", "STARTTLS"}
    FunctionSets <- Nested
    TlsFirst = TRUE
INVARIANTS SessionConsistent
PROPERTIES OneAnswer
