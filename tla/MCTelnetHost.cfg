SPECIFICATION MCSpec
CONSTANTS
    Lus = 2
    NonTn3270e = FALSE
    BsdTm = FALSE
    Option = {"EOR", "ECHO", "TN3270E"}
    FunctionSets = {}
    TlsFirst = TRUE
    HostFunctions = {"BIND_IMAGE", "SYSREQ", "SCS_CTL_CODES"}
    Accepted = {"EOR", "TN3270E"}
    MaxStarts = 4
    Rows = 2
    Cols = 6
    Graphic = {"a", "space", "^", "C"}
    Key = {"a", "space", "intr", "erase", "kill", "werase", "rprnt", "eof", "lnext", "cr", "tab"}
    BUFSZ = 4
    MaxEvents = 6
INVARIANTS Agreement EchoMatches
PROPERTIES Settles
CHECK_DEADLOCK FALSE
