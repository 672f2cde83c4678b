SPECIFICATION Spec
CONSTANTS
    Timer = {t1, t2}
    Input = {i1, i2}
    What = {"read", "except"}
    Null = Null
    MaxTime = 2
    MaxDepth = 3
    MaxChanges = 3
INVARIANTS ListsConsistent
PROPERTIES KeepsTimers TimersFire
CHECK_DEADLOCK FALSE
