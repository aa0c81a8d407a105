SPECIFICATION Spec
CONSTANTS
    Callers = {c1, c2}
    Convs = {v1, v2, v3}
    Msgs = {m1, m2}
    Sizes = {1}
    TitleBytes = 1
    TitleSizes = {1, 2}
    Limit = 3
    MaxConvs = 2
    MaxMessages = 1
    MaxFaults = 1
    None = None
CHECK_DEADLOCK FALSE
INVARIANTS TypeOK BudgetKept CapsKept
PROPERTIES EveryCallEnds
