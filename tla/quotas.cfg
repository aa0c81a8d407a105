SPECIFICATION Spec
CONSTANTS
    k1 = k1 k2 = k2 k3 = k3 s1 = s1 s2 = s2
    Calls = {k1, k2, k3}
    Sessions = {s1, s2}
    SessionOf <- TwoInTheFirst
    PerSession = 2
    Total = 3
    MaxHeld = 3
    FileSizes = {2}
    MayNotFinish = TRUE
    ReloadSets = {{}, {k3}}
SYMMETRY SameSession
CHECK_DEADLOCK FALSE
INVARIANTS
    TypeOK CacheIsCurrent ToolCallsWithinQuotas UndoneLeavesNothing ReservationsBalance
    DecodingFits
