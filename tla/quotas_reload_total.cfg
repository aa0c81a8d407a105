SPECIFICATION Spec
CONSTANTS
    k1 = k1 k2 = k2 k3 = k3 s1 = s1 s2 = s2
    Calls = {k1, k2}
    Sessions = {s1, s2}
    SessionOf <- OneCallerEach
    PerSession = 2
    Total = 3
    MaxHeld = 3
    FileSizes = {2}
    MayNotFinish = FALSE
    ReloadSets = {{k1, k2}}
CHECK_DEADLOCK FALSE
INVARIANT WithinQuotas
