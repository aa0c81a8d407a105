SPECIFICATION Spec
CONSTANTS
    Ids = {i1}
    Convs = {v1}
    Clients = {c1}
    Ttl = 0
    EvictIdle = 1
    MaxAge = 1
    Channel = 1
    MaxFaults = 1
    None = None
CHECK_DEADLOCK FALSE
INVARIANT DepartedRowGoes
PROPERTIES LiveSessionGetsRow DepartedSessionIsForgotten
