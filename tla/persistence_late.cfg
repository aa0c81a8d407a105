SPECIFICATION Spec
CONSTANTS
    Ids = {i1}
    Convs = {v1}
    Clients = {c1, c2}
    Ttl = 8
    EvictIdle = 9
    MaxAge = 9
    Channel = 2
    MaxFaults = 0
    None = None
CHECK_DEADLOCK FALSE
INVARIANT NoRowComesBack
