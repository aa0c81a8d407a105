SPECIFICATION Spec
CONSTANTS
    Ids = {i1, i2, i3}
    Creators = {w1}
    Callers = {c1}
    MaxSessions = 2
    Ttl = 1
    EvictIdle = 1
    MaxAge = 2
    NoId = NoId
CHECK_DEADLOCK FALSE
PROPERTY RunningSessionStays
