SPECIFICATION ServicesSpec
CONSTANTS
    Ids = {i1, i2}
    Creators = {w1, w2}
    Callers = {c1, c2}
    MaxSessions = 1
    Ttl = 1
    EvictIdle = 1
    MaxAge = 2
    NoId = NoId
    Tools = {t1, t2}
    ChatSessions = 2
    MaxErases = 2
    MaxFaults = 1
    EventBound = 1
    MaxMessages = 3
    Sizes = {1, 2}
    MaxWaiting = 2
    MaxBytes = 2
    Capacity = 2
    MaxEntries = 5
    QueueBound = 2
    BufferBound = 2
    MaxSize = 2
    Keep = 1
    MaxFlushes = 1
    MaxRemovals = 1
    MaxErrors = 1
    MaxFailures = 1
    None = None
    Away = Away
CHECK_DEADLOCK FALSE
INVARIANTS
    TypesOK CapacityKept RemovalSentOnce ChatRowsAreClosed GoneSessionRunsNoTool
    AnswersInOrder LogIsSound
PROPERTIES
    IdleSessionLeaves ChatEnds EveryMessageAnswered EveryEntryWritten
