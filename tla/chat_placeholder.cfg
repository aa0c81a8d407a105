SPECIFICATION Spec
CONSTANTS
    Tools = {t1, t2}
    MaxSessions = 2
    MaxErases = 2
    MaxFaults = 1
    EventBound = 1
    None = None
CHECK_DEADLOCK FALSE
INVARIANTS StoppedMessageIsMarked
