SPECIFICATION Spec
CONSTANTS
    Calls = {c1, c2}
    Capacity = 1
    Limit = 1
    MaxMemory = 2
    Interval = 1
    StuckExit = 2
    Watched = TRUE
    MaxJobs = 1
    Readers = {"poll"}
    NoReading = NoReading
CHECK_DEADLOCK FALSE
INVARIANTS TypeOK ExitTakesLastingTrouble
PROPERTIES MemoryComesBack WedgedServerExits
