SPECIFICATION Spec
CONSTANTS
    MaxEntries = 7
    QueueBound = 2
    BufferBound = 2
    MaxSize = 2
    Keep = 2
    MaxFlushes = 0
    MaxRemovals = 0
    MaxErrors = 0
    MaxFailures = 1
    None = None
    Away = Away
CHECK_DEADLOCK FALSE
INVARIANTS RotatedFilesAreKept
