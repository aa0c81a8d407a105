SPECIFICATION Spec
CONSTANTS
    Calls = {c1, c2, c3}
    Sessions = {s1, s2, s3}
    Capacity = 2
    SessionConcurrency = 1
    MemoryLimited = TRUE
    HasDeadline = TRUE
    Endings = {"ok"}
SYMMETRY Symmetric
CHECK_DEADLOCK FALSE
INVARIANTS
    TypeOK PermitsConserved WorkBounded BooksBalance QueuesAreWaiters AbandonedWorkIsCancelled
PROPERTY KeepsPromise
