SPECIFICATION Spec
CONSTANTS
    Calls = {c1, c2}
    Sessions = {s1, s2}
    Capacity = 1
    SessionConcurrency = 1
    MemoryLimited = TRUE
    HasDeadline = TRUE
    Endings = {"ok", "tool_error", "refused", "internal", "panic"}
CHECK_DEADLOCK FALSE
INVARIANTS OneAuditEntry AuditAgreesWithAnswer AnsweredHoldsNothing
PROPERTIES EveryCallAnswered AbandonedWorkEnds
