CONSTANTS
    Calls = {c1, c2, c3}
    MaxSessions = 1
    MaxInFlight = 2
    MaxQueuedWrites = 2
    None = None
SPECIFICATION FairSpec
CHECK_DEADLOCK FALSE
INVARIANTS
    PendingIsTracked
PROPERTIES
    DoomedSessionsEnd
