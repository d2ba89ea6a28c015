CONSTANTS
    Calls = {c1, c2}
    Urgent = {c2}
    MaxSockets = 2
    MaxInFlight = 1
    MaxPendingPerClient = 1
    MaxPending = 2
    Timed = {c2}
    None = None
    PageFaults = {"closing", "overlap"}
    Priority <- MCPriority
SPECIFICATION FairSpec
CHECK_DEADLOCK FALSE
INVARIANTS
    CountsAreExact
    LiveCallsAreTracked
PROPERTIES
    AbandonedRequestsEnd
    LiveCallsSettle
