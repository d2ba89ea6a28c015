CONSTANTS
    Tasks = {t1, t2}
    Procs = {s1, s2}
    Versions = {v1, v2}
    CrashThreshold = 2
    MaxRequests = 4
    None = None
SPECIFICATION Spec
SYMMETRY Symmetry
CHECK_DEADLOCK FALSE
INVARIANTS
    OnlyApprovedCode
    OneSidecarAlone
    FailedIsDown
PROPERTIES
    FailureSticks
