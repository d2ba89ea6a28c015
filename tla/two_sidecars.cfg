CONSTANTS
    Tasks = {t1, t2}
    Procs = {s1, s2}
    Versions = {v1}
    CrashThreshold = 2
    MaxRequests = 2
    None = None
SPECIFICATION Spec
CHECK_DEADLOCK FALSE
INVARIANTS
    OneSidecar
