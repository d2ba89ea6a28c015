CONSTANTS
    Tasks = {t1, t2, t3, t4}
    maxConcurrent = 2
SPECIFICATION FairLimitSpec
CHECK_DEADLOCK FALSE
INVARIANTS
    SlotsAreCounted
PROPERTIES
    AbortedNeverStart
    EveryTaskSettles
