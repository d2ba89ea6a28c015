CONSTANTS
    Threads = {t1}
    Projects = {p1}
    Turns = {u1, u2}
    NoTurn = NoTurn
    ProjectOf <- MCProjectOf
    Faults = {"plugin_injection", "sqlite_busy", "slow_inventory", "clock_tie"}
SPECIFICATION FairSpec
CHECK_DEADLOCK FALSE
PROPERTIES
    AbortedTurnsSettle
    StoppedThreadsReopen
