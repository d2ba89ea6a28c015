CONSTANTS
    Threads = {t1}
    Projects = {p1}
    Turns = {u1, u2}
    NoTurn = NoTurn
    ProjectOf <- MCProjectOf
    Faults = {"sqlite_busy"}
SPECIFICATION Spec
CHECK_DEADLOCK FALSE
INVARIANT SingleTurn
