CONSTANTS
    Threads = {t1, t2}
    Projects = {p1}
    Turns = {u1, u2, u3}
    NoTurn = NoTurn
    ProjectOf <- MCProjectOf
    Faults = {"plugin_injection"}
SPECIFICATION Spec
SYMMETRY Symmetry
CHECK_DEADLOCK FALSE
INVARIANTS
    TypeOK
    SingleTurn
    StopIsAvailable
    PromptedRuntimeIsRegistered
    OrphansAreAwaited
    NoGhostTurn
PROPERTIES
    RecoveryKeepsSettlements
    ContractSpec
