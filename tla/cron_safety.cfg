CONSTANTS
    Projects = {p1}
    Jobs = {j1}
    ProjectOf <- MCProjectOf
    Runs = {e1, e2, e3}
    Faults = {"slow_import", "slow_inventory"}
SPECIFICATION Spec
SYMMETRY Symmetry
CHECK_DEADLOCK FALSE
INVARIANTS
    TypeOK
    OneRunPerJob
    RegistrationsFollowRows
PROPERTIES
    FiresAreHonoured
