CONSTANTS
    Projects = {p1}
    Jobs = {j1}
    ProjectOf <- MCProjectOf
    Runs = {e1, e2}
    Faults = {"slow_inventory", "slow_import", "project_deletion", "sqlite_busy",
              "clock_back"}
SPECIFICATION FairSpec
CHECK_DEADLOCK FALSE
PROPERTIES
    RecordsAreTruthful
    RecordsAreFinal
    ClaimedRunsEnd
