CONSTANTS
    Activities = {a1, a2}
    Readers = {r1, r2}
    MaxVersions = 2
    MaxTurns = 2
    None = None
SPECIFICATION FairSpec
CHECK_DEADLOCK FALSE
INVARIANTS
    CompletedTurnIsPersisted
    SettledReadsAreFresh
PROPERTIES
    ActivitiesLand
