CONSTANTS
    Inbox <- LinkTalkRefused
    UnverifiedLimit = 1
    MaxSources = 2
    MaxCrashes = 1
    Faults = {"poll", "reject", "render", "create", "send", "stop", "unbind", "delete", "expire"}
SPECIFICATION FairSpec
CHECK_DEADLOCK FALSE
INVARIANTS
    CursorCoversRecords
    OnlyLinkedUsers
    RecordsMatchTurns
    SourceStaysScheduled
PROPERTIES
    OneTurnEach
    EveryMessageAccounted
    VerifiedSettles
