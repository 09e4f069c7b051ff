SPECIFICATION MCSpec
CONSTANTS
    d = d
    a = a
    Items = {d, a}
    Diffs = {d}
    Undated = {}
    Blank = {}
    Story <- MCStory
    EmbedLimit = 1
    MaxModelCalls = 1
    DiffReserve = 1
    SelectionDays = 0
    RejectionDays = 0
    RetentionDays = 1
    ClusterDays = 1
    PendingDays = 0
    MaxDay = 3
    MaxFaults = 1
INVARIANTS
    PipelineTypeOK
    JudgedOnce
    OneVerdict
PROPERTIES
    StoriesKept
    QueuedIsEmbedded
    
CHECK_DEADLOCK FALSE
