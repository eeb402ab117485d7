SPECIFICATION FairSpec
CONSTANTS
    ExportSize = 3
    HunkSize = 4
    FileLimit = 4
    PageSize = 1
    BufSize = 2
    ReplySize = 1
    ReadOnlyModes = {FALSE, TRUE}
    CopyOnWrite = FALSE
    Timeout = TRUE
    Requests <- PlainRequests
    MaxRequests = 3
    MaxPending = 2
    MaxFaults = 1
INVARIANTS
    TypeOK
    CacheExact
    ReadsCurrent
    AnswersInOrder
PROPERTIES
    Answered
    EndsWithClient
\* a connection ends
CHECK_DEADLOCK FALSE
