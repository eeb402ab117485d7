SPECIFICATION FairSpec
CONSTANTS
    ExportSize = 4
    HunkSize = 2
    FileLimit = 2
    PageSize = 2
    BufSize = 4
    ReplySize = 1
    ReadOnlyModes = {FALSE}
    CopyOnWrite = TRUE
    Timeout = TRUE
    Requests <- CowRequests
    MaxRequests = 3
    MaxPending = 1
    MaxFaults = 1
INVARIANTS
    WrittenReadBack
    DiffMapSound
\* a connection ends
CHECK_DEADLOCK FALSE
