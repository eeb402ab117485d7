SPECIFICATION Spec
CONSTANTS
    ExportSize = 3
    HunkSize = 4
    FileLimit = 4
    PageSize = 1
    BufSize = 3
    ReplySize = 1
    ReadOnlyModes = {TRUE}
    CopyOnWrite = FALSE
    Timeout = FALSE
    Requests <- ReadOnlyRequests
    MaxRequests = 2
    MaxPending = 2
    MaxFaults = 1
INVARIANTS
    ConnectionStaysUp
\* a connection ends
CHECK_DEADLOCK FALSE
