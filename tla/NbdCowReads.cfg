SPECIFICATION Spec
CONSTANTS
    ExportSize = 8
    HunkSize = 8
    FileLimit = 8
    PageSize = 2
    BufSize = 4
    ReplySize = 1
    ReadOnlyModes = {FALSE}
    CopyOnWrite = TRUE
    Timeout = FALSE
    Requests <- CowWideRequests
    MaxRequests = 3
    MaxPending = 1
    MaxFaults = 0
INVARIANTS
    ReadsCurrent
\* a connection ends
CHECK_DEADLOCK FALSE
