SPECIFICATION FairSpec
CONSTANTS
    Regions <- MCRegions
    ConfigStart = 10
    ConfigLen = 2
    Requests <- MCRequests
    MaxFaults = 2
INVARIANTS
    TypeOK
    OutsideUntouched
    NeverMidErase
    ConfigKept
    CompleteImage
PROPERTIES
    Terminates
    NorDiscipline
\* update ends
CHECK_DEADLOCK FALSE
