SPECIFICATION Spec
CONSTANTS
    Regions <- MCRegions
    ConfigStart = 10
    ConfigLen = 2
    Requests <- MCRequests
    MaxFaults = 1
INVARIANTS
    SavedConfigSurvives
\* update ends
CHECK_DEADLOCK FALSE
