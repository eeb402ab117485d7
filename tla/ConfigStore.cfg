SPECIFICATION FairSpec
CONSTANTS
    web = web
    console = console
    hosts = hosts
    netcfg = netcfg
    old = old
    new = new
    None = None
    Sessions <- MCSessions
    Web <- MCWeb
    Files <- MCFiles
    Values <- MCValues
    Defaults <- MCDefaults
    BlocksOf <- BlockPerFile
    Slots = 2
    MaxEdits = 1
    MaxRuns = 3
    MaxFaults = 1
    MaxCrashes = 1
INVARIANTS
    Durable
PROPERTIES
    BootRestores
    SaveReboots
    StartRestores
\* nothing need happen to a system that is up
CHECK_DEADLOCK FALSE
