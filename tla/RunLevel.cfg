SPECIFICATION FairSpec
CONSTANTS
  Configs <- SomeConfigs
  Offers <- SomeOffers
  Levels = {2, 3}
  MaxEdits = 1
  MaxRuns = 1
  MaxEvents = 1
\* an access point that is up may have nothing left to do
CHECK_DEADLOCK FALSE
INVARIANTS
  SingleStops
PROPERTIES
  SingleKeepsAddress
  ComesUp
  WatchReboots
