SPECIFICATION FairSpec
CONSTANTS
  CardSize = 12
  BlockSize = 4
  ReadBuf = 2
  Lengths = {3, 5}
  Starts = {0, 3, 9}
  MaxFaults = 1
  Releases = {"r1", "r2"}
  First = "r1"
  Vendor = "vendor"
  Attempts = 3
  MaxNew = 1
  MaxRuns = 3
  MaxUpdateFaults = 2
  MaxCrashes = 1
CHECK_DEADLOCK FALSE
INVARIANTS
  CardAsAsked
  OnboardWhole
PROPERTIES
  TriesAgain
