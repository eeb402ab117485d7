SPECIFICATION FairSpec
CONSTANTS
  Connections = {1, 2}
  Hosts <- ThreeHosts
  AuthFile <- Allow
  NoFile = NoFile
  Exports <- AnyFile
  Blocks = {1}
  Missing <- NoFiles
  Pids = {1, 2}
  EarlierZombies <- NoneOrAll
  MaxRequests = 1
  MaxFaults = 1
CHECK_DEADLOCK FALSE
INVARIANTS
  OwnExport
  SizeRight
  CowPrivate
PROPERTIES
  Settled
