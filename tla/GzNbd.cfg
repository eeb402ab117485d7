SPECIFICATION FairSpec
CONSTANTS
  FileSize = 3
  Rests = {0, 1}
  SizeArgs = {0, 2, 4}
  Chunk = 2
  Requests <- SomeRequests
  MaxRequests = 3
  MaxPending = 2
  MaxFaults = 1
CHECK_DEADLOCK FALSE
INVARIANTS
  TypeOK
  DataMatches
  AnswersInOrder
  NoErrorWithoutCause
PROPERTIES
  Answered
  ParentEnds
