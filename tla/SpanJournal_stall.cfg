SPECIFICATION FairSpec
CONSTANTS
  Routes = {r1}
  MaxInput = 3
  OpCount <- OneEach
  MaxChunk = 1
  LiveCapacity = 1
  LegacyThrough = {0}
  MaxFaults = 0
  MaxPending = 1
PROPERTIES
  PublicationTerminates
CHECK_DEADLOCK FALSE
