SPECIFICATION FairSpec
CONSTANTS
  Routes = {r1, r2}
  MaxInput = 1
  OpCount <- OneInput
  MaxChunk = 1
  LiveCapacity = 2
  LegacyThrough = {0, 1}
  MaxFaults = 1
  MaxPending = 2
INVARIANTS
  NothingOwedIsLost
  LogIsFaithful
  AcknowledgementsAreExact
  ReplayFindsNext
PROPERTIES
  ImplementsRetainedLog
  OwedIsDelivered
CHECK_DEADLOCK FALSE
