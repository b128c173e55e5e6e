SPECIFICATION FairSpec
CONSTANTS
  Routes = {r1}
  Imports = {i1}
  Spans = {"root", "tool"}
  Input <- Reordered
  Legacies <- FreshOrUpgraded
  MaxBatch = 2
  Limits <- SharingOrAborting
INVARIANTS
  StableProvenance
  LatestWins
  LedgerIsFaithful
  NothingLost
PROPERTIES
  OwedIsAcknowledged
CHECK_DEADLOCK FALSE
