SPECIFICATION FairSpec
CONSTANTS
  Hooks = {h1, h2}
  Routes = {r1, r2}
  Plans <- Lives
INVARIANTS
  CapturesAreKept
  StorageIsOfThisJournal
  OneHolder
  SessionsShareProducer
PROPERTIES
  DeliveredUnlessCut
CHECK_DEADLOCK FALSE
