SPECIFICATION FairSpec
CONSTANTS
  Spans = {"root", "turn"}
  Output <- RootThenTurn
  Histories <- NewOrReleased
  MaxRecords = 3
  Window = 1
  Mailbox = 1
  MaxFaults = 2
  ReplayMayFail = FALSE
INVARIANTS
  LogIsTranslation
  ExactHistory
  BoundariesHold
CHECK_DEADLOCK FALSE
PROPERTIES
  CapturedIsTranslated
