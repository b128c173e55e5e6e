SPECIFICATION FairSpec
CONSTANTS
  Hooks = {"h1", "h2"}
  Observers = {"o1"}
  Sources = {"s1", "s2"}
  Capacity = 1
  Mailbox = 1
  Plans <- Capturing
INVARIANTS
  DispatchedInSourceOrder
  RecoveryIsHistory
  FlushCoversAcknowledged
  ShutdownSettlesAcknowledged
PROPERTIES
  AcknowledgedIsTranslated
CHECK_DEADLOCK FALSE
