SPECIFICATION FairSpec
CONSTANTS
  Bytes = {"a", "b"}
  Overlapping = FALSE
  Plans <- Kept
INVARIANTS
  ReplayReadsWhatWasSeen
  RecordsReadOnce
PROPERTIES
  TailIsTranslated
CHECK_DEADLOCK FALSE
