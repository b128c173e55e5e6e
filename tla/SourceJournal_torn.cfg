SPECIFICATION Spec
CONSTANTS
  MaxRecords = 3
  Parts = 3
  MaxFaults = 1
INVARIANTS
  AcknowledgedIsReadable
CHECK_DEADLOCK FALSE
