SPECIFICATION Spec
CONSTANTS
  Routes = {r1}
  Imports = {i1}
  Spans = {"root", "tool"}
  Input <- Reordered
  Legacies <- Fresh
  MaxBatch = 2
  Limits <- OnlyAborting
INVARIANTS
  RecordsArePermanent
CHECK_DEADLOCK FALSE
