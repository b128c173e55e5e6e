SPECIFICATION Spec
CONSTANTS
  Agents = {"pi", "opencode", "antigravity", "cursor", "grok", "claude-code", "codex", "muse"}
  Bounds <- Sessions
  Again <- Repeats
  Beyond = {}
INVARIANTS
  SpansAreOperations
  ClosedWhenRetired
  UsageIsExact
PROPERTIES
  HistoryIsReal
CHECK_DEADLOCK FALSE
