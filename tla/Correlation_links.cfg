SPECIFICATION FairSpec
CONSTANTS
  Keys = {"p", "q"}
  Native <- OwnSession
  Processes <- AllProcesses
  Tools = {"t"}
  Command = {"p"}
  Child = "c"
  Chains <- Agents
  Compatible = {"p"}
  Scenarios <- Instances
  ReadFails = FALSE
  EventLimit = 3
INVARIANTS OneRoute ParentIsAncestor LinkIsExact
PROPERTIES NothingLost
CHECK_DEADLOCK FALSE
