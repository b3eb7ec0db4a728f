SPECIFICATION FairSpec
CONSTANTS
  Id = {"a", "b", "m", "n", "r"}
  Client = {c1}
  Trees <- AllTrees
  Expiry = FALSE
  MaxCalls = 2
  MaxFaults = 2
INVARIANTS
  TypeOK
  NoOrphanInTree
  OverlapOnlyOnceTold
  NoDeadHandle
  ContextLinearizable
PROPERTIES
  ImplementsSupervisor
  TreeComesDown
  OverlapEnds
CHECK_DEADLOCK FALSE
