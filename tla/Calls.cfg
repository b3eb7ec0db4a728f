SPECIFICATION Spec
CONSTANTS
  Id = {"a"}
  Client = {c1, c2}
  Configs <- CallConfigs
  Calls <- CallCalls
  MaxCalls = 3
  MaxFaults = 2
  Expiry = TRUE
  Panics = TRUE
  Blocks = TRUE
INVARIANTS
  UniqueIds
  NoOrphan
  OneIncarnation
  NoLostChild
SYMMETRY Symmetry
CHECK_DEADLOCK FALSE
