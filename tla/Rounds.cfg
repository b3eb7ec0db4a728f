SPECIFICATION Spec
CONSTANTS
  Id = {"a", "b", "n"}
  Client = {c1}
  Configs <- RoundConfigs
  Calls <- RoundCalls
  MaxCalls = 1
  MaxFaults = 2
  Expiry = FALSE
  Panics = FALSE
  Blocks = FALSE
INVARIANTS
  TypeOK
  UniqueIds
  NoOrphan
  OneIncarnation
  NoLostChild
  BackoffOnlyForSupervised
  RoundsWithinBudget
  NoMixedGenerations
PROPERTIES
  StartOrderKept
CHECK_DEADLOCK FALSE
