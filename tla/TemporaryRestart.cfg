SPECIFICATION Spec
CONSTANTS
  Id = {"a"}
  Client = {c1}
  Configs <- TemporaryConfigs
  Calls <- TemporaryCalls
  MaxCalls = 2
  MaxFaults = 1
  Expiry = FALSE
  Panics = FALSE
  Blocks = FALSE
PROPERTIES
  TemporaryNeverRestarted
CHECK_DEADLOCK FALSE
