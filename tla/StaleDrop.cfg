SPECIFICATION Spec
CONSTANTS
  Id = {"a", "b"}
  Client = {c1}
  Configs <- DropConfigs
  Calls <- NoCalls
  MaxCalls = 0
  MaxFaults = 2
  Expiry = FALSE
  Panics = FALSE
  Blocks = FALSE
PROPERTIES
  HealthyNeverDropped
CHECK_DEADLOCK FALSE
