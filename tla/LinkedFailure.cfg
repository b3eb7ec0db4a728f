SPECIFICATION Spec
CONSTANTS
  Id = {"a"}
  Client = {c1, c2}
  Configs <- LinkConfigs
  Calls <- LinkCalls
  MaxCalls = 2
  MaxFaults = 1
  Expiry = FALSE
  Panics = FALSE
  Blocks = FALSE
PROPERTIES
  LinkedFailureIgnored
CHECK_DEADLOCK FALSE
