SPECIFICATION FairSpec
CONSTANTS
  Id = {"a", "b", "n"}
  Client = {c1}
  Configs <- LiveConfigs
  Calls <- LiveCalls
  MaxCalls = 2
  MaxFaults = 1
  Expiry = FALSE
  Panics = FALSE
  Blocks = FALSE
PROPERTIES
  DeadChildHandled
  CallsReturn
  ShutdownCompletes
CHECK_DEADLOCK FALSE
