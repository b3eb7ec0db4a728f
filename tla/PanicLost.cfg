SPECIFICATION FairSpec
CONSTANTS
  Id = {"a"}
  Client = {c1}
  Configs <- PanicConfigs
  Calls <- NoCalls
  MaxCalls = 0
  MaxFaults = 1
  Expiry = FALSE
  Panics = TRUE
  Blocks = FALSE
PROPERTIES
  DeadChildHandled
CHECK_DEADLOCK FALSE
