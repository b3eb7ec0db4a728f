SPECIFICATION FairSpec
CONSTANTS
  Client = {c1, c2}
  Id = {"a", "b"}
  LongId = {"long"}
  Listable = 1
  Asks <- CommandsAsked
  MaxCalls = 2
  MaxFaults = 1
INVARIANTS
  TypeOK
  ShutdownIsFinal
  StatusNotMixed
PROPERTIES
  ImplementsRemoteCalls
  CallsReturn
CHECK_DEADLOCK FALSE
