SPECIFICATION FairSpec
CONSTANTS
  Caller = {p}
  Setups <- SetupsExplored
  MaxRuns = 2
  MaxUses = 3
  MaxFaults = 2
INVARIANTS
  TypeOK
  MailboxBounded
  NoSilentOverlap
  EnteredOnce
PROPERTIES
  CallsReturn
  AbandonedBodyEnds
CHECK_DEADLOCK FALSE
