SPECIFICATION Spec
CONSTANTS
  Id = {"a", "b"}
  Intensities <- MCIntensities
  Backoffs <- MCBackoffs
  Earliest = 0
  Latest = 7
  Start = 3
  ShiftBits = 4
  FactorMax = 5
  AttemptsMax = 5
  DurationMax = 12
INVARIANTS
  TypeOK
  WithinBudget
PROPERTIES
  ImplementsBudget
  DelaysDouble
CHECK_DEADLOCK FALSE
