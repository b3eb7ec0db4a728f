SPECIFICATION Spec
CONSTANTS
  Id = {"a"}
  Intensities <- LongWindow
  Backoffs <- MCBackoffs
  Earliest = 0
  Latest = 8
  Start = 3
  ShiftBits = 4
  FactorMax = 5
  AttemptsMax = 5
  DurationMax = 12
INVARIANTS
  WithinBudget
CHECK_DEADLOCK FALSE
