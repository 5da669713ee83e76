SPECIFICATION Spec
CONSTANTS
  MaxStarted = 3
  MaxRuns = 1
  MaxBytes = 2
  Size <- MCSize
  Output <- MCOutput
  Reapers = {q1}
  Waiters = {}
INVARIANTS LiveRunsKept OutcomeTrue
PROPERTIES RetentionHolds OutputRefused RunBookSpec
CHECK_DEADLOCK FALSE
