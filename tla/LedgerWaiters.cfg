SPECIFICATION FairSpec
CONSTANTS
  MaxStarted = 2
  MaxRuns = 1
  MaxBytes = 9
  Size <- MCSize
  Output <- MCOutput
  Reapers = {q1}
  Waiters = {w1}
INVARIANTS AnswerTrue
PROPERTIES WaiterReturns
CHECK_DEADLOCK FALSE
