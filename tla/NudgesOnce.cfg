SPECIFICATION Spec
CONSTANTS
  Sessions = {s1}
  Slots = {w1, w2}
  Passes = {p1, p2}
  Cooldown = 1
  Quiet = 1
  Window = 1
  MaxAge = 1
  MaxBatch = 1
  MaxEntries = 3
  MaxTime = 2
  MaxOps = 3
CHECK_DEADLOCK FALSE
SYMMETRY Symmetry
INVARIANTS TypeOK NudgedOnce RevivedOnce OneRevive RestartSettled RetiredStays
