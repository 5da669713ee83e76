SPECIFICATION FairSpec
CONSTANTS
  Lanes = {l1}
  Shadowed = {l1}
  Picks = {k1}
  Watchdogs = {d1}
  Operators = {o1}
  NoLane = NoLane
  NoProcess = NoProcess
  Gifts = 3
  Full = 1
  Floor = 1
  Interval = 2
  MaxTime = 3
CHECK_DEADLOCK FALSE
INVARIANTS IntervalKept
PROPERTIES EveryProcessEnds
