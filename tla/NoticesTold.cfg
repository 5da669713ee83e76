SPECIFICATION FairSpec
CONSTANTS
  Runs = {r1, r2}
  Attached = {r2}
  Hooks = {h1, h2}
  MaxKills = 1
CHECK_DEADLOCK FALSE
INVARIANTS NoneForgotten
PROPERTIES NoticeKept EveryRunTold
