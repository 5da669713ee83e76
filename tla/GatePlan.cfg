SPECIFICATION Spec
CONSTANTS
  Procs = {p1, p2, p3}
  NoProc = NoProc
  Heads = {h1, h2}
  Bases = {b1}
  NoRevision = NoRevision
  Kind = "plan"
  OnAgreement = "proceed"
  MaxRounds = 3
  Detached = FALSE
CHECK_DEADLOCK FALSE
SYMMETRY Symmetry
INVARIANTS CompletedCertified
