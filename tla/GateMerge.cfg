SPECIFICATION FairSpec
CONSTANTS
  Procs = {p1, p2}
  NoProc = NoProc
  Heads = {h1, h2}
  Bases = {b1, b2}
  NoRevision = NoRevision
  Kind = "pr"
  OnAgreement = "merge"
  MaxRounds = 2
  Detached = TRUE
CHECK_DEADLOCK FALSE
INVARIANTS
  RoundsAttested
  AgreementStands
  OneDispatcher
  OneReview
  CompletedMergeLanded
PROPERTIES
  HistoryKept
  AgreementSpec
  EveryInvocationReturns
