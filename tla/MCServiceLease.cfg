CONSTANTS
  Procs = {p1, p2, p3}
  NoProc = NoProc
  TTL = 2
  MaxTime = 4
  MaxFence = 3
  Steady = TRUE
SPECIFICATION Spec
INVARIANTS TermsNeverShared
PROPERTIES KeepsLeaseTerm EffectsFollowTerms
CHECK_DEADLOCK FALSE
