CONSTANTS
  Procs = {p1, p2}
  NoProc = NoProc
  MaxFence = 2
  MaxReviews = 1
  MaxInline = 0
  MaxGen = 2
  MaxActive = 2
  PRs = {a}
  NoRevision = NoRevision
  PerEngine = 1
  MaxAttempts = 2
  Shas = {s1, s2}
  MaxPush = 1
  MaxSecond = 1
  Revisions <- MCRevisions
  Faults = {"crash", "push"}
SPECIFICATION EngineSpec
INVARIANTS NoStrandedEffects
SYMMETRY MCSymmetry
CHECK_DEADLOCK FALSE
