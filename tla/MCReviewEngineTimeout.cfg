CONSTANTS
  Procs = {p1, p2}
  NoProc = NoProc
  MaxFence = 1
  MaxReviews = 1
  MaxInline = 0
  MaxGen = 3
  MaxActive = 2
  PRs = {a}
  NoRevision = NoRevision
  PerEngine = 1
  MaxAttempts = 2
  Shas = {s1}
  MaxPush = 0
  MaxSecond = 0
  Revisions <- MCRevisions
  Faults = {"deadline"}
SPECIFICATION FairSpec
PROPERTIES RunningIsLeft
CHECK_DEADLOCK FALSE
