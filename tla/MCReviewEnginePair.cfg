CONSTANTS
  Procs = {p1}
  NoProc = NoProc
  MaxFence = 2
  MaxReviews = 2
  MaxInline = 0
  MaxGen = 5
  MaxActive = 2
  PRs = {a, b}
  NoRevision = NoRevision
  PerEngine = 2
  MaxAttempts = 5
  Shas = {s1}
  MaxPush = 0
  MaxSecond = 0
  Revisions <- MCRevisions
  Faults = {"crash", "stop", "lost reply"}
SPECIFICATION FairSpec
INVARIANTS OneActivePerPR
PROPERTIES QueuedIsSettled
CHECK_DEADLOCK FALSE
