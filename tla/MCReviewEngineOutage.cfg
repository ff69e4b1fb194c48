CONSTANTS
  Procs = {p1, p2}
  NoProc = NoProc
  MaxFence = 3
  MaxReviews = 1
  MaxInline = 1
  MaxGen = 3
  MaxActive = 2
  quiet = quiet
  moving = moving
  PRs = {quiet, moving}
  NoRevision = NoRevision
  PerEngine = 1
  MaxAttempts = 2
  Shas = {s1, s2}
  MaxPush = 2
  MaxSecond = 2
  Revisions <- MCRevisions
  Faults = {"crash", "stop", "pause", "deadline", "disk", "revoke", "retry", "hard", "lost reply", "lost request", "late request", "push", "touch"}
SPECIFICATION OutageSpec
INVARIANTS AtMostOneComment
PROPERTIES ImplementsDelivery OutboxNeverRewinds OldTermsAreFenced PlanFromOneRevision OnlyResumptionStrands
ACTION_CONSTRAINT Slices
SYMMETRY MCSymmetry
CHECK_DEADLOCK FALSE
