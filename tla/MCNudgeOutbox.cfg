CONSTANTS
  Procs = {p1, p2}
  NoProc = NoProc
  MaxFence = 2
  MaxNudges = 1
  MaxGen = 3
  PerEngine = 2
  MaxAttempts = 2
  Faults = {"crash", "stop", "pause", "deadline", "disk", "revoke", "retry", "hard", "lost reply", "lost request", "late request"}
SPECIFICATION Spec
INVARIANTS AtMostOneNotification PostedMeansSeen
PROPERTIES GivenUpUnsent
SYMMETRY MCSymmetry
CHECK_DEADLOCK FALSE
