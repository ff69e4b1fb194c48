CONSTANTS
  w1 = w1
  w2 = w2
  renewal = renewal
  main = main
  admin = admin
  free = free
  Workers = {w1, w2}
  Renewal = renewal
  Callers = {main, admin}
  Impatient = {main}
  Free = free
  MaxTerm = 2
  Scopes <- MCScopes
SPECIFICATION FairSpec
CHECK_DEADLOCK FALSE
INVARIANTS OneGeneration StoppedMeansReleased OnlyOwnLoss NoLostWakeup
PROPERTIES StopReturns DueIsClaimed
