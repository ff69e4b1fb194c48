CONSTANTS
  Ids = {1, 2}
  KeyUsers = {w1, w2}
  Cooldown = 3
  Pause = 1
  KeyRows = {k1, k2, k3}
  NoRow = NoRow
  MaxUses = 2
  MaxNow = 4
  MaxDays = 2
  Connects = {o1, o2}
  Callbacks = {q1, q2}
  ConnectTTL = 1
  Browsers = {b1}
  ClientOf <- MCClientOf
  Accounts = {u1, u2}
  Logins = {l1, l2, l3}
  OAuthStates = {s1, s2}
  Tokens = {t1, t2}
  Nobody = Nobody
  Signins = {h1, h2}
  MaxStates = 2
  MaxPerClient = 1
  StateTTL = 1
  SessionTTL = 1
  MaxInstant = 2
SPECIFICATION DashboardSpec
INVARIANTS LoadIsBalanced SecondKeyDiffers OneKeyPerConnect OneLoginPerState SessionsAreOwn
PROPERTIES LogoutRevokes
SYMMETRY MCSymmetry
CHECK_DEADLOCK FALSE
