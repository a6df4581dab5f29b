SPECIFICATION BrowserSpec
CONSTANTS
  a = a
  b = b
  Tabs <- MCTabs
  Readers = {a}
  Requests <- MCRequests
  Users = {u1}
  Sessions = {s1, s2}
  Tokens = {t1, t2, t3}
  RefreshTokenTtl = 3
  SessionMax = 5
  ReuseGrace = 2
  PurgeAge = 5
  Horizon = 4
  AccessTtl = 3
  RefreshBuffer = 3
  Prompt = 1
  MaxDisturbances = 1
  None = None
SYMMETRY Symmetric
CHECK_DEADLOCK FALSE
INVARIANTS  ReplayMeansTrouble
