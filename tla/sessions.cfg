SPECIFICATION Spec
CONSTANTS
  Users = {u1}
  Sessions = {s1}
  Tokens = {t1, t2, t3, t4}
  Requests = {q1, q2}
  RefreshTokenTtl = 2
  SessionMax = 4
  ReuseGrace = 1
  PurgeAge = 4
  Horizon = 6
  None = None
SYMMETRY Symmetric
CHECK_DEADLOCK FALSE
INVARIANTS ChainNeverForks SessionIsBounded PurgeForgetsNoLiveChain
PROPERTIES OverIsOver
