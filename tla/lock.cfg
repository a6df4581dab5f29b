SPECIFICATION Spec
CONSTANTS
  None = None
  t1 = t1
  t2 = t2
  c1 = c1
  c2 = c2
  Tabs <- OneTab
  Calls <- MCCalls
  FailLimit = 2
  LockWindow = 2
  CodeLife = 2
  MaxCodes = 2
INVARIANTS LockoutBounded
PROPERTIES LockEnds
CHECK_DEADLOCK FALSE
