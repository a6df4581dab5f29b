SPECIFICATION Spec
CONSTANTS
  None = None
  t1 = t1
  t2 = t2
  c1 = c1
  c2 = c2
  Tabs <- MCTabs
  Calls <- MCCalls
  FailLimit = 1
  LockWindow = 1
  CodeLife = 1
  MaxCodes = 2
SYMMETRY Symmetry
INVARIANTS NewestCodeWorks OnlyRivalsShareACode
CHECK_DEADLOCK FALSE
