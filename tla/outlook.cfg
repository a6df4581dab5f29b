SPECIFICATION Spec
CONSTANTS
  None = None
  r1 = r1
  r2 = r2
  invite = invite
  update = update
  cancel = cancel
  Runs <- MCRuns
  Messages <- MCMessages
  Method <- MCMethod
  Sequence <- MCSequence
  Reserving <- MCReserving
  Breakable = {update}
  MaxAttempts = 2
  Top = 2
  MaxFaults = 1
INVARIANTS ShowsNewest NoSilentLoss
PROPERTIES InboxDrains
CHECK_DEADLOCK FALSE
