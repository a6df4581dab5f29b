SPECIFICATION Spec
CONSTANTS
  Users = {u1}
  Admins = {adm}
  Reservations = {r1, r2}
  Requests = {q1, q2}
  hall = hall
  lab = lab
  Resources = {hall}
  Places <- HallPlaces
  OccurrenceLists <- SplitLists
  RulePayloads = {FALSE}
  StatusPayloads = {"confirmed"}
  MayReserve <- Everyone
  Open <- Everywhere
  AutoConfirm = {}
  AllowRecurring = {}
  InitialBlocks <- HallPlaces
  InitialBlocksOnly = {}
  Ops = {"update", "cancel", "split", "delete", "import", "outlook", "abort"}
  None = None
INVARIANTS ActiveHasNoCanceller
PROPERTIES OutlookOwnsItsRows ReopenedByAdminOrStaleEdit SplitConserves CancellerIsKept
SYMMETRY Symmetric
CHECK_DEADLOCK FALSE
