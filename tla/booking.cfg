SPECIFICATION Spec
CONSTANTS
  Users = {u1}
  Admins = {adm}
  Reservations = {r1, r2}
  Requests = {q1, q2}
  hall = hall
  lab = lab
  Resources = {hall}
  Places <- HallPlaces
  OccurrenceLists <- HallLists
  RulePayloads = {FALSE}
  StatusPayloads = {"pending"}
  MayReserve <- Everyone
  Open <- Everywhere
  AutoConfirm = {}
  AllowRecurring = {}
  InitialBlocks <- HallPlaces
  InitialBlocksOnly = {hall}
  Ops = {"create", "update", "cancel", "resources"}
  None = None
INVARIANTS TypeOK ProtectedDisjoint
PROPERTIES ImplementsLedger
SYMMETRY Symmetric
CHECK_DEADLOCK FALSE
