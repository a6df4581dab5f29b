SPECIFICATION FairSpec
CONSTANTS
  Users = {u1}
  Admins = {adm}
  Reservations = {r1, r2}
  Requests = {q1, q2}
  hall = hall
  lab = lab
  Resources = {hall, lab}
  Places <- MCPlaces
  OccurrenceLists <- MixedLists
  RulePayloads = {FALSE}
  StatusPayloads = {"confirmed"}
  MayReserve <- Everyone
  Open <- Everywhere
  AutoConfirm = {}
  AllowRecurring = {}
  InitialBlocks <- HallPlaces
  InitialBlocksOnly = {hall}
  Ops = {"create", "split", "cancel", "blocks"}
  None = None
PROPERTIES RequestsFinish
CHECK_DEADLOCK FALSE
