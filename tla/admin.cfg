SPECIFICATION AdminSpec
CONSTANTS
  g1 = g1
  g2 = g2
  Groups = {g1, g2}
  Contracts = {c1}
  Editors = {e1, e2}
  Existing <- ExistingDef
  GlobalContracts = {}
  Minutes = {0, 1, 2}
  MaxDay = 0
  DayShift = 1
  MaxChanges = 1
  Visitor = visitor
  Admin = admin
  None = None
  Deleted = Deleted
  Emails = {a, b}
  UserGroups = {u1, u2}
  Nobody = Nobody
  NoGroup = NoGroup
  MaxUsers = 3
  MaxBatches = 2
  MaxOthers = 2
  Langs = {"fi", "sv"}
  Fallback <- FallbackDef
  PrintLangs = {"fi", "sv"}
  PrintFirst = "fi"
  Writers = {w1, w2}
  NoDoc = NoDoc
  MaxObjects = 3
  MaxSaves = 2
SYMMETRY Symmetry
INVARIANTS SavedAsShown StoredIsWhole PrintedIsChosen
PROPERTIES MovesOnlyAsked
CHECK_DEADLOCK FALSE
