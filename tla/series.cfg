SPECIFICATION Spec
CONSTANTS
  LastDay <- MCLastDay
  Calendar <- MCCalendar
  DayLength = 12
  SpringAt = 205
  AutumnAt = 540
  Shift = 1
  ApiRules <- MCApiRules
  Configs <- MCConfigs
  Starts <- MCStarts
  Durations = {2}
  Counts = {3}
  MaxEdits = 2
  MaxSaves = 2
  None = None
CHECK_DEADLOCK FALSE
INVARIANTS OpenedAsSaved TickedIsSaved SameWallClock
PROPERTIES DetachedStaysAway
