SPECIFICATION ClientSpec
CONSTANTS
  None = None
  room = room
  hall = hall
  Resources = {room, hall}
  DayLength = 6
  MinBlock = 2
  TailEnd = 2
  WeekLength = 3
  MonthStarts <- MCMonthStarts
  ChangeDay = 6
  ChangeAt = 2
  Shift = 1
  DayRanges = {1, 3}
  ScreenDays = 1
  Today = 5
  Schedules <- MCSchedules
  MaxMoves <- MCMaxMoves
  Slots = {r1}
  MaxWrites = 2
  Absent = Absent
INVARIANTS ShownOnItsDays NothingHidden SuccessIsShown PartialBatchIsShown
PROPERTIES NoDaySkipped
CHECK_DEADLOCK FALSE
