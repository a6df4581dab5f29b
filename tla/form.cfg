SPECIFICATION Spec
CONSTANTS
  room = room
  sauna = sauna
  workshop = workshop
  house = house
  roomContract = roomContract
  Resources = {room, sauna, workshop}
  Attributes <- MCAttributes
  ResourceLists <- MCResourceLists
  Contracts <- MCContracts
  GlobalContracts = {house}
  LinkedTo <- MCLinkedTo
  ContractLists <- MCContractLists
  Blocks <- MCBlocks
  TypedTimes = {0, 1, 2}
  RequiredFields = {"title"}
  None = None
CHECK_DEADLOCK FALSE
INVARIANTS ConflictsAreCurrent OnlyReservableIds ApprovedWhatApplies
PROPERTIES SubmitsReservable
