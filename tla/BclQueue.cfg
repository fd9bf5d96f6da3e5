SPECIFICATION FairSpec
CONSTANTS
  r1 = r1
  r2 = r2
  a1 = a1
  a2 = a2
  a3 = a3
  x = x
  y = y
  NoValue = NoValue
  Rank = {r1, r2}
  RankOf <- TwoRanks
  Actor = {a1, a2, a3}
  Pushes <- OwnerPushes
  Popper = {a1, a3}
  Patient = {a2}
  Value = {x, y}
  Capacity = 2
  Filled <- OneElement
  MaxCalls = 2
INVARIANTS
  TypeOK
  TicketsCounted
  OwnSlot
PROPERTIES
  KeepsFIFO
  StrandedForever
  ReturnsOrStranded
CHECK_DEADLOCK FALSE
