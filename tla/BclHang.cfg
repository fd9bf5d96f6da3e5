SPECIFICATION FairSpec
CONSTANTS
  r1 = r1
  r2 = r2
  a1 = a1
  a2 = a2
  a3 = a3
  x = x
  y = y
  NoValue = NoValue
  Rank = {r1, r2}
  RankOf <- TwoRanks
  Actor = {a1, a2, a3}
  Pushes <- SecondPushes
  Popper = {a1, a3}
  Patient = {}
  Value = {x}
  Capacity = 2
  Filled <- Nothing
  MaxCalls = 2
PROPERTIES
  CallsReturn
CHECK_DEADLOCK FALSE
