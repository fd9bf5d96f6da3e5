SPECIFICATION FairSpec
CONSTANTS
  a1 = a1
  a2 = a2
  a3 = a3
  k = k
  l = l
  NoKey = NoKey
  NoValue = NoValue
  Actor = {a1, a2, a3}
  Key = {k, l}
  Value = {0, 1}
  Default = 0
  Hash <- Colliding
  Capacity = 2
  Bit = {5, 6}
  Fn <- Increment
  Calls <- Mixed
  MaxCalls <- Few
  Homes <- Both
INVARIANTS
  TypeOK
  Exclusive
  MarksCounted
  Findable
  
PROPERTIES
  
  KeepsMap
  CallsReturn
CHECK_DEADLOCK FALSE
