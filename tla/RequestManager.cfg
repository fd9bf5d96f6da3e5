SPECIFICATION FairSpec
CONSTANTS
  comm = comm
  w1 = w1
  meta = meta
  datas = datas
  result = result
  m1 = m1
  d1 = d1
  d2 = d2
  b1 = b1
  NoGroup = NoGroup
  Thread = {comm, w1}
  Comm = comm
  Group = {meta, datas, result}
  Request = {m1, d1, d2, b1}
  Members <- Requests
  Poster <- Posters
  Follow <- DataFollows
  Modes = {0, 2, 3}
INVARIANTS
  TypeOK
  RequestsKept
PROPERTIES
  KeepsGroups
  HandlersRun
CHECK_DEADLOCK FALSE
