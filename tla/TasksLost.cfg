SPECIFICATION Spec
CONSTANTS
  r1 = r1
  r2 = r2
  r3 = r3
  t1 = t1
  t2 = t2
  t3 = t3
  NoTask = NoTask
  NoRank = NoRank
  Rank = {r1, r2}
  Task = {t1, t2}
  Given <- FirstHasAll
  NumThreads = 2
  Stealing = TRUE
  StealNum = 1
  StealDen = 2
  SizeRange = 8
INVARIANTS
  EveryTaskRun
CHECK_DEADLOCK FALSE
