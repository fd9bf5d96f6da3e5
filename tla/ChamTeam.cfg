SPECIFICATION FairSpec
CONSTANTS
  r1 = r1
  r2 = r2
  h1 = h1
  h2 = h2
  t1 = t1
  t2 = t2
  Rank = {r1}
  Worker <- OneTeam
  Task = {t1, t2, t3}
  Creator <- ThreadCreates
  CycleOf <- CycleEach
  WithOutput = {t1, t2, t3}
  NumCycles = 2
  MinLocal = 3
  MaxAtOnce = 1
  IntMax = 9
  NoTask = NoTask
INVARIANTS
  IdleCount
PROPERTIES
  LoopEnds
CHECK_DEADLOCK FALSE
