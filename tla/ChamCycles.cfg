SPECIFICATION FairSpec
CONSTANTS
  r1 = r1
  r2 = r2
  h1 = h1
  h2 = h2
  t1 = t1
  t2 = t2
  Rank = {r1, r2}
  Worker <- OneEach
  Task = {t1, t2}
  Creator <- EachCreates
  CycleOf <- CycleEach
  WithOutput = {t1, t2}
  NumCycles = 2
  MinLocal = 3
  MaxAtOnce = 1
  IntMax = 9
  NoTask = NoTask
PROPERTIES
  KeepsPromise
  NoGatherAfterLeave
  TaskwaitReturns
