SPECIFICATION Spec
CONSTANTS
  r1 = r1
  r2 = r2
  h1 = h1
  h2 = h2
  t1 = t1
  t2 = t2
  Rank = {r1, r2}
  Worker <- TwoAndOne
  Task = {t1}


  Creator <- LateCreator
  CycleOf <- FirstCycle
  WithOutput = {t1}
  NumCycles = 1
  MinLocal = 1
  MaxAtOnce = 1
  IntMax = 9
  NoTask = NoTask
INVARIANTS
  NoEarlyLeave
CHECK_DEADLOCK FALSE
