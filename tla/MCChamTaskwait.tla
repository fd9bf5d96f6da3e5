--------------------------- MODULE MCChamTaskwait ---------------------------
(* Instances of ChamTaskwait for TLC: which worker creates which task, and  *)
(* before which taskwait.                                                   *)
EXTENDS ChamTaskwait

CONSTANTS r1, r2,     \* ranks
          h1, h2,     \* threads
          t1, t2      \* tasks

\* one thread on each rank, two threads on one rank, and two and one
OneEach  == {<<r1, h1>>, <<r2, h1>>}
OneTeam  == {<<r1, h1>>, <<r1, h2>>}
TwoAndOne == {<<r1, h1>>, <<r1, h2>>, <<r2, h1>>}
\* every task is created by the first thread of the first rank
OneCreator == [t \in Task |-> <<r1, h1>>]
\* the first thread of each rank creates a task
EachCreates == [t \in Task |-> IF t = t1 THEN <<r1, h1>> ELSE <<r2, h1>>]
\* each thread of the first rank creates a task
ThreadCreates == [t \in Task |-> IF t = t1 THEN <<r1, h1>> ELSE <<r1, h2>>]
\* every task is created by the second thread of the first rank
LateCreator == [t \in Task |-> <<r1, h2>>]
\* one taskwait
FirstCycle == [t \in Task |-> 1]
\* two taskwaits, a task before each
CycleEach == [t \in Task |-> IF t = t1 THEN 1 ELSE 2]

\* the target of Migrate, as the default strategy chooses it with the default
\* settings: on up to four ranks the separate choices fit together
Strategy(n) == INSTANCE ChamStrategy WITH
                 N <- n, MinAbs <- 2, MinRel <- 5, Percentage <- 50
ASSUME StrategyFits ==
  \A n \in 1 .. 4 : \A load \in [0 .. n - 1 -> {0, 1, 3, 8}] :
    \A order \in [0 .. n - 1 -> 0 .. n - 1] :
      Strategy(n)!Sorts(order, load) =>
        /\ Strategy(n)!OneSource(order, load)
        /\ Strategy(n)!GivesOrTakes(order, load)
        /\ Strategy(n)!NoOvertaking(order, load)
=============================================================================
