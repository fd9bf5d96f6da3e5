--------------------------- MODULE MCTaskStealing ---------------------------
(* Instances of TaskStealing for TLC.                                       *)
EXTENDS TaskStealing

CONSTANTS r1, r2, r3,   \* ranks
          t1, t2, t3    \* tasks

\* one rank has all the tasks, in either order of their names
FirstHasAll == [r \in Rank |-> IF r = r1 THEN <<t1, t2>> ELSE <<>>]
FirstHasThree == [r \in Rank |-> IF r = r1 THEN <<t1, t2, t3>> ELSE <<>>]
=============================================================================
