----------------------------- MODULE MCBclQueue -----------------------------
(* Instances of BclQueue for TLC.                                           *)
EXTENDS BclQueue

CONSTANTS r1, r2,      \* ranks
          a1, a2, a3,  \* threads
          x, y         \* elements

\* two threads on one rank, one on another
TwoRanks == [a \in Actor |-> IF a = a3 THEN r2 ELSE r1]
\* the second thread alone pushes; each thread
\* of the first rank pushes an element of its own
SecondPushes == [a \in Actor |-> IF a = a2 THEN Value ELSE {}]
OwnerPushes == [a \in Actor |-> IF a = a1 THEN {x} ELSE IF a = a2 THEN {y} ELSE {}]
\* what was pushed before the barrier
Nothing == <<>>
OneElement == <<x>>
=============================================================================
