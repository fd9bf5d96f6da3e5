---------------------------- MODULE MCBclHashMap ----------------------------
(* Instances of BclHashMap for TLC.                                         *)
EXTENDS BclHashMap

CONSTANTS a1, a2, a3,  \* threads
          k, l         \* keys

\* all keys start at the same slot
Colliding == [x \in Key |-> 1]
Insert(x, v) == [op |-> "insert", key |-> x, val |-> v]
Modify(x) == [op |-> "modify", key |-> x, val |-> 0]
Find(x) == [op |-> "find", key |-> x, val |-> NoValue]
\* one thread inserts, one updates or looks up, one looks up
Mixed == [a \in Actor |-> IF a = a1 THEN {Insert(k, 1), Insert(l, 1)}
                     ELSE IF a = a2 THEN {Modify(k), Find(k)}
                     ELSE {Find(k), Insert(l, 1)}]
\* what the callers of modify apply
Increment(v) == (v + 1) % Cardinality(Value)
Few == [a \in Actor |-> IF a = a1 THEN 2 ELSE 1]
\* all on one rank, or a1 and a2 on the rank of slot 1, a3 on that of slot 0
OneRank == [a \in Actor |-> Table]
TwoRanks == [a \in Actor |-> IF a = a3 THEN {0} ELSE {1}]
Both == {OneRank, TwoRanks}
=============================================================================
