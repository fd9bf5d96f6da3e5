-------------------------- MODULE MCRequestManager --------------------------
(* Instances of RequestManager for TLC.                                     *)
EXTENDS RequestManager

CONSTANTS comm, w1,            \* threads
          meta, datas, result, \* groups
          m1, d1, d2, b1       \* requests

Requests == [g \in Group |-> IF g = meta THEN <<m1>>
                        ELSE IF g = datas THEN <<d1, d2>> ELSE <<b1>>]
\* the message with the data follows the one that announces it
DataFollows == [g \in Group |-> IF g = meta THEN datas ELSE NoGroup]
Posters == [g \in Group |-> IF g = result THEN w1 ELSE comm]
=============================================================================
