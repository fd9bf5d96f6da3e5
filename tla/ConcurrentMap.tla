--------------------------- MODULE ConcurrentMap ---------------------------
(***************************************************************************)
(* What HashMap promises the threads of all ranks: insert and modify take  *)
(* effect at one moment of the call, modify on the value of that moment;   *)
(* an insert is refused only for a key the map does not hold; and find     *)
(* returns what the key was mapped to at some moment of the call.          *)
(***************************************************************************)
CONSTANTS Actor, Key, Value, NoValue, Default,
          Fn(_)       \* the function modify applies

VARIABLES map,     \* the value of each key, or NoValue
          doing,   \* the call of each actor, with phase "none", "busy" or "done"
          could,   \* what a find may answer: the values since it started
          got      \* what the last find of an actor answered

mvars == <<map, doing, could, got>>

AnyCall == [op : {"insert", "modify"}, key : Key, val : Value]
           \cup [op : {"find"}, key : Key, val : {NoValue}]
NoCall == [op |-> "none"]
Phase(a, p) == doing' = [doing EXCEPT ![a].phase = p]

MInit == /\ map = [k \in Key |-> NoValue]
         /\ doing = [a \in Actor |-> [phase |-> "none", call |-> NoCall]]
         /\ could = [a \in Actor |-> {}]
         /\ got = [a \in Actor |-> NoValue]

Start(a, c) == /\ doing[a].phase = "none"
               /\ doing' = [doing EXCEPT ![a] = [phase |-> "busy", call |-> c]]
               /\ could' = [could EXCEPT ![a] =
                              IF c.op = "find" THEN {map[c.key]} ELSE {}]
               /\ UNCHANGED <<map, got>>

(* insert_or_assign or modify takes effect; finds in progress may see it.  *)
Take(a) == LET c == doing[a].call
               old == IF map[c.key] = NoValue THEN Default ELSE map[c.key]
               new == IF c.op = "insert" THEN c.val ELSE Fn(old)
           IN  /\ doing[a].phase = "busy" /\ c.op \in {"insert", "modify"}
               /\ map' = [map EXCEPT ![c.key] = new]
               /\ could' = [b \in Actor |->
                     IF doing[b].call.op = "find" /\ doing[b].call.key = c.key
                       THEN could[b] \cup {new} ELSE could[b]]
               /\ Phase(a, "done")
               /\ UNCHANGED got

Finish(a) == doing' = [doing EXCEPT ![a] = [phase |-> "none", call |-> NoCall]]

Return(a) == doing[a].phase = "done" /\ Finish(a) /\ UNCHANGED <<map, could, got>>

Refuse(a) == /\ doing[a].phase = "busy"
             /\ doing[a].call.op \in {"insert", "modify"}
             /\ map[doing[a].call.key] = NoValue
             /\ Finish(a)
             /\ UNCHANGED <<map, could, got>>

Answer(a) == /\ doing[a].call.op = "find"
             /\ \E v \in could[a] : got' = [got EXCEPT ![a] = v]
             /\ Finish(a)
             /\ could' = [could EXCEPT ![a] = {}]
             /\ UNCHANGED map

MNext == \E a \in Actor : \/ \E c \in AnyCall : Start(a, c)
                          \/ Take(a) \/ Return(a) \/ Refuse(a) \/ Answer(a)

MSpec == MInit /\ [][MNext]_mvars
=============================================================================
