---------------------------- MODULE BoundedQueue ----------------------------
(***************************************************************************)
(* What CircularQueue promises the callers of push and pop: each call that *)
(* succeeds takes effect at one moment between its start and its return, a *)
(* pop takes the oldest element, and the queue never holds more than       *)
(* Capacity elements. A call may refuse at any time: the code refuses when *)
(* the calls in progress, and not only the elements, fill the queue or     *)
(* empty it.                                                               *)
(***************************************************************************)
EXTENDS Naturals, Sequences

CONSTANTS Actor, Value, NoValue, Capacity, Filled

VARIABLES q,      \* the elements, oldest first
          doing,  \* what an actor is doing: "none", "push" or "pop"
          held    \* the value it pushes, or got from its last pop

qvars == <<q, doing, held>>

QInit == /\ q = Filled
         /\ doing = [a \in Actor |-> "none"]
         /\ held = [a \in Actor |-> NoValue]

StartPush(a, v) == /\ doing[a] = "none"
                   /\ doing' = [doing EXCEPT ![a] = "push"]
                   /\ held' = [held EXCEPT ![a] = v]
                   /\ UNCHANGED q

StartPop(a) == /\ doing[a] = "none"
               /\ doing' = [doing EXCEPT ![a] = "pop"]
               /\ held' = [held EXCEPT ![a] = NoValue]
               /\ UNCHANGED q

Push(a) == /\ doing[a] = "push" /\ Len(q) < Capacity
           /\ q' = Append(q, held[a])
           /\ doing' = [doing EXCEPT ![a] = "none"]
           /\ UNCHANGED held

Pop(a) == /\ doing[a] = "pop" /\ q # <<>>
          /\ held' = [held EXCEPT ![a] = Head(q)]
          /\ q' = Tail(q)
          /\ doing' = [doing EXCEPT ![a] = "none"]

Refuse(a) == /\ doing[a] # "none"
             /\ doing' = [doing EXCEPT ![a] = "none"]
             /\ held' = [held EXCEPT ![a] = NoValue]
             /\ UNCHANGED q

QNext == \E a \in Actor : \/ \E v \in Value : StartPush(a, v)
                          \/ StartPop(a) \/ Push(a) \/ Pop(a) \/ Refuse(a)

QSpec == QInit /\ [][QNext]_qvars
=============================================================================
