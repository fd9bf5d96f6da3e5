------------------------ MODULE DistributedTaskwait ------------------------
(***************************************************************************)
(* What chameleon_distributed_taskwait promises its callers (chameleon.cpp *)
(* 638-650): a worker that enters returns only when every worker of every  *)
(* rank is in the same taskwait and all global work up to it is done.      *)
(* Where a task runs, and how the ranks find out, is not said.             *)
(***************************************************************************)
EXTENDS Naturals

CONSTANTS Worker, Task, CycleOf

VARIABLES task,   \* a task is "new", "open" or "done"
          place,  \* a worker is "out" of the taskwait, "in" it, or "left" it
          round   \* the number of the taskwait a worker is at

tvars == <<task, place, round>>

AInit == /\ task = [t \in Task |-> "new"]
         /\ place = [w \in Worker |-> "out"]
         /\ round = [w \in Worker |-> 1]

Create(w, t) ==
  /\ place[w] = "out" /\ CycleOf[t] = round[w] /\ task[t] = "new"
  /\ task' = [task EXCEPT ![t] = "open"]
  /\ UNCHANGED <<place, round>>

Enter(w) == /\ place[w] = "out"
            /\ place' = [place EXCEPT ![w] = "in"]
            /\ UNCHANGED <<task, round>>

Finish(t) == /\ task[t] = "open"
             /\ task' = [task EXCEPT ![t] = "done"]
             /\ UNCHANGED <<place, round>>

(* All work of the taskwait that w is in is done.                          *)
AllDone(w) ==
  /\ \A v \in Worker : round[v] > round[w] \/ (round[v] = round[w] /\ place[v] # "out")
  /\ \A t \in Task : CycleOf[t] <= round[w] => task[t] = "done"

Leave(w) == /\ place[w] = "in" /\ AllDone(w)
            /\ place' = [place EXCEPT ![w] = "left"]
            /\ UNCHANGED <<task, round>>

(* The workers W, one team, have all left: on to the next taskwait.        *)
Resume(W) ==
  /\ \A w \in W : place[w] = "left"
  /\ place' = [w \in Worker |-> IF w \in W THEN "out" ELSE place[w]]
  /\ round' = [w \in Worker |-> IF w \in W THEN round[w] + 1 ELSE round[w]]
  /\ UNCHANGED task

ANext == \/ \E w \in Worker, t \in Task : Create(w, t)
         \/ \E w \in Worker : Enter(w) \/ Leave(w)
         \/ \E t \in Task : Finish(t)
         \/ \E W \in SUBSET Worker : Resume(W)

ASpec == AInit /\ [][ANext]_tvars
=============================================================================
