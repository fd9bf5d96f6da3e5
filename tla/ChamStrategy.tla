---------------------------- MODULE ChamStrategy ----------------------------
(***************************************************************************)
(* Chameleon's default choice of whom to offload tasks to, and how many    *)
(* (compute_num_tasks_to_offload, chameleon_strategies.cpp). Every rank    *)
(* applies it on its own to the loads of the last exchange: ranks are      *)
(* sorted by load, the most loaded offloads to the least loaded, the       *)
(* second to the second, and so on. Real numbers are hundredths.           *)
(***************************************************************************)
EXTENDS Integers

CONSTANTS N,           \* chameleon_comm_size
          MinAbs,      \* MIN_ABS_LOAD_IMBALANCE_BEFORE_MIGRATION
          MinRel,      \* MIN_REL_LOAD_IMBALANCE_BEFORE_MIGRATION, in hundredths
          Percentage   \* PERCENTAGE_DIFF_TASKS_TO_MIGRATE, in hundredths

Place == 0 .. N - 1    \* ranks, and their places in the sorted list

(* sort_indexes: std::sort may order equal loads in any way, but every     *)
(* rank sorts the same loads in the same way.                              *)
Sorts(order, load) == /\ order \in [Place -> Place]
                      /\ \A r \in Place : \E i \in Place : order[i] = r
                      /\ \A i, j \in Place : order[i] = order[j] => i = j
                      /\ \A i, j \in Place : i <= j => load[order[i]] <= load[order[j]]

PlaceOf(order, r) == CHOOSE i \in Place : order[i] = r
Partner(order, r) == order[N - 1 - PlaceOf(order, r)]

(* The difference is at least a share MinRel of the load.                  *)
Matters(diff, load) == 100 * diff >= MinRel * load

(* Rank r offloads to its partner.                                         *)
Offloads(order, load, r) ==
  LET low == load[order[0]]  high == load[order[N - 1]]
      other == load[Partner(order, r)]
  IN /\ load[r] - low >= MinAbs
     /\ Matters(high - low, high)
     /\ 2 * PlaceOf(order, r) >= N
     /\ load[r] - other >= MinAbs
     /\ other < load[r] /\ Matters(load[r] - other, load[r])

NumTasks(diff) == IF (diff * Percentage) \div 100 < 1
                    THEN 1 ELSE (diff * Percentage) \div 100

(* tasksToOffloadPerRank, as rank r computes it.                           *)
ToOffload(order, load, r) ==
  [q \in Place |-> IF Offloads(order, load, r) /\ q = Partner(order, r)
                     THEN NumTasks(load[r] - load[q]) ELSE 0]
-----------------------------------------------------------------------------
(* What the ranks' separate decisions must add up to, for any loads.       *)

(* No rank is chosen by two others: a rank that is little loaded is not    *)
(* flooded.                                                                *)
OneSource(order, load) ==
  \A r, s, q \in Place : ToOffload(order, load, r)[q] > 0
                         /\ ToOffload(order, load, s)[q] > 0 => r = s

(* No rank offloads to itself, or both gives and takes.                    *)
GivesOrTakes(order, load) ==
  \A r, q \in Place : ToOffload(order, load, r)[q] > 0
                      => q # r /\ \A s \in Place : ToOffload(order, load, q)[s] = 0

(* The rank that takes the tasks does not become more loaded than the one  *)
(* that gives them: no two ranks send the same difference to and fro.      *)
NoOvertaking(order, load) ==
  \A r, q \in Place :
    LET n == ToOffload(order, load, r)[q]
    IN n > 0 => load[q] + n <= load[r] - n
=============================================================================
