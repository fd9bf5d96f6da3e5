---------------------------- MODULE ChamTaskwait ----------------------------
(***************************************************************************)
(* The Chameleon runtime's distributed taskwait in its default build       *)
(* (COMMUNICATION_MODE 0, THREAD_ACTIVATION 1, ENABLE_TASK_MIGRATION 1,    *)
(* CHAM_REPLICATION_MODE 0): chameleon.cpp and commthread.cpp.             *)
(*                                                                         *)
(* Every rank runs the threads of one OpenMP team and one communication    *)
(* thread.  A thread adds tasks, enters chameleon_distributed_taskwait,    *)
(* executes stolen and local tasks, and leaves when the last load exchange *)
(* (a non-blocking MPI_Iallgather) said that nothing is outstanding and no *)
(* rank has a busy thread.  The communication thread posts the exchange,   *)
(* migrates tasks, receives them, and returns their results.               *)
(*                                                                         *)
(* Where a task is: loc[t] is the list (or message) that holds it, on rank *)
(* host[t].  The code's FIFO lists are the sets of tasks with that loc:    *)
(* the order in which a list is served tells no property apart, so a pop   *)
(* takes any element.                                                      *)
(***************************************************************************)
EXTENDS Integers, Sequences, FiniteSets

CONSTANTS
  Rank,          \* the MPI ranks
  Worker,        \* the OpenMP threads of every rank's team: <<rank, thread>>
  Task,          \* the tasks the application creates
  Creator,       \* the worker that creates a task
  CycleOf,       \* the taskwait (1, 2, ...) a task is created before
  WithOutput,    \* the tasks for which HasAtLeastOneOutput() holds
  NumCycles,     \* how many taskwaits the application performs
  MinLocal,      \* MIN_LOCAL_TASKS_IN_QUEUE_BEFORE_MIGRATION
  MaxAtOnce,     \* MAX_TASKS_PER_RANK_TO_MIGRATE_AT_ONCE
  IntMax,        \* INT_MAX
  NoTask         \* the null task pointer

RankOf(w) == w[1]
WorkersOf(r) == {w \in Worker : RankOf(w) = r}
Home(t) == RankOf(Creator[t])
NumThreads(r) == Cardinality(WorkersOf(r))   \* omp_get_num_threads()

ASSUME ConstAssumption ==
  /\ IsFiniteSet(Rank) /\ Rank # {}
  /\ IsFiniteSet(Worker) /\ \A w \in Worker : RankOf(w) \in Rank
  /\ \A r \in Rank : WorkersOf(r) # {} /\ NumThreads(r) < IntMax
  /\ IsFiniteSet(Task)
  /\ NumCycles \in Nat \ {0}
  /\ Creator \in [Task -> Worker]
  /\ CycleOf \in [Task -> 1 .. NumCycles]
  /\ WithOutput \subseteq Task
  /\ MinLocal \in Nat \ {0}
  /\ MaxAtOnce \in Nat \ {0}
  /\ NoTask \notin Task
  /\ IntMax \in Nat
  /\ Cardinality(Rank) < IntMax

VARIABLES
  \* --- application threads
  wpc,        \* where a thread is in chameleon_distributed_taskwait
  cycle,      \* the taskwait it is in, or creates tasks for
  thisIdle,   \* its this_thread_idle
  cur,        \* the task it executes, or NoTask
  \* --- state a rank's threads share
  loc, host,  \* where every task is
  localOut,   \* _num_local_tasks_outstanding
  remoteOut,  \* _num_remote_tasks_outstanding
  numIdle,    \* _num_threads_idle
  dtwActive,  \* _flag_dtw_active; the team's size is known while it is set
  endedCount, \* _comm_threads_ended_count
  finished,   \* _num_threads_finished_dtw
  ranksBusy,  \* _num_ranks_not_completely_idle
  outSum,     \* _outstanding_jobs_sum, and once there was an exchange
              \* _session_data.last_known_sum_outstanding
  exchanged,  \* _comm_thread_load_exchange_happend
  sleeping,   \* _flag_comm_thread_sleeping
  stopped,    \* _comm_thread_service_stopped
  \* --- the communication thread's own state
  cpc,        \* where it is in action_communication_progression
  sleepSet,   \* _session_data.flag_thread_sleeping_set
  gatherReq,  \* _session_data.request_gather_created
  gathered,   \* the outstanding jobs summed from buffer_load_values
  offloaded,  \* _session_data.offload_triggered
  tagCount,   \* tag_counter_send_tasks
  lastTag,    \* _session_data.tracked_last_req_recv
  active,     \* _active_migrations_per_target_rank
  offMap,     \* the ids in _map_offloaded_tasks_with_outputs
  backReqs,   \* stolen tasks whose sendBack request is not complete
  \* --- MPI
  offers,     \* offload messages, sent or being received
  gathers     \* gathers[r][q]: q's contributions r has not yet collected

appVars  == <<wpc, cycle, thisIdle, cur>>
taskVars == <<loc, host, localOut, remoteOut>>
dtwVars  == <<dtwActive, endedCount, finished>>
exitVars == <<ranksBusy, outSum, exchanged>>
sleepVars == <<sleeping, stopped>>
sendVars == <<offloaded, tagCount, active, offMap, offers>>
commVars == <<cpc, sleepSet, gatherReq, gathered, lastTag, backReqs,
              gathers>>
vars == <<appVars, taskVars, numIdle, dtwVars, exitVars, sleepVars, sendVars,
          commVars>>

(***************************************************************************)
(* The task lists of a rank, as sets.                                      *)
(***************************************************************************)
TasksAt(r, place) == {t \in Task : loc[t] = place /\ host[t] = r}
LocalTasks(r)  == TasksAt(r, "local")      \* _local_tasks
StolenTasks(r) == TasksAt(r, "stolen")     \* _stolen_remote_tasks
SendBack(r)    == TasksAt(r, "sendBack")   \* _remote_tasks_send_back

Locations == {"new", "local", "running", "offer", "stolen", "runningStolen",
              "sendBack", "backWire", "backRecv", "done"}

(* _num_threads_involved_in_taskwait and _session_data.num_threads_in_tw:  *)
(* the team's size between dtw_startup and dtw_teardown, INT_MAX outside.  *)
Involved(r) == IF dtwActive[r] THEN NumThreads(r) ELSE IntMax

-----------------------------------------------------------------------------
Init ==
  /\ wpc = [w \in Worker |-> "work"]
  /\ cycle = [w \in Worker |-> 1]
  /\ thisIdle = [w \in Worker |-> FALSE]
  /\ cur = [w \in Worker |-> NoTask]
  /\ loc = [t \in Task |-> "new"]
  /\ host = [t \in Task |-> Home(t)]
  /\ localOut = [r \in Rank |-> 0]
  /\ remoteOut = [r \in Rank |-> 0]
  /\ numIdle = [r \in Rank |-> 0]
  /\ dtwActive = [r \in Rank |-> FALSE]
  /\ endedCount = [r \in Rank |-> 0]
  /\ finished = [r \in Rank |-> 0]
  /\ ranksBusy = [r \in Rank |-> IntMax]
  /\ outSum = [r \in Rank |-> 0]
  /\ exchanged = [r \in Rank |-> FALSE]
  /\ sleeping = [r \in Rank |-> TRUE]
  /\ stopped = [r \in Rank |-> FALSE]
  /\ cpc = [r \in Rank |-> "top"]
  /\ sleepSet = [r \in Rank |-> FALSE]
  /\ gatherReq = [r \in Rank |-> FALSE]
  /\ gathered = [r \in Rank |-> 0]
  /\ offloaded = [r \in Rank |-> FALSE]
  /\ tagCount = [r \in Rank |-> 0]
  /\ lastTag = [r \in Rank |-> [q \in Rank |-> -1]]
  /\ active = [r \in Rank |-> [q \in Rank |-> 0]]
  /\ offMap = [r \in Rank |-> {}]
  /\ backReqs = [r \in Rank |-> {}]
  /\ offers = {}
  /\ gathers = [r \in Rank |-> [q \in Rank |-> <<>>]]

-----------------------------------------------------------------------------
(***************************************************************************)
(* Application threads.                                                    *)
(***************************************************************************)
Goto(w, place) == wpc' = [wpc EXCEPT ![w] = place]

AddTask(w, t) ==                                     \* chameleon_add_task
  /\ wpc[w] = "work" /\ Creator[t] = w /\ CycleOf[t] = cycle[w]
  /\ loc[t] = "new"
  /\ loc' = [loc EXCEPT ![t] = "local"]
  /\ localOut' = [localOut EXCEPT ![RankOf(w)] = @ + 1]
  /\ UNCHANGED <<appVars, host, remoteOut, numIdle, dtwVars, exitVars,
                 sleepVars, sendVars, commVars>>

\* MUTANT of EnterTaskwait: the communication thread is not woken up
EnterTaskwaitNoWake(w) ==
  LET r == RankOf(w) IN
  /\ wpc[w] = "work"
  /\ \A t \in Task : Creator[t] = w /\ CycleOf[t] = cycle[w] => loc[t] # "new"
  /\ Goto(w, "stolen")
  /\ thisIdle' = [thisIdle EXCEPT ![w] = FALSE]
  /\ dtwActive' = [dtwActive EXCEPT ![r] = TRUE]
  /\ UNCHANGED <<cycle, cur, taskVars, numIdle, endedCount, finished, exitVars,
                 sleepVars, sendVars, commVars>>

EnterTaskwait(w) ==       \* dtw_startup, chameleon_wake_up_comm_threads
  LET r == RankOf(w) IN
  /\ wpc[w] = "work"
  /\ \A t \in Task : Creator[t] = w /\ CycleOf[t] = cycle[w] => loc[t] # "new"
  /\ Goto(w, "stolen")
  /\ thisIdle' = [thisIdle EXCEPT ![w] = FALSE]
  /\ \/ /\ dtwActive[r]
        /\ UNCHANGED <<numIdle, dtwVars, exitVars>>
     \/ /\ ~dtwActive[r]
        /\ dtwActive' = [dtwActive EXCEPT ![r] = TRUE]
        /\ numIdle' = [numIdle EXCEPT ![r] = 0]
        /\ finished' = [finished EXCEPT ![r] = 0]
        /\ exchanged' = [exchanged EXCEPT ![r] = FALSE]
        /\ UNCHANGED <<endedCount, ranksBusy, outSum>>
  /\ sleeping' = [sleeping EXCEPT ![r] = FALSE]
  /\ UNCHANGED <<cycle, cur, taskVars, stopped, sendVars, commVars>>

\* MUTANT of LookAt: the thread lowers the idle counter whether it was idle or not
LookAtUnasked(w, list, wake, pop) ==
  /\ list # {}
  /\ Goto(w, wake)
  /\ UNCHANGED <<cycle, thisIdle, cur, taskVars, numIdle, dtwVars, exitVars,
                 sleepVars, sendVars, commVars>>

(* A list is not empty when looked at: an idle thread stops being idle     *)
(* before it pops.                                                         *)
LookAt(w, list, wake, pop) ==
  /\ list # {}
  /\ Goto(w, IF thisIdle[w] THEN wake ELSE pop)
  /\ UNCHANGED <<cycle, thisIdle, cur, taskVars, numIdle, dtwVars, exitVars,
                 sleepVars, sendVars, commVars>>

\* MUTANT of StopIdling: the thread's own flag is not cleared
StopIdlingKeepFlag(w) ==
  /\ wpc[w] \in {"wakeStolen", "wakeLocal"}
  /\ Goto(w, IF wpc[w] = "wakeStolen" THEN "popStolen" ELSE "popLocal")
  /\ numIdle' = [numIdle EXCEPT ![RankOf(w)] = @ - 1]
  /\ UNCHANGED <<cycle, thisIdle, cur, taskVars, dtwVars, exitVars, sleepVars,
                 sendVars, commVars>>

StopIdling(w) ==
  /\ wpc[w] \in {"wakeStolen", "wakeLocal"}
  /\ Goto(w, IF wpc[w] = "wakeStolen" THEN "popStolen" ELSE "popLocal")
  /\ thisIdle' = [thisIdle EXCEPT ![w] = FALSE]
  /\ numIdle' = [numIdle EXCEPT ![RankOf(w)] = @ - 1]
  /\ UNCHANGED <<cycle, cur, taskVars, dtwVars, exitVars, sleepVars, sendVars,
                 commVars>>

Pop(w, list, run, place) ==
  /\ \E t \in list : /\ Goto(w, run)
                     /\ cur' = [cur EXCEPT ![w] = t]
                     /\ loc' = [loc EXCEPT ![t] = place]
  /\ UNCHANGED <<cycle, thisIdle, host, localOut, remoteOut, numIdle, dtwVars,
                 exitVars, sleepVars, sendVars, commVars>>

LookForStolen(w) == /\ wpc[w] = "stolen"
                    /\ LookAt(w, StolenTasks(RankOf(w)), "wakeStolen", "popStolen")
PopStolen(w)     == /\ wpc[w] = "popStolen"
                    /\ Pop(w, StolenTasks(RankOf(w)), "runStolen", "runningStolen")
LookForLocal(w)  == /\ wpc[w] = "local"
                    /\ LookAt(w, LocalTasks(RankOf(w)), "wakeLocal", "popLocal")
PopLocal(w)      == /\ wpc[w] = "popLocal"
                    /\ Pop(w, LocalTasks(RankOf(w)), "runLocal", "running")

(* The list is empty when looked at, or was emptied before the pop.        *)
NoStolen(w) ==
  /\ wpc[w] \in {"stolen", "popStolen"} /\ StolenTasks(RankOf(w)) = {}
  /\ Goto(w, "local")
  /\ UNCHANGED <<cycle, thisIdle, cur, taskVars, numIdle, dtwVars, exitVars,
                 sleepVars, sendVars, commVars>>

\* MUTANT of BeIdle: an idle thread is counted each time it finds nothing
BeIdleAgain(w) ==
  LET r == RankOf(w) IN
  /\ wpc[w] \in {"local", "popLocal"} /\ LocalTasks(r) = {}
  /\ thisIdle' = [thisIdle EXCEPT ![w] = TRUE]
  /\ numIdle' = [numIdle EXCEPT ![r] = @ + 1]
  /\ Goto(w, IF NumThreads(r) = 1 THEN "checkRanks" ELSE "check")
  /\ UNCHANGED <<cycle, cur, taskVars, dtwVars, exitVars, sleepVars, sendVars,
                 commVars>>

(* The last list is empty too (the replicated lists are, in this build):   *)
(* the thread is idle.  One that is alone in its team is the last of it.   *)
BeIdle(w) ==
  LET r == RankOf(w) IN
  /\ wpc[w] \in {"local", "popLocal"} /\ LocalTasks(r) = {}
  /\ thisIdle' = [thisIdle EXCEPT ![w] = TRUE]
  /\ numIdle' = [numIdle EXCEPT ![r] = IF thisIdle[w] THEN @ ELSE @ + 1]
  /\ Goto(w, IF NumThreads(r) = 1 THEN "checkRanks" ELSE "check")
  /\ UNCHANGED <<cycle, cur, taskVars, dtwVars, exitVars, sleepVars, sendVars,
                 commVars>>

RunStolen(w) ==                                      \* process_remote_task
  LET t == cur[w] IN
  /\ wpc[w] = "runStolen"
  /\ Goto(w, "stolen")
  /\ cur' = [cur EXCEPT ![w] = NoTask]
  /\ \/ /\ t \in WithOutput
        /\ loc' = [loc EXCEPT ![t] = "sendBack"]
        /\ UNCHANGED remoteOut
     \/ /\ t \notin WithOutput
        /\ loc' = [loc EXCEPT ![t] = "done"]
        /\ remoteOut' = [remoteOut EXCEPT ![RankOf(w)] = @ - 1]
  /\ UNCHANGED <<cycle, thisIdle, host, localOut, numIdle, dtwVars, exitVars,
                 sleepVars, sendVars, commVars>>

RunLocal(w) ==                                        \* process_local_task
  /\ wpc[w] = "runLocal"
  /\ Goto(w, "stolen")
  /\ cur' = [cur EXCEPT ![w] = NoTask]
  /\ loc' = [loc EXCEPT ![cur[w]] = "done"]
  /\ localOut' = [localOut EXCEPT ![RankOf(w)] = @ - 1]
  /\ UNCHANGED <<cycle, thisIdle, host, remoteOut, numIdle, dtwVars, exitVars,
                 sleepVars, sendVars, commVars>>

(* Is the whole team idle, when the thread looks?                          *)
CheckIdle(w) ==
  /\ wpc[w] = "check"
  /\ Goto(w, IF numIdle[RankOf(w)] >= NumThreads(RankOf(w)) THEN "checkRanks"
             ELSE "stolen")
  /\ UNCHANGED <<cycle, thisIdle, cur, taskVars, numIdle, dtwVars, exitVars,
                 sleepVars, sendVars, commVars>>

(* exit_condition_met(1, 0) copies _num_ranks_not_completely_idle before   *)
(* it reads the other atomics.                                             *)
CheckRanks(w) ==
  /\ wpc[w] = "checkRanks"
  /\ Goto(w, IF ranksBusy[RankOf(w)] = 0 THEN "checkSum" ELSE "stolen")
  /\ UNCHANGED <<cycle, thisIdle, cur, taskVars, numIdle, dtwVars, exitVars,
                 sleepVars, sendVars, commVars>>

\* MUTANT of CheckSum: the outstanding jobs are not looked at
CheckSumBlind(w) ==
  /\ wpc[w] = "checkSum"
  /\ Goto(w, IF exchanged[RankOf(w)] THEN "left" ELSE "stolen")
  /\ UNCHANGED <<cycle, thisIdle, cur, taskVars, numIdle, dtwVars, exitVars,
                 sleepVars, sendVars, commVars>>

CheckSum(w) ==
  LET r == RankOf(w) IN
  /\ wpc[w] = "checkSum"
  /\ Goto(w, IF exchanged[r] /\ outSum[r] = 0 THEN "left" ELSE "stolen")
  /\ UNCHANGED <<cycle, thisIdle, cur, taskVars, numIdle, dtwVars, exitVars,
                 sleepVars, sendVars, commVars>>

LeaveBarrier(r) ==        \* the omp barrier of a taskwait without nowait
  /\ \A w \in WorkersOf(r) : wpc[w] = "left"
  /\ wpc' = [w \in Worker |-> IF RankOf(w) = r THEN "sleep" ELSE wpc[w]]
  /\ UNCHANGED <<cycle, thisIdle, cur, taskVars, numIdle, dtwVars, exitVars,
                 sleepVars, sendVars, commVars>>

\* MUTANT of PutCommToSleep: the last thread does not wait for service_stopped
PutCommToSleepNoWait(w) ==
  LET r == RankOf(w) IN
  /\ wpc[w] = "sleep"
  /\ endedCount' = [endedCount EXCEPT ![r] = @ + 1]
  /\ Goto(w, "teardown")
  /\ sleeping' = [sleeping EXCEPT ![r] = @ \/ endedCount[r] + 1 >= Involved(r)]
  /\ UNCHANGED <<cycle, thisIdle, cur, taskVars, numIdle, dtwActive, finished,
                 exitVars, stopped, sendVars, commVars>>

PutCommToSleep(w) ==                           \* put_comm_threads_to_sleep
  LET r == RankOf(w) IN
  /\ wpc[w] = "sleep"
  /\ endedCount' = [endedCount EXCEPT ![r] = @ + 1]
  /\ \/ /\ endedCount[r] + 1 < Involved(r)
        /\ Goto(w, "teardown")
        /\ UNCHANGED sleeping
     \/ /\ endedCount[r] + 1 >= Involved(r)
        /\ Goto(w, "spin")
        /\ sleeping' = [sleeping EXCEPT ![r] = TRUE]
  /\ UNCHANGED <<cycle, thisIdle, cur, taskVars, numIdle, dtwActive, finished,
                 exitVars, stopped, sendVars, commVars>>

SeeStopped(w) ==
  LET r == RankOf(w) IN
  /\ wpc[w] = "spin" /\ stopped[r]
  /\ Goto(w, "teardown")
  /\ endedCount' = [endedCount EXCEPT ![r] = 0]
  /\ stopped' = [stopped EXCEPT ![r] = FALSE]
  /\ UNCHANGED <<cycle, thisIdle, cur, taskVars, numIdle, dtwActive, finished,
                 exitVars, sleeping, sendVars, commVars>>

Teardown(w) ==                                             \* dtw_teardown
  LET r == RankOf(w) IN
  /\ wpc[w] = "teardown"
  /\ Goto(w, "done")
  /\ finished' = [finished EXCEPT ![r] = @ + 1]
  /\ \/ /\ finished[r] + 1 < Involved(r)
        /\ UNCHANGED <<numIdle, dtwActive, ranksBusy, exchanged>>
     \/ /\ finished[r] + 1 >= Involved(r)
        /\ exchanged' = [exchanged EXCEPT ![r] = FALSE]
        /\ numIdle' = [numIdle EXCEPT ![r] = 0]
        /\ ranksBusy' = [ranksBusy EXCEPT ![r] = IntMax]
        /\ dtwActive' = [dtwActive EXCEPT ![r] = FALSE]
  /\ UNCHANGED <<cycle, thisIdle, cur, taskVars, endedCount, outSum, sleepVars,
                 sendVars, commVars>>

NextCycle(r) ==                 \* the barrier that ends dtw_teardown
  /\ \A w \in WorkersOf(r) : wpc[w] = "done"
  /\ \E c \in 1 .. NumCycles :
       /\ \A w \in WorkersOf(r) : cycle[w] = c
       /\ wpc' = [w \in Worker |-> IF RankOf(w) # r THEN wpc[w]
                                   ELSE IF c < NumCycles THEN "work" ELSE "end"]
       /\ cycle' = [w \in Worker |-> IF RankOf(w) = r /\ c < NumCycles
                                     THEN c + 1 ELSE cycle[w]]
  /\ UNCHANGED <<thisIdle, cur, taskVars, numIdle, dtwVars, exitVars, sleepVars,
                 sendVars, commVars>>

-----------------------------------------------------------------------------
(***************************************************************************)
(* The communication thread: comm_thread_action's loop around              *)
(* action_communication_progression(1).                                    *)
(***************************************************************************)
CommGoto(r, place) == cpc' = [cpc EXCEPT ![r] = place]

CommSleep(r) ==        \* comm_thread_action, sleeping: cleanup_work_phase
  /\ cpc[r] = "top" /\ sleeping[r] /\ ~sleepSet[r]
  /\ sleepSet' = [sleepSet EXCEPT ![r] = TRUE]
  /\ offMap' = [offMap EXCEPT ![r] = {}]
  /\ UNCHANGED <<appVars, taskVars, numIdle, dtwVars, exitVars, sleepVars, cpc,
                 gatherReq, gathered, lastTag, backReqs, gathers,
                 offloaded, tagCount, active, offers>>

CommBegin(r) ==          \* comm_thread_action, awake: one more progression
  /\ cpc[r] = "top" /\ ~sleeping[r]
  /\ CommGoto(r, "progress")
  /\ \/ /\ ~sleepSet[r]
        /\ UNCHANGED <<sleepSet, tagCount, offMap, lastTag>>
     \/ /\ sleepSet[r]
        /\ sleepSet' = [sleepSet EXCEPT ![r] = FALSE]
        /\ tagCount' = [tagCount EXCEPT ![r] = 0]
        /\ offMap' = [offMap EXCEPT ![r] = {}]
        /\ lastTag' = [lastTag EXCEPT ![r] = [q \in Rank |-> -1]]
  /\ UNCHANGED <<appVars, taskVars, numIdle, dtwVars, exitVars, sleepVars,
                 gatherReq, gathered, backReqs, gathers, offloaded,
                 active, offers>>

\* MUTANT of CompleteSend: completes what was never sent
CompleteSendTwice(r, q) ==
  /\ cpc[r] = "progress" /\ q # r
  /\ active' = [active EXCEPT ![r][q] = @ - 1]
  /\ UNCHANGED <<appVars, taskVars, numIdle, dtwVars, exitVars, sleepVars,
                 commVars, offloaded, tagCount, offMap, offers>>

(***************************************************************************)
(* progressRequests: a handler runs for each request MPI reports complete. *)
(* MPI decides which; a request completed inside submitRequests is here    *)
(* one that completes at the next progressRequests.                        *)
(***************************************************************************)
CompleteSend(r, q) ==                                      \* send_handler
  /\ cpc[r] = "progress" /\ active[r][q] > 0
  /\ active' = [active EXCEPT ![r][q] = @ - 1]
  /\ UNCHANGED <<appVars, taskVars, numIdle, dtwVars, exitVars, sleepVars,
                 commVars, offloaded, tagCount, offMap, offers>>

CompleteSendBack(r, t) ==                             \* send_back_handler
  /\ cpc[r] = "progress" /\ t \in backReqs[r]
  /\ backReqs' = [backReqs EXCEPT ![r] = @ \ {t}]
  /\ remoteOut' = [remoteOut EXCEPT ![r] = @ - 1]
  /\ UNCHANGED <<appVars, loc, host, localOut, numIdle, dtwVars, exitVars,
                 sleepVars, sendVars, cpc, sleepSet, gatherReq, gathered,
                 lastTag, gathers>>

CompleteMeta(r, m) ==            \* receive_handler: then receives the data
  /\ cpc[r] = "progress" /\ m.to = r /\ m.stage = "meta"
  /\ remoteOut' = [remoteOut EXCEPT ![r] = @ + Cardinality(m.tasks)]
  /\ offers' = (offers \ {m}) \cup {[m EXCEPT !.stage = "data"]}
  /\ UNCHANGED <<appVars, loc, host, localOut, numIdle, dtwVars, exitVars,
                 sleepVars, commVars, offloaded, tagCount, active, offMap>>

CompleteData(r, m) ==                              \* receive_handler_data
  /\ cpc[r] = "progress" /\ m.to = r /\ m.stage = "data"
  /\ offers' = offers \ {m}
  /\ loc' = [t \in Task |-> IF t \in m.tasks THEN "stolen" ELSE loc[t]]
  /\ host' = [t \in Task |-> IF t \in m.tasks THEN r ELSE host[t]]
  /\ UNCHANGED <<appVars, localOut, remoteOut, numIdle, dtwVars, exitVars,
                 sleepVars, commVars, offloaded, tagCount, active, offMap>>

\* MUTANT of CompleteBack: the local task is not counted as finished
CompleteBackUncounted(r, t) ==
  /\ cpc[r] = "progress" /\ Home(t) = r /\ loc[t] = "backRecv"
  /\ loc' = [loc EXCEPT ![t] = "done"]
  /\ UNCHANGED <<appVars, host, localOut, remoteOut, numIdle, dtwVars, exitVars,
                 sleepVars, sendVars, commVars>>

CompleteBack(r, t) ==                              \* receive_back_handler
  /\ cpc[r] = "progress" /\ Home(t) = r /\ loc[t] = "backRecv"
  /\ loc' = [loc EXCEPT ![t] = "done"]
  /\ localOut' = [localOut EXCEPT ![r] = @ - 1]
  /\ UNCHANGED <<appVars, host, remoteOut, numIdle, dtwVars, exitVars,
                 sleepVars, sendVars, commVars>>

\* MUTANT of Sample: tasks sent away are no longer the sender's
SampleHeldOnly(r) == [busy |-> IF numIdle[r] < Involved(r) THEN 1 ELSE 0,
                      out  |-> Cardinality(LocalTasks(r)) + remoteOut[r]]

(***************************************************************************)
(* The load exchange.  A contribution is read as one: the counters are     *)
(* read after the idle counter, and meanwhile only a thread that is not    *)
(* idle lowers one of them (of tasks with an output, which the passing     *)
(* runs have).                                                             *)
(***************************************************************************)
\* a rank's contribution: is a thread busy, and its outstanding jobs
Sample(r) == [busy |-> IF numIdle[r] < Involved(r) THEN 1 ELSE 0,
              out  |-> localOut[r] + remoteOut[r]]

PostGather(r) ==                            \* action_create_gather_request
  /\ cpc[r] = "progress" /\ ~gatherReq[r]
  /\ CommGoto(r, "test")
  /\ gatherReq' = [gatherReq EXCEPT ![r] = TRUE]
  /\ gathers' = [q \in Rank |-> [gathers[q] EXCEPT ![r] = Append(@, Sample(r))]]
  /\ UNCHANGED <<appVars, taskVars, numIdle, dtwVars, exitVars, sleepVars,
                 sendVars, sleepSet, gathered, lastTag, backReqs>>

(* The exchange is posted, in this pass or an earlier one: MPI_Test it.    *)
AtTest(r) == cpc[r] = "test" \/ (cpc[r] = "progress" /\ gatherReq[r])
(* ... or, when the test fails or the exit condition does, go on.          *)
AtMigrate(r) == cpc[r] = "migrate" \/ AtTest(r)

(* The sums over a round, one contribution s[q] of each rank q.            *)
BusyRanks(s) == Cardinality({q \in Rank : s[q].busy = 1})
TotalOut(s) == Cardinality({x \in Rank \X (1 .. IntMax) : x[2] <= s[x[1]].out})

\* MUTANT of CollectGather: every entry of the buffer is read at this rank's offset
CollectGatherOwn(r) ==
  LET round == [q \in Rank |-> Head(gathers[r][r])] IN
  /\ AtTest(r) /\ \A q \in Rank : gathers[r][q] # <<>>
  /\ CommGoto(r, "sum")
  /\ gathers' = [gathers EXCEPT ![r] = [q \in Rank |-> Tail(gathers[r][q])]]
  /\ ranksBusy' = [ranksBusy EXCEPT ![r] = BusyRanks(round)]
  /\ gathered' = [gathered EXCEPT ![r] = TotalOut(round)]
  /\ UNCHANGED <<appVars, taskVars, numIdle, dtwVars, outSum, exchanged,
                 sleepVars, sendVars, sleepSet, gatherReq, lastTag,
                 backReqs>>

CollectGather(r) ==    \* action_handle_gather_request, up to the rank count
  LET round == [q \in Rank |-> Head(gathers[r][q])] IN
  /\ AtTest(r) /\ \A q \in Rank : gathers[r][q] # <<>>
  /\ CommGoto(r, "sum")
  /\ gathers' = [gathers EXCEPT ![r] = [q \in Rank |-> Tail(gathers[r][q])]]
  /\ ranksBusy' = [ranksBusy EXCEPT ![r] = BusyRanks(round)]
  /\ gathered' = [gathered EXCEPT ![r] = TotalOut(round)]
  /\ UNCHANGED <<appVars, taskVars, numIdle, dtwVars, outSum, exchanged,
                 sleepVars, sendVars, sleepSet, gatherReq, lastTag,
                 backReqs>>

\* MUTANT of StoreSum: the exit condition is not tested after the exchange
StoreSumNoExit(r) ==
  /\ cpc[r] = "sum"
  /\ CommGoto(r, "migrate")
  /\ outSum' = [outSum EXCEPT ![r] = gathered[r]]
  /\ exchanged' = [exchanged EXCEPT ![r] = TRUE]
  /\ gatherReq' = [gatherReq EXCEPT ![r] = FALSE]
  /\ offloaded' = [offloaded EXCEPT ![r] = @ /\ outSum[r] = gathered[r]]
  /\ gathered' = [gathered EXCEPT ![r] = 0]
  /\ UNCHANGED <<appVars, taskVars, numIdle, dtwVars, ranksBusy, sleepVars,
                 sleepSet, lastTag, backReqs, gathers, tagCount, active, offMap,
                 offers>>

StoreSum(r) ==                           \* action_handle_gather_request
  /\ cpc[r] = "sum"
  /\ CommGoto(r, IF gathered[r] = 0 /\ ranksBusy[r] = 0 THEN "exit" ELSE "migrate")
  /\ outSum' = [outSum EXCEPT ![r] = gathered[r]]
  /\ exchanged' = [exchanged EXCEPT ![r] = TRUE]
  /\ gatherReq' = [gatherReq EXCEPT ![r] = FALSE]
  /\ offloaded' = [offloaded EXCEPT ![r] = @ /\ outSum[r] = gathered[r]]
  /\ gathered' = [gathered EXCEPT ![r] = 0]
  /\ UNCHANGED <<appVars, taskVars, numIdle, dtwVars, ranksBusy, sleepVars,
                 sleepSet, lastTag, backReqs, gathers, tagCount,
                 active, offMap, offers>>

ExitConditionMet(r) ==                          \* exit_condition_met(0, 1)
  /\ numIdle[r] >= Involved(r)
  /\ exchanged[r] /\ outSum[r] = 0 /\ ranksBusy[r] = 0

CommExit(r) ==
  /\ cpc[r] = "exit" /\ ExitConditionMet(r)
  /\ CommGoto(r, "top")
  /\ sleeping' = [sleeping EXCEPT ![r] = TRUE]
  /\ stopped' = [stopped EXCEPT ![r] = TRUE]
  /\ sleepSet' = [sleepSet EXCEPT ![r] = TRUE]
  /\ offMap' = [offMap EXCEPT ![r] = {}]
  /\ UNCHANGED <<appVars, taskVars, numIdle, dtwVars, exitVars, gatherReq,
                 gathered, lastTag, backReqs, gathers, offloaded,
                 tagCount, active, offers>>

CommStay(r) ==
  /\ cpc[r] = "exit" /\ ~ExitConditionMet(r)
  /\ CommGoto(r, "migrate")
  /\ UNCHANGED <<appVars, taskVars, numIdle, dtwVars, exitVars, sleepVars,
                 sendVars, sleepSet, gatherReq, gathered, lastTag,
                 backReqs, gathers>>

(***************************************************************************)
(* Migration and its messages.  With no tool attached                      *)
(* compute_num_tasks_to_offload names at most one target, and how many     *)
(* tasks it gets depends on loads that may be out of date: any one target  *)
(* that has no active migration, and any number of tasks up to the limit.  *)
(***************************************************************************)
MayMigrate(r) == /\ exchanged[r] /\ ~offloaded[r]
                 /\ Cardinality(LocalTasks(r)) >= MinLocal

\* offload_action: the meta data and the data, under one tag
OfferOf(r, q, S) == [from |-> r, to |-> q, tag |-> tagCount[r], tasks |-> S,
                     stage |-> "wire"]

\* MUTANT of Migrate: the tasks are not entered in the map of offloaded tasks
MigrateNoEntry(r, q, S) ==
  /\ AtMigrate(r) /\ MayMigrate(r)
  /\ q # r /\ active[r][q] = 0
  /\ S # {} /\ S \subseteq LocalTasks(r) /\ Cardinality(S) <= MaxAtOnce
  /\ CommGoto(r, "poll")
  /\ loc' = [t \in Task |-> IF t \in S THEN "offer" ELSE loc[t]]
  /\ offers' = offers \cup {OfferOf(r, q, S)}
  /\ tagCount' = [tagCount EXCEPT ![r] = @ + 1]
  /\ active' = [active EXCEPT ![r][q] = @ + 1]
  /\ offloaded' = [offloaded EXCEPT ![r] = TRUE]
  /\ UNCHANGED <<appVars, host, localOut, remoteOut, numIdle, dtwVars, exitVars,
                 sleepVars, sleepSet, gatherReq, gathered, lastTag, backReqs,
                 gathers, offMap>>

Migrate(r, q, S) ==              \* action_task_migration, offload_action
  /\ AtMigrate(r) /\ MayMigrate(r)
  /\ q # r /\ active[r][q] = 0
  /\ S # {} /\ S \subseteq LocalTasks(r) /\ Cardinality(S) <= MaxAtOnce
  /\ CommGoto(r, "poll")
  /\ loc' = [t \in Task |-> IF t \in S THEN "offer" ELSE loc[t]]
  /\ offers' = offers \cup {OfferOf(r, q, S)}
  /\ tagCount' = [tagCount EXCEPT ![r] = @ + 1]
  /\ active' = [active EXCEPT ![r][q] = @ + 1]
  /\ offMap' = [offMap EXCEPT ![r] = @ \cup (S \cap WithOutput)]
  /\ offloaded' = [offloaded EXCEPT ![r] = TRUE]
  /\ UNCHANGED <<appVars, host, localOut, remoteOut, numIdle, dtwVars, exitVars,
                 sleepVars, sleepSet, gatherReq, gathered, lastTag,
                 backReqs, gathers>>

(***************************************************************************)
(* The end of a pass: results B are sent back; then at most one offload    *)
(* message, M = {m}, is probed for and its receive posted; then the        *)
(* receives of the results of S.  MPI_Iprobe finds the first unreceived    *)
(* message of a source; the second message of an offload carries the tag   *)
(* of the first and is passed over.  A probe may find nothing.  Last, the  *)
(* sleeping flag is read at the top of the loop.                           *)
(***************************************************************************)
AtPoll(r) == cpc[r] = "poll" \/ AtMigrate(r)   \* no task need be migrated

FirstOffer(r, m) ==
  /\ m.to = r /\ m.stage = "wire" /\ m.tag # lastTag[r][m.from]
  /\ \A n \in offers : n.to = r /\ n.from = m.from /\ n.stage # "data"
                         => m.tag <= n.tag

OnWire(r) == {t \in Task : Home(t) = r /\ loc[t] = "backWire"}

\* action_send_back_stolen_tasks, for at most n_task_send_at_once tasks
SendsBack(r, B) == /\ B \subseteq SendBack(r) /\ Cardinality(B) <= MaxAtOnce
                   /\ B = SendBack(r) \/ Cardinality(B) = MaxAtOnce
\* action_handle_recv_request
FindsOffer(r, M) == Cardinality(M) <= 1 /\ \A m \in M : FirstOffer(r, m)
\* action_handle_recvback_request, which looks the task up in the map
FindsResults(r, S) == S \subseteq OnWire(r) \cap offMap[r] /\ Cardinality(S) <= MaxAtOnce

Poll(r, B, M, S) ==
  /\ AtPoll(r)
  /\ SendsBack(r, B) /\ FindsOffer(r, M) /\ FindsResults(r, S)
  /\ CommGoto(r, IF sleeping[r] THEN "top" ELSE "progress")
  /\ backReqs' = [backReqs EXCEPT ![r] = @ \cup B]
  /\ lastTag' = [lastTag EXCEPT ![r] = [q \in Rank |->
                   IF \E m \in M : m.from = q
                   THEN (CHOOSE m \in M : m.from = q).tag ELSE @[q]]]
  /\ offers' = (offers \ M) \cup {[m EXCEPT !.stage = "meta"] : m \in M}
  /\ loc' = [t \in Task |-> IF t \in B THEN "backWire"
                            ELSE IF t \in S THEN "backRecv" ELSE loc[t]]
  /\ UNCHANGED <<appVars, host, localOut, remoteOut, numIdle, dtwVars, exitVars,
                 sleepVars, sleepSet, gatherReq, gathered, gathers,
                 offloaded, tagCount, active, offMap>>

-----------------------------------------------------------------------------
WorkerStep(w) ==
  \/ \E t \in Task : AddTask(w, t)
  \/ EnterTaskwait(w)
  \/ LookForStolen(w) \/ PopStolen(w) \/ NoStolen(w) \/ RunStolen(w)
  \/ LookForLocal(w) \/ PopLocal(w) \/ RunLocal(w) \/ StopIdling(w)
  \/ BeIdle(w) \/ CheckIdle(w) \/ CheckRanks(w) \/ CheckSum(w)
  \/ PutCommToSleep(w) \/ SeeStopped(w) \/ Teardown(w)

TeamStep(r) == LeaveBarrier(r) \/ NextCycle(r)

Complete(r) ==
  \/ \E q \in Rank : CompleteSend(r, q)
  \/ \E t \in Task : CompleteSendBack(r, t) \/ CompleteBack(r, t)
  \/ \E m \in offers : CompleteMeta(r, m) \/ CompleteData(r, m)

Polls(r) == \E B \in SUBSET SendBack(r), M \in SUBSET offers, S \in SUBSET OnWire(r) :
              Poll(r, B, M, S)
ReceiveOffer(r) == \E m \in offers, B \in SUBSET SendBack(r), S \in SUBSET OnWire(r) :
                     Poll(r, B, {m}, S)
ReceiveBack(r) == \E t \in OnWire(r), M \in SUBSET offers :
                    \E B \in SUBSET SendBack(r), S \in SUBSET OnWire(r) :
                      t \in S /\ Poll(r, B, M, S)

CommStep(r) ==
  \/ CommSleep(r) \/ CommBegin(r) \/ Complete(r)
  \/ PostGather(r) \/ CollectGather(r) \/ StoreSum(r)
  \/ CommExit(r) \/ CommStay(r)
  \/ \E q \in Rank, S \in SUBSET LocalTasks(r) : Migrate(r, q, S)
  \/ Polls(r)

(* The application is finished: every thread has left its last taskwait.   *)
Finished == /\ \A w \in Worker : wpc[w] = "end"
            /\ UNCHANGED vars

Next ==
  \/ \E w \in Worker : WorkerStep(w)
  \/ \E r \in Rank : TeamStep(r) \/ CommStep(r)
  \/ Finished

Spec == Init /\ [][Next]_vars

(***************************************************************************)
(* Every thread keeps running, and so does the communication thread, which *)
(* polls MPI in every pass of its loop; a pass that does nothing changes   *)
(* nothing here, so weak fairness asks for a pass that does something.     *)
(* MPI's progress rule makes a matched message, tested or probed for over  *)
(* and over, complete eventually: strong fairness, as the tests come and   *)
(* go.                                                                     *)
(***************************************************************************)
Fairness ==
  /\ \A w \in Worker : WF_vars(WorkerStep(w))
  /\ \A r \in Rank :
       /\ WF_vars(TeamStep(r)) /\ WF_vars(CommStep(r))
       /\ SF_vars(Complete(r)) /\ SF_vars(ReceiveOffer(r)) /\ SF_vars(ReceiveBack(r))

FairSpec == Spec /\ Fairness

-----------------------------------------------------------------------------
(***************************************************************************)
(* Properties.                                                             *)
(***************************************************************************)
LoopPlaces == {"stolen", "wakeStolen", "popStolen", "runStolen",
               "local", "wakeLocal", "popLocal", "runLocal",
               "check", "checkRanks", "checkSum"}
LeftPlaces == {"left", "sleep", "spin", "teardown", "done"}
WorkerPlaces == {"work", "end"} \cup LoopPlaces \cup LeftPlaces
CommPlaces == {"top", "progress", "test", "sum", "exit", "migrate", "poll"}
Offer == [from : Rank, to : Rank, tag : Nat, tasks : SUBSET Task,
          stage : {"wire", "meta", "data"}]
Contribution == [busy : {0, 1}, out : Int]

(* The types of the variables (commthread.cpp 25-120).                     *)
AppTypeOK ==
  /\ wpc \in [Worker -> WorkerPlaces]
  /\ cycle \in [Worker -> 1 .. NumCycles]
  /\ thisIdle \in [Worker -> BOOLEAN]
  /\ cur \in [Worker -> Task \cup {NoTask}]
TaskTypeOK ==
  /\ loc \in [Task -> Locations] /\ host \in [Task -> Rank]
  /\ localOut \in [Rank -> Int] /\ remoteOut \in [Rank -> Int]
DtwTypeOK ==
  /\ numIdle \in [Rank -> Int] /\ dtwActive \in [Rank -> BOOLEAN]
  /\ endedCount \in [Rank -> Nat] /\ finished \in [Rank -> Nat]
  /\ ranksBusy \in [Rank -> Nat] /\ outSum \in [Rank -> Nat]
  /\ exchanged \in [Rank -> BOOLEAN]
  /\ sleeping \in [Rank -> BOOLEAN] /\ stopped \in [Rank -> BOOLEAN]
CommTypeOK ==
  /\ cpc \in [Rank -> CommPlaces]
  /\ sleepSet \in [Rank -> BOOLEAN] /\ gatherReq \in [Rank -> BOOLEAN]
  /\ gathered \in [Rank -> Nat]
  /\ lastTag \in [Rank -> [Rank -> Nat \cup {-1}]]
  /\ backReqs \in [Rank -> SUBSET Task]
  /\ gathers \in [Rank -> [Rank -> Seq(Contribution)]]
SendTypeOK ==
  /\ offloaded \in [Rank -> BOOLEAN] /\ tagCount \in [Rank -> Nat]
  /\ active \in [Rank -> [Rank -> Nat]] /\ offMap \in [Rank -> SUBSET Task]
  /\ offers \subseteq Offer
TypeOK == AppTypeOK /\ TaskTypeOK /\ DtwTypeOK /\ CommTypeOK /\ SendTypeOK

(* A thread is between the start of its taskwait and the end of its loop.  *)
InLoop(w) == wpc[w] \in LoopPlaces
Left(w) == wpc[w] \in LeftPlaces

(* _num_local_tasks_outstanding counts the tasks created here that are not *)
(* finished, and _num_remote_tasks_outstanding the stolen tasks held here  *)
(* until their result is sent: six handlers on two kinds of thread keep    *)
(* them up to date.                                                        *)
HeldFor(r) == UNION {m.tasks : m \in {n \in offers : n.to = r /\ n.stage = "data"}}
Held(r) == HeldFor(r) \cup StolenTasks(r) \cup TasksAt(r, "runningStolen")
             \cup SendBack(r) \cup backReqs[r]
Unfinished(r) == {t \in Task : Home(t) = r /\ loc[t] \notin {"new", "done"}}
OutstandingCounts ==
  \A r \in Rank : /\ localOut[r] = Cardinality(Unfinished(r))
                  /\ remoteOut[r] = Cardinality(Held(r))

(* The idle counter counts the threads that are idle; one that executes a  *)
(* task is not counted.                                                    *)
IdleWorkers(r) == {w \in WorkersOf(r) : thisIdle[w] /\ wpc[w] # "work"}
IdleCount ==
  \A r \in Rank : dtwActive[r] =>
    /\ numIdle[r] = Cardinality(IdleWorkers(r))
    /\ \A w \in WorkersOf(r) : thisIdle[w] => cur[w] = NoTask

(* A thread leaves a taskwait only when every thread of every rank entered *)
(* it and every task created for it, or before, is finished.               *)
NoEarlyLeave ==
  \A w \in Worker : Left(w) =>
    /\ \A v \in Worker : cycle[v] > cycle[w] \/ (cycle[v] = cycle[w] /\ wpc[v] # "work")
    /\ \A t \in Task : CycleOf[t] <= cycle[w] => loc[t] = "done"

(* The runtime keeps the promise of DistributedTaskwait.                   *)
Promise == INSTANCE DistributedTaskwait WITH
  task  <- [t \in Task |-> IF loc[t] \in {"new", "done"} THEN loc[t] ELSE "open"],
  place <- [w \in Worker |-> IF wpc[w] = "work" THEN "out"
                             ELSE IF InLoop(w) THEN "in" ELSE "left"],
  round <- cycle
KeepsPromise == Promise!ASpec

(* While a team is outside the taskwait its communication thread sleeps.   *)
QuietOutside ==
  \A r \in Rank : ~dtwActive[r] => cpc[r] = "top" /\ sleeping[r]

(* The result of an offloaded task finds its entry in                      *)
(* _map_offloaded_tasks_with_outputs (the asserts of                       *)
(* action_handle_recvback_request and receive_back_handler).               *)
ResultHasEntry ==
  \A t \in Task : loc[t] \in {"offer", "stolen", "runningStolen", "sendBack",
                               "backWire", "backRecv"} /\ t \in WithOutput
                    => t \in offMap[Home(t)]

(* The communication thread stops its service only when all global work is *)
(* done: every thread entered the taskwait and every task is finished.     *)
(* (For one taskwait; the stop is the exit condition of                    *)
(* action_communication_progression.)                                      *)
AllWorkDone == /\ \A w \in Worker : wpc[w] # "work"
               /\ \A t \in Task : loc[t] = "done"
StopsWhenDone ==
  [][\A r \in Rank : stopped'[r] /\ ~stopped[r] => AllWorkDone]_vars

(* No Iallgather is posted once the iteration is finished.                 *)
NoGatherAfterLeave ==
  [][\A r \in Rank : gatherReq'[r] /\ ~gatherReq[r]
       => \E w \in WorkersOf(r) : ~Left(w)]_vars

(* A thread's loop ends: the threads of a team, each of them idle in turn  *)
(* and woken by the others' tasks, come to agree that nothing is left.     *)
LoopEnds == \A w \in Worker : InLoop(w) ~> Left(w)

(* The last thread of a team waits only until its communication thread     *)
(* sleeps ("wait until thread sleeps", put_comm_threads_to_sleep).         *)
WaitsUntilAsleep ==
  \A w \in Worker : wpc[w] = "spin" /\ sleepSet[RankOf(w)] ~> wpc[w] # "spin"

(* Every taskwait returns.                                                 *)
TaskwaitReturns == <>(\A w \in Worker : wpc[w] = "end")
=============================================================================
