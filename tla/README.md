# HCLmatrix in TLA+

HCLmatrix distributes matrix-multiplication tasks over MPI ranks in three ways:
with the Chameleon runtime, whose tasks migrate between ranks while the threads
of every rank wait in `chameleon_distributed_taskwait`; with BCL's one-sided
containers; and with HCL queues. This directory holds TLA+ models of that code,
the TLC configurations that check them, and theorems proved with TLAPS.
Paths below are relative to `src/`; line numbers are those of this commit.

## 1. Inventory

### Chameleon runtime (`task-based-runtimes/chameleon/src/`)

| part | state | operations | talks to |
|---|---|---|---|
| taskwait of the application threads (`chameleon.cpp`) | `_num_threads_idle`, `_num_threads_finished_dtw`, `_flag_dtw_active`, `_num_threads_involved_in_taskwait`, each thread's `this_thread_idle` | `chameleon_add_task`, `dtw_startup`, the work loop, `process_local_task`, `process_remote_task`, `dtw_teardown` | the task lists; the communication thread, through flags and counters |
| communication thread (`commthread.cpp`) | the task lists, `_num_local_tasks_outstanding`, `_num_remote_tasks_outstanding`, `_active_migrations_per_target_rank`, `_map_offloaded_tasks_with_outputs`, `_session_data` | one pass: progress requests, load exchange (`MPI_Iallgather`), exit test, migration, send back, probe and receive | the threads of its rank; its peers, through MPI |
| sleeping and waking (`commthread.cpp` 216-301, 2955-3020) | `_flag_comm_thread_sleeping`, `_comm_thread_service_stopped`, `_comm_threads_ended_count` | `chameleon_wake_up_comm_threads`, `put_comm_threads_to_sleep`, the sleeping branch of `comm_thread_action` | last thread of the team, communication thread |
| request manager (`request_manager.cpp`) | groups of MPI requests, counters per type | `submitRequests`, `progressRequests` | MPI; the handlers of `commthread.cpp` |
| offload strategy (`chameleon_strategies.cpp`) | none | `compute_num_tasks_to_offload` | called by `action_task_migration` |
| replication and cancellation | replicated lists, cancel requests | off in the default build | |
| tools, statistics | observers | | |

What is hard here: termination is decided from counters that threads, a
communication thread and MPI handlers change concurrently, and from a load
exchange whose contributions the ranks take at different times. Nothing is
locked across the counters. A taskwait is correct when no thread leaves it
before all global work is done, when every thread leaves it once it is, when
the counters count what they are named for, and when nothing of one taskwait
reaches into the next.

### BCL (`dist-stuff/bcl_examples/`)

| part | state | operations | what is hard |
|---|---|---|---|
| `containers/CircularQueue.hpp`, `FastQueue.hpp` | `head`, `tail`, `reserved_head`, `reserved_tail`, `data`; each rank's `head_buf`, `tail_buf` | `push`, `pop`, `size` and their vector, non-atomic and asynchronous forms; `resize`, `migrate` | one-sided atomics of many ranks; a failed operation gives back a ticket others have overtaken |
| `containers/HashMap.hpp`, `HashMapBuffer.hpp` | `hash_table`, `used` | `insert_or_assign`, `modify`, `find`, buffered insert | threads of all ranks claim, write, read and publish one slot, with one word as lock, state and readers' marks; the entry's put may arrive after the word says ready |
| `core/malloc.hpp` | `smem_heap`, `flist`, the chunks' headers | `local_malloc`, `local_free` | splitting and joining chunks in a doubly linked list kept in the memory itself |
| `task_stealing_queue/taskStealing.cpp` | one queue per rank, the tasks' results | execute, steal | termination by looking at queue sizes that calls in progress distort |

### HCL (`dist-stuff/hcl_examples/mxm_task_stealing_queue/main.cpp`)

One shared `hcl::queue` per server, a map of results; producers push, clients
test the size and pop. Hard: several clients between the test and the pop; the
map's keys serve two purposes (lines 190-285).

### The rest

Game of life, RPC and RDMA tutorials, one-sided MPI, dynamic loading and
serialization examples, accelerator kernels, regression models, StarPU and
Taskflow applications: straight-line uses of libraries with no protocol of
their own. They are listed in `PROJECT.json` as not modelled.

## 2. Plan

| order | module | what | state |
|---|---|---|---|
| 1 | `ChamTaskwait`, `DistributedTaskwait` | the distributed taskwait and its promise | done |
| 2 | `ChamTaskwaitProofs`, `ChamCountsProofs` | types, outstanding counters, idle counter, the sleeping protocol, the end of one taskwait, for all constants | done |
| 3 | `BclQueue`, `BoundedQueue`; `BclQueueProofs` | CircularQueue's tickets against a bounded FIFO; the refinement proved for all constants | done |
| 4 | `TaskStealing` | ranks that run and steal tasks; termination, no task lost or run twice | done |
| 5 | `RequestManager`, `RequestGroups` | groups, handlers and batches under test; a group's handler runs once | done |
| 6 | `ChamStrategy`, `ChamStrategyProofs` | `compute_num_tasks_to_offload` as a function of the loads; what the ranks' decisions add up to, for any loads | done |
| 7 | `BclHashMap`, `ConcurrentMap` | the slots' lock words; entries in flight; where no write is remote, the calls against one atomic map | done |
| 8 | `BclMalloc`, `SegmentAllocator` | chunks that tile the segment, a well linked list; the calls against an allocator | done |
| 9 | `RequestManagerProofs`, `BclHashMapProofs`, `TaskStealingProofs`, `BclMallocProofs` | their safety and refinements, for all constants | done |
| 10 | `HclTaskStealing` | producers and clients over external HCL containers | open: the library's atomicity is not in the repository |
| 11 | `ChamReplication` | replicas and cancellation | last, off by default |

Composition. `ChamTaskwait` abstracts the request manager to what
`RequestManager` is shown to implement (`RequestGroups`: a group's handler runs
once, after the whole group completed) and the offload strategy to any choice
of a target and a number, which includes every choice `ChamStrategy` makes:
`StrategyFits` in `MCChamTaskwait`, an assumption TLC evaluates in every run of
that module, for up to four ranks and loads 0, 1, 3, 8. `TaskStealing` uses the
queue as `BclQueue` is proved to behave: elements leave in order, each once,
and the tickets in progress are what the counters differ by.

## 3. `ChamTaskwait`

The default build: `COMMUNICATION_MODE 0`, `THREAD_ACTIVATION 1`,
`ENABLE_TASK_MIGRATION 1`, `CHAM_REPLICATION_MODE 0`, no tool attached.

**State.** One variable for each counter and flag of the code, with its name
shortened (comments beside `VARIABLES` give the source's names). `loc` and
`host` stand for the task lists and the messages: a list is the set of the
tasks that are in it, because no property depends on the order in which a list
is served. `wpc` is where a thread is in the taskwait, `cpc` where a
communication thread is in its pass. `offers` are the offload messages, each
with a tag and a stage: on the wire, meta data being received, data being
received. `gathers[r][q]` are the contributions of rank q to exchanges that r
has not collected; a round can be collected when every rank contributed, which
is all that MPI promises of `MPI_Iallgather`.

**Actions, threads.** `AddTask`, `EnterTaskwait` (startup and wake-up),
`LookForStolen`/`LookForLocal` (the test for an empty list), `StopIdling` (the
decrement that follows it), `PopStolen`/`PopLocal`, `RunStolen`/`RunLocal`,
`NoStolen`, `BeIdle`, `CheckIdle`, `CheckRanks`, `CheckSum` (the three reads of
the exit test, in the code's order), `LeaveBarrier`, `PutCommToSleep`,
`SeeStopped`, `Teardown`, `NextCycle`. Looking at a list, lowering the idle
counter and popping are separate steps, because other threads and the
communication thread act in between; so are the reads of the exit test.

**Actions, communication thread.** `CommSleep`, `CommBegin`; the request
handlers `CompleteSend`, `CompleteSendBack`, `CompleteMeta`, `CompleteData`,
`CompleteBack`, which run in any number and order at the start of a pass;
`PostGather`; `CollectGather` and `StoreSum`, separate because
`action_handle_gather_request` stores the rank count and the sum one after the
other and threads read both; `CommExit`/`CommStay`; `Migrate`; `Poll`, the end
of the pass (results sent back, one offload received, results received).

**Abstractions.** A task's data and arguments, timing, statistics and tracing
are left out. With no tool attached, the default strategy names at most one
target; which one and how many tasks depends on loads that may be out of date,
so `Migrate` allows any target without an active migration and any number up
to the limit. Contributions are read as one step: with a task that has an
output, only a busy thread lowers a counter between the two reads. A message
may stay undelivered for any finite time. MPI neither loses nor reorders
messages of one pair of ranks, and the model does not either. A one-thread team
skips `CheckIdle`, whose outcome is then fixed.

**`DistributedTaskwait`** is the promise to the caller: a thread leaves only
when every thread of every rank entered the same taskwait and all its work is
done (`chameleon.cpp` 638-650). `KeepsPromise` is the refinement: a task that is
neither new nor done is open, wherever it is, and a thread that left its loop
has left.

## 4. `BclQueue`

One `BCL::CircularQueue`, used by threads of any rank at the default atomicity
level, where pushes and pops run concurrently.

**State.** The four shared counters are `next` (`tail`, `head`) and `res`
(`reserved_tail`, `reserved_head`), indexed by the side, `"push"` or `"pop"`,
that moves them: the two calls are the same steps with the sides exchanged.
`buf` holds each rank's `head_buf` and `tail_buf`, which the threads of the rank
share without a lock. `ticket`, `seen`, `val` are the locals of a call.

**Actions.** `CallPush`, `CallPop`: the fetch-and-add that takes a ticket.
`Test`: against the cached counter. `Refresh`, `StoreBuf`: the fetch-and-add of
0, then the store of what it returned; apart, because another thread of the rank
may store in between. `Retest`. `Undo`: the ticket is given back and the call
returns false. `WriteSlot`, `ReadSlot`. `Publish`: the compare-and-swap that
succeeds; one that fails changes nothing and is not a step. An actor of
`Patient` pushes with `async_push`: its future, polled until it is ready, keeps
its ticket when there is no room and tests again.

**Abstractions.** The difference in `push`'s test is an `int` compared with a
`size_t`: a negative one is too large, as in `Full`. `size()` reads
two counters and changes nothing; `TaskStealing`, where its answer decides
something, has it. Tickets are unbounded integers:
the overflow of the `int` is not modelled. `synchronized` is left out: no caller
passes it. A queue filled before a barrier, at whatever level, is the initial
state `Filled`.

**`BoundedQueue`** is the promise: a call that succeeds takes effect at one
moment between its start and its return, a pop takes the oldest element, and
there are never more than `Capacity`. A call may refuse at any time, because the
code counts calls in progress as elements. In `KeepsFIFO` the elements are those
of the tickets that are published and not popped, and a call takes effect at its
`Publish`.

## 5. `TaskStealing`

The main loop of `taskStealing.cpp` (117-154) and `steal` (231-292), over one
queue for each rank.

**State.** `q[r]` holds the elements of a queue, `out[r]` the pop tickets in
progress (`head - reserved_head`), `turn[w]` how many elements are before a
thread's ticket: the tickets of `BclQueue` without their absolute numbers,
because only differences are compared. `phase` is where a rank is in the main
loop, `left` what OpenMP dealt to each thread, `j` and `victim` the locals of
`steal`. `ran` and `moved` are history.

**Actions.** `OpenLoop` reads the bound of the parallel loop and deals its
iterations out in blocks; `PopOwn` and `Test` are a pop's fetch-and-add and
test, `TakeToRun` its turn, `FailToRun` the ticket given back; `Run`;
`CloseLoop`, the barrier at the end; `Check`, the test of line 151. In `steal`:
`Visit` (the next rank of the shuffled list), `Ask` (the test of line 254, which
reads the victim's size anew each time), `PopOther`, `TakeToMove`/`FailToMove`,
`StartPush` and `Push`, `Look` (line 284), `StealNothing`. `Size` is the
difference of the counters modulo `SizeRange`: a push in progress counts
already, a pop in progress counts as done. The bound of line 124 is an `int`
compared with a `size_t` inside an OpenMP loop; either conversion is allowed.

**Assumptions.** Every task is created once, by one rank: its number is made of
the rank and of a counter of the rank. `SizeRange` stands for 2^64 and is above
twice the number of tasks and above the number of threads. The local `j` of
`steal` is bounded through the fraction `StealNum / StealDen` of the victim's size.

**Abstractions.** Tasks are created before a barrier, so queues are full at the
start. A thread's cached counters are left out: what they grant, the counters
grant (`TicketsExact`). The queues of the program have room for 30000 elements,
so a push is never refused. The matrices, the results' transfer and the timing
are left out: `Run` stands for the multiplication and the put of the result.

## 6. `RequestManager`

`submitRequests` and `progressRequests`, called by several threads in every
`COMMUNICATION_MODE`.

**State.** `queue` is `_request_queue`, `outstanding` the count of each group's
requests, `batch` the thread-local `current_rids`, `arrived` what MPI completed.
`pc`, `arg`, `cur`, `left`, `hits` are where a thread is in a call: a handler
runs inside `progressRequests`, and may post a group in turn, so `cur` keeps the
group to return to.

**Actions.** `Submit`, `TestAll` (the immediate `MPI_Testall`: the handler runs
at once, or the count is set before any request can be found), `Push` (one
request a step), `Handle`, `Progress` (the early returns), `Grab` (one a step:
two threads may take turns), `TestSome`, `Complete` (from the highest hit down,
with the atomic decrement), `Erase`, `Finish` (the rest is kept, or pushed back
in the hybrid modes). `Arrive` is MPI.

**Abstractions.** `mode` 2 stands for modes 1 and 2 and 3 for 3 and 4, which
differ in what calls the manager, not in what it does. The counters of posted
and completed requests, the tracing and the slices of time are statistics.

`Spots(r)` are the places where a waiting request is found: the queue, a
thread's batch, or among those its poster has still to push. It is in one of
them at most.

**Assumptions.** `submitRequests` gives each request and each group a number of
its own, so a request is a member of one group, at one position, and a group is
posted by one handler or by one thread.

**`RequestGroups`** is the promise: a handler runs only when the whole group has
completed, and once.

## 7. `ChamStrategy`

No state: `ToOffload(order, load, r)` is what `compute_num_tasks_to_offload`
fills in on rank r, given the loads of the last exchange and an order of the
ranks by load. Equal loads may be sorted in any order, the same one on every
rank, because every rank runs the same sort on the same data. Loads, the
fractions and the thresholds are integers, fractions in hundredths. Every rank
decides on its own; the properties are about what the decisions add up to.

## 8. `BclHashMap`

`insert_or_assign`, `modify` and `find` at the default level of atomicity.

**State.** `used` and `marks` are the two low bits and the other bits of a
slot's word, `key` and `val` its entry as its rank's memory holds it, written
and read as two parts because a put and a get of an entry are not atomic.
(A value is one part, as one machine word is; two puts of a longer value that
arrive together could mix, which the model does not show.)
`home[a]` are the slots on thread a's own rank, fixed by any choice in `Homes`.
`puts` are the writes of entries, each with the parts (`left`) that have not
arrived. `probe`, `expect`, `mark`, `entry` are the locals of a call. `could` is
history: the values its key had since a find started.

**Actions.** `Request` is a compare-and-swap of `request_slot` that succeeds or
learns something; one that changes nothing is not a step. `Check`, `Release`
(the slot is another key's), `GetEntry`, and `set_entry`, which has two forms.
To a slot of the thread's own rank it is a memcpy (`SetKey`, `SetVal`), done
when it returns. To any other it is `Put`: `MPI_Rput` and an `MPI_Wait` that
only frees the thread's copy (`comm.hpp:93-97` says so). Nothing has reached the
target, and nothing in `insert_or_assign` or `modify` waits until it has: the
atomics flush locally (`atomics.hpp:26`). The put's parts arrive as `LandKey` and
`LandVal`, in either order, before or after any later step of any thread, and
over whatever the slot holds by then. `Publish` (`ready_slot`) is enabled whether
or not they have. `Mark`, `ReadKey`, `ReadVal`, `Unmark` are `atomic_get_entry`.
`Miss` goes to the next slot or ends the call. What `modify` computes, `Fn`, is a
constant: any function from values to values (`MCBclHashMap` gives it
`Increment`).

**What is promised, and where.** With remote writes the code does not implement
a map (finding 10). What it keeps is: a reservation has one thread (`Exclusive`,
about the code between `request_slot` and `ready_slot`, not about puts it sent
off); a slot is given to one key, and no put, however late, turns it over to
another (`SlotKeepsKey`); once nothing is on its way to a ready slot, it holds
that key and a value some call wrote (`Settled`); and a key that was given a slot
is met there on its probe path (`Findable`). `LocalWrites` says that the threads
that write a key are on the rank of every slot its probes reach. There a write is
complete before it is published, and two more things hold: a key has one slot
(the second part of `Findable`), and `KeepsMap`.

**`ConcurrentMap`** is the promise under `LocalWrites`: an insert or a modify
takes effect at one moment of its call, a find answers with a value its key had
during its call. An insert may be refused for a key that is not in the map.

## 9. `BclMalloc`

`local_malloc` and `local_free` of one rank; `malloc_mutex` is held throughout
both, so a call is a step. Memory is counted in units of 64 bytes, to which the
code rounds every size; `size`, `last`, `next` are the fields of the header
written at an address. `Hand`, `Split`, `Unlink`, `Bump`, `NoRoom` are the
branches of an allocation (a failed one has already written a header past
`smem_heap`, lines 115-117, which may lie past the segment; the model has no
memory there and no property is about that write), `Insert`, `CompactAfter`, `CompactBefore` the parts of a free.
Freeing a pointer twice is undefined in the code and not an input.
**`SegmentAllocator`** is the promise: a block lies in the segment, is long
enough, shares nothing with another and stays where it is.

## 10. Runs

| run | instance | shows |
|---|---|---|
| `ChamMigrate` | 2 ranks x 1 thread, a task that migrates | the counters are exact; no thread leaves early; the communication thread sleeps whenever its team is outside; a result finds its map entry; the service stops only when all work is done |
| `ChamCycles` | 2 ranks x 1 thread, 2 taskwaits, a task before each, no migration | the promise is kept; exchanges of two taskwaits do not mix; every taskwait returns |
| `ChamTeam` | 1 rank x 2 threads, 3 tasks, 2 taskwaits | the idle counter is exact in every race for a list; every thread's loop ends |
| `ChamHang` | 1 rank x 2 threads, 1 task | *violation*, finding 1 |
| `ChamRace` | 2 threads and 1, a task that migrates | *violation*, finding 2 |
| `BclQueue` | 2 threads of a rank and 1 of another, 2 slots, 1 element at first, 2 calls each; the rank's threads push, one of them with `async_push`; one of them and the other rank pop | calls that return behave as those of a FIFO; calls in progress are what the counters differ by; granted calls have slots of their own; a call returns or is stranded, and a stranded call stays so |
| `BclHang` | the same threads: one pushes, two pop | *violation*, finding 3 |
| `BclHashMap` | 3 threads, 2 keys that collide in a table of 2 slots, 2 marks, 2 calls of the first thread and 1 of the others; all slots on the threads' rank, and one slot on each of two ranks | with puts in flight: a reservation has one thread; marks are exact; a slot keeps its key; what has arrived is an entry some call wrote; a key given a slot is met there; every call returns. On one rank also: a key has one slot, and the calls are those of one atomic map |
| `BclMalloc` | 9 units, sizes 0, 1, 3, any sequence of calls | chunks tile the segment; the list is well linked; the calls are those of an allocator |
| `TaskStealing` | 2 ranks x 2 threads, 2 tasks, all of one rank, half of them stolen | no task is run twice or in two places; a task no thief moved is run; the program ends, strands a pop, or steals on |
| `TasksLost` | the same | *violation*, finding 4 |
| `RequestManager` | 2 threads, groups of 1, 2 and 1 requests, the second posted by the handler of the first, every mode | no request is dropped or tested by two threads; handlers run once and after their group; every handler runs |

Each property of a passing run has a mutant: a definition marked `MUTANT of`
in the module, with a plausible mistake, for which TLC finds the property
violated. The mutants are not used by any specification.

**Bounds.** One task that migrates goes through every handler and all counters
on both ranks; the interleaving of threads, handlers and exchanges, not the
number of tasks, is what breaks the termination test. Two cycles are the first
number for which state left over from a taskwait can matter. Two threads are
the first team that races. `IntMax` is 9, above every team size and count used.
Numbers of tasks, threads and ranks beyond these are covered by the theorems
for the properties they state, and not covered for the others.
Three actors with two calls each are the first for which a ticket can be given
back after a later one was taken and the later call can still be granted; with
two slots and five elements in all, tickets go round the ring, the queue is
full, empty and in between, and two threads of a rank race for its cached
counters. `MaxCalls` bounds the calls of an actor.
In `BclHashMap` both keys hash to one slot and the table is full with two, so
that calls probe on, are refused, and meet a slot that is another key's; a
modify, a find and an insert of one key race; with two marks, two finds may
choose the same one. `Homes <- Both` starts TLC from both placements of the
slots. In the second, two threads are on the rank of one slot and the third on
that of the other: TLC reaches a ready slot without a key, a key in two slots,
and a put that arrives over the value a later modify wrote. In `BclMalloc` nine units hold three blocks with their
headers: enough for a chunk with a neighbour before, after, on both sides and on
neither, for a split that leaves a chunk and one that does not, and for a
request that does not fit. In `TaskStealing` a second thread lets a pop of the
pool fail while another succeeds, and a second task lets a rank run one while
the other is stolen; `SizeRange` 8 stands for the 2^64 of `size_t`: it
is above every size, so that a negative one shows as a large one. In `RequestManager` the group of two is the first whose
requests two threads can hold, and the group a handler posts is registered
inside `progressRequests`.
`CHECK_DEADLOCK FALSE` stands in `ChamTeam` and `ChamHang`, where the system
does stop (finding 1); in `ChamMigrate` and `ChamRace`, whose specification is
checked for safety alone and where a rank may wait for an exchange that is never
matched (finding 5); in `BclQueue` and `BclHang`, which stop when all calls are
made or the ones in progress are stranded (finding 3); in `BclHashMap` and
`RequestManager`, which stop when all calls are made and all groups handled; and
in `TaskStealing` and `TasksLost`, where ranks leave.

**Fairness** (`FairSpec`). Threads and the communication thread keep running:
weak fairness of `WorkerStep`, `TeamStep`, `CommStep`; passes that change
nothing are not steps of the model. MPI completes a matched request that is
tested again and again: strong fairness of `Complete`, `ReceiveOffer` and
`ReceiveBack`, because the tests come and go with the passes. No fairness
chooses between a thread and its rivals for a task. In `BclQueue`, weak fairness
of `Advance` for each thread: a thread inside a call keeps running, and the
owner of a future polls it; nothing makes a thread call. The same in
`BclHashMap`: a thread whose compare-and-swap keeps failing is waiting, and
`CallsReturn` says the flag it waits for always comes. A put need not arrive:
no call waits for one, and `CallsReturn` does not need it. (Between rivals for one
slot weak fairness is enough here because calls are few; with endless calls a
writer may starve.) In `TaskStealing`, weak fairness of every thread's steps and
of every rank's master. In `RequestManager`, MPI completes what was posted, a
call returns, and the communication thread calls `progressRequests` again and
again (`action_communication_progression` does at every pass); in mode 2 it does
not exist and the threads of the taskwait do the same.

## 11. Findings

1. **A team can hang** (`ChamHang`). A thread that sees a task in a list is
   counted idle until it lowers the counter (`chameleon.cpp:768`). If another
   thread of the team executes the task first, a load exchange can count the
   whole team idle with nothing outstanding while the first thread's decrement
   is still to come. The communication thread's exit test then fails
   (`commthread.cpp:2795`), the threads' own succeeds, and the last of them
   raises `_flag_comm_thread_sleeping` and spins for
   `_comm_thread_service_stopped`. The communication thread meets the flag at
   the top of its loop (2969), where it sleeps and never sets it.
2. **A thread can leave early** (`ChamRace`). `action_handle_gather_request`
   stores the rank count, then the sum (1686, 1691); `exit_condition_met` reads
   both with no lock and can pair a new count with an old sum.
3. **A granted call can wait for ever** (`BclHang`). Two pops of an empty queue
   take tickets 0 and 1; the first fails and lowers `head` (`CircularQueue.hpp:416`),
   which now names ticket 1 again, while nobody holds ticket 0. Once two elements
   are pushed, the second pop is granted, reads its slot and spins (432-437) for
   `reserved_head` to reach 1; no later call can ever take ticket 0, because
   tickets start at `head`, which the calls in progress keep above
   `reserved_head`. A push does the same at 215. Order is never broken
   (`KeepsFIFO`): the queue stops instead.
4. **A stolen task can be lost** (`TasksLost`). `size()` is `tail - head`, and a
   pop that will fail has raised `head` and not lowered it yet. Rank 2 pushes a
   task it stole to its own queue while rank 1, which saw the push start, pops
   there and fails: rank 2 reads a size of 0 for its own queue and for rank 1's
   and leaves; rank 1's pop gives its ticket back, it finds nothing more to steal
   and leaves too. The task stays in a queue nobody pops. Only stolen tasks can
   be lost (`NeverMovedIsRun`).

Seen while modelling, without a run of their own:

5. **A rank can post an exchange nobody matches.** Ranks apply the exit test to
   the same sums but to their own present idle counter (`commthread.cpp:2795`),
   and may decide differently, against the comment at 2794. `NoGatherAfterLeave`
   is violated in `ChamCycles.cfg` with teams of two threads and one
   (`Worker <- TwoAndOne`), `FirstCycle`, one cycle, and `MinLocal` 1.
   With teams of one thread the exchange left over can be matched by the first
   one of the next taskwait: a rank whose thread has just run a stolen task is not
   idle yet, so its communication thread goes on after the last exchange and posts
   one more; the other rank has left, enters the next taskwait, finds nobody busy
   and nothing outstanding in that contribution, and leaves the next taskwait
   before the first rank has entered it. `NoEarlyLeave` is violated in
   `ChamMigrate.cfg` with `NumCycles = 2`.
6. **A migrated task without output is counted for ever.** `process_remote_task`
   lowers the thief's counter only (`chameleon.cpp:1572`). `OutstandingCounts` is
   violated in `ChamMigrate.cfg` with `WithOutput = {}`.
7. **Free chunks stay apart.** `local_free` puts a chunk behind the first one of
   the list that has a lower address, so the list is not in order when a third
   chunk comes, and it compacts neighbours in the list only, against "Keep free
   list in order to make compaction easy" (`core/malloc.hpp:150`) and "If chunk
   directly after is free, compact." (192). `Compacted` in `BclMalloc` states it, and fails on
   the instance of `BclMalloc.cfg`. Memory is never corrupted (`Tiled`).
8. **An insert is refused while slots are free.** `get_probe` squares the probe
   (`HashMap.hpp:422`): of four slots it reaches two. `HashMapBuffer.hpp:101`
   says "Only returns false if hash table is full." `ConcurrentMap` therefore
   lets an insert of a key that is not stored be refused.
9. **`num_stolen_tasks` counts failed pops** (`taskStealing.cpp:280`): `j` is
   raised whether the pop succeeded or not.
10. **A slot is readied before its entry is there.** `set_entry`
   (`HashMap.hpp:341-346`) is `BCL::write`, to another rank an `MPI_Rput` and an
   `MPI_Wait`, with "no guarantee that memop is complete until BCL::barrier()"
   (`comm.hpp:93-97`). No `BCL::flush()` stands between it and `ready_slot`
   (181-182, 200-201); `CircularQueue.hpp:220` has one in the same place. A find
   can see an empty, old or half written entry in a ready slot; a second insert
   of a key can take the slot for another key's and store the key twice; a late
   put can overwrite what a later modify wrote. Yet the default level of
   atomicity is "insert | find" (158-160), and only `local_nonatomic_insert` is
   marked "Nonatomic with respect to remote inserts!" (277). TLC shows it in
   `BclHashMap.cfg` when `LocalWrites =>` is dropped from `Findable` or
   `KeepsMap`. `SlotKeepsKey` and `Settled` bound the damage: after a barrier no
   slot is another key's and no entry is empty or torn between keys, but values
   may be lost and a key may be stored twice.

Findings 1 and 2 need a team of two threads on some rank, finding 5 that or a
second taskwait; the passing run of `ChamTaskwait` in which a task migrates has
one thread a rank and one taskwait, and so have the theorems of section 12 about
the end of a taskwait. In `ChamCycles`, with two taskwaits, nothing migrates.

## 12. Theorems

| theorem | module | says |
|---|---|---|
| `TypeCorrect` | `ChamTaskwaitProofs` | `Spec => []TypeOK` |
| `CountsExact` | `ChamCountsProofs` | if every task has an output, `Spec => []OutstandingCounts` |
| `IdleCountExact` | `ChamTaskwaitProofs` | `Spec => []IdleCount` |
| `QuietWhileOutside` | `ChamTaskwaitProofs` | `Spec => []QuietOutside` |
| `LeavesWhenDone` | `ChamCountsProofs` | in one taskwait of single threads, `Spec => []NoEarlyLeave` |
| `ResultsFindEntry` | `ChamCountsProofs` | in one taskwait of single threads, `Spec => []ResultHasEntry` |
| `StopsOnlyWhenDone` | `ChamCountsProofs` | in one taskwait of single threads, `Spec => StopsWhenDone` |
| `ImplementsTaskwait` | `ChamCountsProofs` | in one taskwait of single threads, `Spec => KeepsPromise` |
| `TicketsExact` | `BclQueueProofs` | `Spec => [](TypeOK /\ TicketsCounted /\ OwnSlot)` |
| `QueueTypes` | `BclQueueProofs` | `Spec => []TypeOK` |
| `CountersExact` | `BclQueueProofs` | `Spec => []TicketsCounted` |
| `StrandedStays` | `BclQueueProofs` | `Spec => StrandedForever` |
| `ImplementsFIFO` | `BclQueueProofs` | `Spec => KeepsFIFO` |
| `MapTypeCorrect` | `BclHashMapProofs` | `Spec => []TypeOK` |
| `ReservedExclusive` | `BclHashMapProofs` | `Spec => []Exclusive` |
| `MarksAreReaders` | `BclHashMapProofs` | `Spec => []MarksCounted` |
| `LatePutsKeepKeys` | `BclHashMapProofs` | `Spec => SlotKeepsKey` |
| `BarrierSettles` | `BclHashMapProofs` | `Spec => []Settled` |
| `StoredFindable` | `BclHashMapProofs` | `Spec => []Findable` |
| `ImplementsMap` | `BclHashMapProofs` | `Spec => KeepsMap`, which is about local writes |
| `ManagerInvariant` | `RequestManagerProofs` | its inductive invariant, `Spec => []Inv` |
| `ManagerTypes` | `RequestManagerProofs` | `Spec => []TypeOK` |
| `KeepsRequests` | `RequestManagerProofs` | `Spec => []RequestsKept` |
| `ImplementsGroups` | `RequestManagerProofs` | `Spec => KeepsGroups` |
| `StealingInvariant` | `TaskStealingProofs` | its inductive invariant, `Spec => []Inv` |
| `StealingTypes` | `TaskStealingProofs` | `Spec => []TypeOK` |
| `EveryTaskOnce` | `TaskStealingProofs` | `Spec => []TaskOnce` |
| `UnmovedTasksRun` | `TaskStealingProofs` | `Spec => []NeverMovedIsRun` |
| `AllocatorInvariant` | `BclMallocProofs` | its inductive invariant, `Spec => []MemInv` |
| `AllocatorTypes` | `BclMallocProofs` | `Spec => []TypeOK` |
| `ChunksTile` | `BclMallocProofs` | `Spec => []Tiled` |
| `ListWellLinked` | `BclMallocProofs` | `Spec => []Linked` |
| `BlocksLongEnough` | `BclMallocProofs` | `Spec => []LongEnough` |
| `ImplementsAllocator` | `BclMallocProofs` | `Spec => KeepsBlocks` |
| `SourcesAreApart` | `ChamStrategyProofs` | no rank is the target of two |
| `GiversDoNotTake` | `ChamStrategyProofs` | no rank offloads to itself, and a rank that offloads is no target |
| `TakersStayBelow` | `ChamStrategyProofs` | after the migration the target is not more loaded than the giver |

### Assumptions

Those on `ChamTaskwait` hold for every value of the constants that satisfies
`ConstAssumption`: finite sets of ranks, threads and tasks, at least one thread
on every rank, team sizes and the number of ranks below `INT_MAX`. Those
on the queue hold under `QueueAssumption`: finitely many threads, at least one
slot, and no more elements at first than slots. The map's `MapAssumption` asks
for finitely many threads and reader bits and for at least one slot, and allows
any placement of the slots (`Homes`); the
manager's and the stealing program's are in sections 6 and 5. The allocator's
`SegmentAssumption` asks for a segment of at least one unit and for sizes that
are natural numbers; a size may be 0 or larger than the segment.
Those on the strategy hold for any number of ranks, any natural loads and any
sorted order of them; `TakersStayBelow` needs `MinAbs` at least 2 and
`Percentage` at most 50, the defaults of `chameleon_common.cpp` (with 100, TLC
finds two ranks exchanging their loads).

"One taskwait of single threads" is three hypotheses, for any number of ranks,
tasks and migrations: `WithOutput = Task`, `NumCycles = 1`, `OneThreadEach`.
None can be dropped, because the code does not keep the promise without it: a
team of two threads breaks it (findings 1 and 2), so do two taskwaits in a row
(finding 5), and a stolen task without an output is forgotten (finding 6).
Under `ChamTeam` and `ChamMigrate` TLC checks instances between the two.

### The arguments

*Types.* `TypeOK` is inductive. The interesting part is that a sum over a round
is a natural number (`SumsAreNat`) and that `active` never becomes negative.

*Outstanding counters.* `OutstandingCounts` is not inductive: that `RunLocal`
may lower the counter needs to know that the task being executed is unfinished
and at home. `CountInv` adds: an unmigrated task is at home (`HostInv`); the
task a thread executes is on its rank, in the matching state, and no other
thread executes it (`RunInv`); a task in a message is in one message
(`OfferInv`); a task whose result is being sent was executed here (`BackInv`).
One lemma for each step that moves a task; `Quiet` covers all the others. The
hypothesis `WithOutput = Task` is needed: finding 6 is its counterexample.

*Idle counter.* `IdleInv` adds: the threads of a team are in the same phase of
the taskwait (`PhaseInv`); the team is active exactly while one of them is
inside, and `finished` counts those that tore down, so that the last one is
recognised as the last (`ActiveInv`); a thread at the decrement is idle, and
one that pops or executes is not (`ThreadInv`).

*Sleeping.* `SleepInv` adds to `IdleInv`: the last thread to end waits for the
communication thread to stop, and the others have counted up to it; a
communication thread that has stopped sleeps and is not asked to stop again
until a thread of the next taskwait wakes it.

*End of a taskwait.* The communication thread decides from a sum collected in
several messages, at a time when the counters it sums have moved on. What makes
the decision right is that "entered and no task left" is stable on a rank.
`JointInv` says so: a rank whose counter is zero in a round that is not over
has a team that entered and no task left (`ContribInv`), which stays true until
the sum is formed, so a sum of zero means every task is done (`SumInv`), and
only then does a thread leave (`LeftInv`). Tasks are created before their rank
enters (`BornInv`) and a rank inside that has tasks left keeps its communication
thread awake (`AwakeInv`). A task is away from its home only while the home is
inside and has it in its map (`AwayInv`): the map is emptied when every task is
done, so no result comes for a task that is not in it. `KeepsPromise` follows by
the mapping of the run (`PTask`, `PPlace`): the step that leaves is the only one
that the promise restricts.

*Tickets.* Calls in progress may hold the same ticket, which is what makes the
queue hard. `TicketInv` adds to the three properties: no call holds a ticket
that is published (`Ahead`); when two calls hold one ticket, an earlier ticket
that is not published is held by nobody, so neither of the two will ever publish
(`Missing`); a cached counter is never ahead of the counter it is a copy of
(`Cached`); the elements fit (`Ordered`). `Missing` is where giving tickets back
matters: the calls in progress are exactly `next - res` (`TicketsCounted`), so a
call whose ticket is at or above `next` leaves fewer calls than there are
tickets below, and by the pigeonhole principle one is free (`FreeTicket`,
`HoleBelow`). A stranded call stays stranded because new tickets start at
`next`, above the missing one.

*FIFO.* `FifoInv` adds: a push in progress carries an element (`Carries`);
one that wrote its slot finds its element there when its turn comes, unless
another call holds its ticket and it never comes (`Written`); a pop that read
its slot holds the element of its ticket (`ReadOut`); slots of published
elements hold elements (`Live`). Two tickets share a slot only when they are a
multiple of `Capacity` apart, and live tickets are closer than that.

*Hash map.* Four invariants, each built on the one before; the first two hold
wherever the slots are. `Words` is about the words alone: what a thread last
learned of the word of its slot fits what it is about to do, a reserved slot has
one thread (`OneWriter`), a mark one find (`OneMark`). `NameInv` is about keys,
arrived or not: a slot has been given one key, by whoever held it free
(`OneName`); a ready slot has been written by somebody, and what has arrived
there was sent (`Arrivals`); every slot a thread or a key has passed is in use
(`PathTaken`). The reason is the same for late puts as for early ones: a thread
writes a slot only if it took it free or read its own key in it, so a slot whose
key has not arrived is passed over by everybody, never given away.
`SlotKeepsKey`, `Settled` and the first part of `Findable` follow.
`SlotInv` assumes `LocalWrites`, where nothing is in flight (`AllLanded`) and the
entry of a ready slot is the stored one (`Entries`); what a writer or reader knows
of it fits (`WriterKnows`, `ReaderKnows`); a key is in one slot (`OneSlot`).
`OneSlot` is the difficult one, because two inserts of one key probe
concurrently: a thread that passed a slot saw another key in it, and keys never
change, so both arrive at the same first free slot and the word decides. For the
refinement, `Recalled` ties the part of the value a find has read to the history
`could`.

*Request manager.* `Counted` says that a group's count is the number of its
members that wait (those not yet completed by a thread). It holds because a
waiting request is in one place (`Apart`) and every request known to a thread is
of a group whose handler has not run (`ArgKnown`, `CurKnown`, `GroupKnown`).
Then the count is zero exactly when the last member completes, and the thread
that lowers it to zero is the only one to run the handler: the refinement.

*Task stealing.* `Placed`: a task is in one queue, or with one thread, or run,
and the three exclude each other. `Cover`: the elements below the tickets that
are out, as far as no thief moved them, are each covered by a pop that will
succeed; and once a rank has seen its own queue empty, that is all of them. The
pops in progress are what `out` counts (`RankOK`), and a rank that has left has
none: when all have left, nothing is in a queue that was not moved there.

*Allocator.* The properties speak of the chunks a walk from `smem_flist` meets,
a recursive function of the links. The invariant says without recursion what
those chunks are (`ListOf`): only they are linked, each is its neighbours'
neighbour, only the first has none before it, and every part of them has a chunk
whose predecessor is outside that part, so no ring is out of the walk's reach.
`WalkIsList` shows that the walk meets each of them exactly once. It is the one
place with an induction, as a least counterexample: `Counting`, from the
library's well-foundedness of `<`. Beside the list, free chunks and blocks tile
what lies below `smem_heap` (`Tiles`). Each part of a call keeps both, one lemma
for each: to take a chunk out of the list, put one in, or one in the place of
another (`ListWithout`, `ListWith`, `ListInstead`), to take from the rest of the
heap and to join two neighbours (`BumpTiles`, `JoinTiles`). The parts of
`local_free` are composed by `JoinSound`, `CompactSound`, `FreeSound`: joining
with the chunk after cannot take the chunk before out of the list.

*Strategy.* The whole argument is about places in the sorted order: `PlaceOf` is
the inverse of the order (`PlaceFacts`), a partner's place is the mirror image of
one's own, and who gives is in the upper half and strictly more loaded.

TLC checked the invariants on the runs' instances before they were proved
(`JointInv` on `ChamMigrate`'s, with 727497 states).

### Model-checked only

- `NoGatherAfterLeave`; and, where the one-taskwait hypotheses do not hold,
  `NoEarlyLeave`, `StopsWhenDone`, `ResultHasEntry` and `KeepsPromise`, on the
  instances of the runs that list them.
- All liveness: `LoopEnds`, `TaskwaitReturns`, `ReturnsOrStranded`,
  `CallsReturn`, `EndsOrStealsOn`, `HandlersRun`. Liveness under fairness is
  outside what TLAPS proves.

## 13. Not modelled, and why

Replication and cancellation (off in the default build, planned last); a tool's
own migration strategies; `COMMUNICATION_MODE` 1 and 2, early receives, separate
task messages; `chameleon_taskyield` and thread binding; initialisation and
finalisation; OpenMP's own tasks; the aggressive offload strategy and the choice
of replicas. (`COMMUNICATION_MODE` 1 to 4 are modelled for the request manager,
not for the communication thread.) Of `CircularQueue`: the calls that move
several elements, the non-atomic levels, `resize` and `migrate`; `FastQueue`,
whose phases of pushes and of pops are separated by barriers. Of `HashMap`: the
buffer, the non-atomic levels, the local forms and iteration. The HCL program:
its containers are an external library. Weak-memory effects are not modelled: the
shared counters are `std::atomic`, and the lists are guarded by a mutex except
for the test for emptiness, which is a step of its own; the queue's counters are
changed by atomics, and a slot of the queue is flushed before it is published.
The hash map flushes nothing, and its puts are modelled as in flight; its memcpys
to the own rank are taken to become visible in program order.
