---------------------------- MODULE TaskStealing ----------------------------
(***************************************************************************)
(* The task-stealing program (task_stealing_queue/taskStealing.cpp): every *)
(* rank has a BCL::CircularQueue of task identifiers. The threads of a     *)
(* rank pop and run what its own queue holds; when that is empty, the      *)
(* master thread pops from the queues of other ranks and pushes to its     *)
(* own; a rank that finds nothing leaves.                                  *)
(*                                                                         *)
(* A queue is kept as its elements, the number of pop tickets that are     *)
(* out, and the distance of each ticket from its turn: what BclQueue says  *)
(* of them (TicketsCounted, OwnSlot), without the counters and the cached  *)
(* copies, which never grant what the counters would not.                  *)
(***************************************************************************)
EXTENDS Integers, FiniteSets, Sequences

CONSTANTS Rank, Task,
          Given,       \* the tasks each rank creates, in order
          NumThreads,  \* omp_get_max_threads()
          Stealing,    \* taskStealing
          StealNum, StealDen,  \* stealPerc, as a fraction
          SizeRange,   \* number of values of a size_t
          NoTask, NoRank

ASSUME StealingAssumption ==
  /\ IsFiniteSet(Rank) /\ IsFiniteSet(Task)
  /\ Given \in [Rank -> Seq(Task)]
  /\ NumThreads \in Nat \ {0} /\ Stealing \in BOOLEAN
  /\ StealNum \in Nat /\ StealDen \in Nat \ {0}
  /\ SizeRange \in Nat /\ SizeRange > 2 * Cardinality(Task)
  /\ SizeRange > Cardinality(Rank \X (0 .. NumThreads - 1))
  /\ NoTask \notin Task /\ NoRank \notin Rank
  \* a task's number is made of its rank and of a counter of the rank
  /\ \A t \in Task : \E r \in Rank : \E i \in DOMAIN Given[r] : Given[r][i] = t
  /\ \A r, s \in Rank : \A i \in DOMAIN Given[r], k \in DOMAIN Given[s] :
       Given[r][i] = Given[s][k] => r = s /\ i = k

Thread == Rank \X (0 .. NumThreads - 1)
Master(r) == <<r, 0>>
RankOf(w) == w[1]
Team(r) == {w \in Thread : RankOf(w) = r}

VARIABLES
  q,       \* the elements of each queue, oldest first
  out,     \* head - reserved_head: pop tickets that are out
  phase,   \* where a rank is in the main loop
  left,    \* iterations a thread has left in the parallel loop
  pc,      \* where a thread is in a pop, or in a task
  at,      \* the queue it pops from
  turn,    \* how many elements are before its ticket
  hand,    \* the task it popped
  todo,    \* ranks the thief has not visited
  victim,  \* the rank it visits
  j,       \* pops it has tried there
  ran,     \* how often each task was run
  moved    \* history: the tasks a thief pushed

vars == <<q, out, phase, left, pc, at, turn, hand, todo, victim, j, ran, moved>>

Init == /\ q = Given
        /\ out = [r \in Rank |-> 0]
        /\ phase = [r \in Rank |-> "loop"]
        /\ left = [w \in Thread |-> 0]
        /\ pc = [w \in Thread |-> "idle"]
        /\ at = [w \in Thread |-> NoRank]
        /\ turn = [w \in Thread |-> 0]
        /\ hand = [w \in Thread |-> NoTask]
        /\ todo = [r \in Rank |-> {}]
        /\ victim = [r \in Rank |-> NoRank]
        /\ j = [r \in Rank |-> 0]
        /\ ran = [t \in Task |-> 0]
        /\ moved = {}

GoTo(r, label) == phase' = [phase EXCEPT ![r] = label]
Do(w, label) == pc' = [pc EXCEPT ![w] = label]

(* size(): a difference of two ints, converted to size_t. A push in flight *)
(* counts already, a pop in flight counts as done.                         *)
Difference(v) == Len(q[v]) + (IF phase[v] = "pushing" THEN 1 ELSE 0) - out[v]
Size(v) == Difference(v) % SizeRange
Signed(n) == IF 2 * n >= SizeRange THEN n - SizeRange ELSE n
-----------------------------------------------------------------------------
(* pop: a ticket, the test (an element for each ticket up to this one),    *)
(* and either its turn or the ticket given back. A ticket whose turn went  *)
(* to another thread with the same one waits for ever.                     *)
TakeTicket(w, v) ==
  /\ pc[w] = "idle"
  /\ at' = [at EXCEPT ![w] = v]
  /\ turn' = [turn EXCEPT ![w] = out[v]]
  /\ out' = [out EXCEPT ![v] = @ + 1]
  /\ Do(w, "test")

Test(w) == /\ pc[w] = "test"
           /\ Do(w, IF turn[w] < Len(q[at[w]]) THEN "take" ELSE "undo")
           /\ UNCHANGED <<q, out, phase, left, at, turn, hand, todo, victim, j,
                          ran, moved>>

(* MUTANT of Take: the element is read but reserved_head is not raised.    *)
TakeKeeps(w) ==
  /\ pc[w] = "take" /\ turn[w] = 0
  /\ hand' = [hand EXCEPT ![w] = Head(q[at[w]])]
  /\ out' = [out EXCEPT ![at[w]] = @ - 1]
  /\ turn' = [turn EXCEPT ![w] = 0]
  /\ at' = [at EXCEPT ![w] = NoRank]
  /\ UNCHANGED q
(* The tickets behind move up.                                             *)
Take(w) ==
  LET v == at[w] IN
  /\ pc[w] = "take" /\ turn[w] = 0
  /\ hand' = [hand EXCEPT ![w] = Head(q[v])]
  /\ q' = [q EXCEPT ![v] = Tail(@)]
  /\ out' = [out EXCEPT ![v] = @ - 1]
  /\ turn' = [u \in Thread |-> IF u = w THEN 0
                               ELSE IF at[u] = v /\ turn[u] >= 0 THEN turn[u] - 1
                               ELSE turn[u]]
  /\ at' = [at EXCEPT ![w] = NoRank]

(* In the parallel loop a popped task is run next; a thief's is pushed.    *)
TakeToRun(w) == /\ phase[RankOf(w)] = "pool" /\ Take(w) /\ Do(w, "run")
                /\ UNCHANGED <<phase, left, todo, victim, j, ran, moved>>
(* MUTANT of TakeToMove: what the thief popped is not pushed.              *)
TakeForgets(w) == LET r == RankOf(w) IN
                  /\ phase[r] = "steal" /\ Take(w) /\ Do(w, "idle")
                  /\ j' = [j EXCEPT ![r] = @ + 1]
                  /\ GoTo(r, "ask")
                  /\ UNCHANGED <<left, todo, victim, ran, moved>>
TakeToMove(w) == /\ phase[RankOf(w)] = "steal" /\ Take(w) /\ Do(w, "idle")
                 /\ GoTo(RankOf(w), "push")
                 /\ UNCHANGED <<left, todo, victim, j, ran, moved>>

GiveBack(w) == /\ pc[w] = "undo"
               /\ out' = [out EXCEPT ![at[w]] = @ - 1]
               /\ at' = [at EXCEPT ![w] = NoRank]
               /\ turn' = [turn EXCEPT ![w] = 0]
               /\ Do(w, "idle")
FailToRun(w) == /\ phase[RankOf(w)] = "pool" /\ GiveBack(w)
                /\ left' = [left EXCEPT ![w] = @ - 1]
                /\ UNCHANGED <<q, phase, hand, todo, victim, j, ran, moved>>
(* MUTANT of FailToMove: the result of pop is not tested before the push.  *)
FailStillMoves(w) == /\ phase[RankOf(w)] = "steal" /\ GiveBack(w)
                     /\ GoTo(RankOf(w), "push")
                     /\ UNCHANGED <<q, left, hand, todo, victim, j, ran, moved>>
FailToMove(w) == LET r == RankOf(w) IN
                 /\ phase[r] = "steal" /\ GiveBack(w)
                 /\ j' = [j EXCEPT ![r] = @ + 1]
                 /\ GoTo(r, "ask")
                 /\ UNCHANGED <<q, left, hand, todo, victim, ran, moved>>

(* multiply; the result goes back to the rank that created the task.       *)
Run(w) == /\ pc[w] = "run"
          /\ ran' = [ran EXCEPT ![hand[w]] = @ + 1]
          /\ hand' = [hand EXCEPT ![w] = NoTask]
          /\ left' = [left EXCEPT ![w] = @ - 1]
          /\ Do(w, "idle")
          /\ UNCHANGED <<q, out, phase, at, turn, todo, victim, j, moved>>
-----------------------------------------------------------------------------
(* The iterations of the parallel loop, dealt out in blocks. The bound is  *)
(* read once. That an int is compared with a size_t is undefined there: a  *)
(* build may take the bound in either type.                                *)
Share(n, t) == n \div NumThreads + (IF t < n % NumThreads THEN 1 ELSE 0)
OpenLoop(r) ==
  /\ phase[r] = "loop"
  /\ \E bound \in {Size(r), Signed(Size(r))} :
       LET n == IF bound > 0 THEN bound ELSE 0
       IN  left' = [w \in Thread |-> IF RankOf(w) = r THEN Share(n, w[2]) ELSE left[w]]
  /\ GoTo(r, "pool")
  /\ UNCHANGED <<q, out, pc, at, turn, hand, todo, victim, j, ran, moved>>

PopOwn(w) == /\ phase[RankOf(w)] = "pool" /\ left[w] > 0
             /\ TakeTicket(w, RankOf(w))
             /\ UNCHANGED <<q, phase, left, hand, todo, victim, j, ran, moved>>

CloseLoop(r) == /\ phase[r] = "pool"
                /\ \A w \in Team(r) : pc[w] = "idle" /\ left[w] = 0
                /\ GoTo(r, "check")
                /\ UNCHANGED <<q, out, left, pc, at, turn, hand, todo, victim, j,
                               ran, moved>>

Check(r) == /\ phase[r] = "check"
            /\ \/ Size(r) # 0 /\ GoTo(r, "loop") /\ UNCHANGED todo
               \/ /\ Size(r) = 0 /\ Stealing
                  /\ GoTo(r, "visit")
                  /\ todo' = [todo EXCEPT ![r] = Rank \ {r}]
               \/ Size(r) = 0 /\ ~Stealing /\ GoTo(r, "left") /\ UNCHANGED todo
            /\ UNCHANGED <<q, out, left, pc, at, turn, hand, victim, j, ran, moved>>

(* steal: the other ranks in random order.                                 *)
Visit(r) == /\ phase[r] = "visit"
            /\ \E v \in todo[r] :
                 /\ todo' = [todo EXCEPT ![r] = @ \ {v}]
                 /\ IF Signed(Size(v)) > 0
                      THEN /\ victim' = [victim EXCEPT ![r] = v]
                           /\ j' = [j EXCEPT ![r] = 0]
                           /\ GoTo(r, "ask")
                      ELSE UNCHANGED <<victim, j, phase>>
            /\ UNCHANGED <<q, out, left, pc, at, turn, hand, ran, moved>>

(* MUTANT of StealNothing: steal returns true.                             *)
StealNothingTrue(r) == /\ phase[r] = "visit" /\ todo[r] = {}
                       /\ GoTo(r, "loop")
                       /\ UNCHANGED <<q, out, left, pc, at, turn, hand, todo,
                                      victim, j, ran, moved>>
StealNothing(r) == /\ phase[r] = "visit" /\ todo[r] = {}
                   /\ GoTo(r, "left")
                   /\ UNCHANGED <<q, out, left, pc, at, turn, hand, todo, victim,
                                  j, ran, moved>>

(* while (j < size() * stealPerc)                                          *)
Ask(r) == /\ phase[r] = "ask"
          /\ GoTo(r, IF j[r] * StealDen < Size(victim[r]) * StealNum
                       THEN "steal" ELSE "look")
          /\ UNCHANGED <<q, out, left, pc, at, turn, hand, todo, victim, j, ran,
                         moved>>

PopOther(r) == /\ phase[r] = "steal"
               /\ TakeTicket(Master(r), victim[r])
               /\ UNCHANGED <<q, phase, left, hand, todo, victim, j, ran, moved>>

(* push, to a queue that has room: its ticket, and its turn.               *)
StartPush(r) == /\ phase[r] = "push"
                /\ GoTo(r, "pushing")
                /\ UNCHANGED <<q, out, left, pc, at, turn, hand, todo, victim, j,
                               ran, moved>>
Push(r) == LET t == hand[Master(r)] IN
           /\ phase[r] = "pushing"
           /\ q' = [q EXCEPT ![r] = Append(@, t)]
           /\ hand' = [hand EXCEPT ![Master(r)] = NoTask]
           /\ moved' = moved \cup {t}
           /\ j' = [j EXCEPT ![r] = @ + 1]
           /\ GoTo(r, "ask")
           /\ UNCHANGED <<out, left, pc, at, turn, todo, victim, ran>>

(* ownSize > 0: steal returns true; otherwise it visits the next rank.     *)
Look(r) == /\ phase[r] = "look"
           /\ GoTo(r, IF Signed(Size(r)) > 0 THEN "loop" ELSE "visit")
           /\ victim' = [victim EXCEPT ![r] = NoRank]
           /\ j' = [j EXCEPT ![r] = 0]
           /\ UNCHANGED <<q, out, left, pc, at, turn, hand, todo, ran, moved>>

ThreadStep(w) == \/ PopOwn(w) \/ Test(w) \/ TakeToRun(w) \/ TakeToMove(w)
                 \/ FailToRun(w) \/ FailToMove(w) \/ Run(w)
RankStep(r) == \/ OpenLoop(r) \/ CloseLoop(r) \/ Check(r) \/ Visit(r)
               \/ StealNothing(r) \/ Ask(r) \/ PopOther(r) \/ StartPush(r)
               \/ Push(r) \/ Look(r)
Next == (\E w \in Thread : ThreadStep(w)) \/ (\E r \in Rank : RankStep(r))
Spec == Init /\ [][Next]_vars
(* Threads keep running.                                                   *)
FairSpec == /\ Spec /\ \A w \in Thread : WF_vars(ThreadStep(w))
            /\ \A r \in Rank : WF_vars(RankStep(r))
-----------------------------------------------------------------------------
TypeOK ==
  /\ q \in [Rank -> Seq(Task)]
  /\ out \in [Rank -> 0 .. Cardinality(Thread)]
  /\ phase \in [Rank -> {"loop", "pool", "check", "visit", "ask", "steal", "push",
                         "pushing", "look", "left"}]
  /\ left \in [Thread -> 0 .. SizeRange]
  /\ pc \in [Thread -> {"idle", "test", "take", "undo", "run"}]
  /\ at \in [Thread -> Rank \cup {NoRank}]
  /\ turn \in [Thread -> -1 .. Cardinality(Thread)]
  /\ hand \in [Thread -> Task \cup {NoTask}]
  /\ todo \in [Rank -> SUBSET Rank] /\ victim \in [Rank -> Rank \cup {NoRank}]
  /\ j \in [Rank -> Nat]
  /\ \A r \in Rank : j[r] * StealDen <= SizeRange * StealNum + StealDen
  /\ ran \in [Task -> Nat] /\ moved \subseteq Task

(* Every task is in one place: once in one queue, in one hand, or run once *)
(* (lines 128, 257, 269), whoever pops and steals at the same time.        *)
Queued(t) == {p \in Rank \X (1 .. Cardinality(Task)) :
                p[2] <= Len(q[p[1]]) /\ q[p[1]][p[2]] = t}
TaskOnce ==
  \A t \in Task : Cardinality(Queued(t))
                    + Cardinality({w \in Thread : hand[w] = t}) + ran[t] = 1

AllLeft == \A r \in Rank : phase[r] = "left"

(* When all ranks have left the main loop every task was run, and the      *)
(* verification (lines 170-186) finds its result.                          *)
EveryTaskRun == AllLeft => \A t \in Task : ran[t] = 1

(* At least the tasks that no thief ever moved were all run: a rank whose  *)
(* size() is 0 (line 151) has none of its own left, although the size      *)
(* counts pops in flight that may fail.                                    *)
NeverMovedIsRun == AllLeft => \A t \in Task \ moved : ran[t] = 1

(* A pop is stranded when the ticket whose turn it is is out no more.      *)
Stranded(w) == /\ pc[w] = "take"
               /\ \A u \in Thread : at[u] = at[w] => turn[u] # 0

(* The program ends, unless a pop is stranded or tasks are stolen back and *)
(* forth for ever: failing pops and sizes below zero alone keep no rank in *)
(* the loops of lines 118 and 254.                                         *)
EndsOrStealsOn == \/ <>AllLeft
                  \/ <>(\E w \in Thread : Stranded(w))
                  \/ []<>(\E r \in Rank : phase[r] = "pushing")
=============================================================================
