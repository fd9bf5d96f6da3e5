------------------------- MODULE TaskStealingProofs -------------------------
(***************************************************************************)
(* The task-stealing program keeps every task in one place, and leaves     *)
(* none behind that no thief moved: for every number of ranks, threads and *)
(* tasks.                                                                  *)
(***************************************************************************)
EXTENDS TaskStealing, FiniteSetTheorems, SequenceTheorems, TLAPS

Typed ==
  /\ q \in [Rank -> Seq(Task)] /\ out \in [Rank -> Nat]
  /\ phase \in [Rank -> {"loop", "pool", "check", "visit", "ask", "steal", "push",
                         "pushing", "look", "left"}]
  /\ left \in [Thread -> 0 .. SizeRange]
  /\ pc \in [Thread -> {"idle", "test", "take", "undo", "run"}]
  /\ at \in [Thread -> Rank \cup {NoRank}] /\ turn \in [Thread -> Int]
  /\ hand \in [Thread -> Task \cup {NoTask}]
  /\ todo \in [Rank -> SUBSET Rank] /\ victim \in [Rank -> Rank \cup {NoRank}]
  /\ j \in [Rank -> Nat] /\ ran \in [Task -> Nat] /\ moved \subseteq Task

(* Where a rank is says where its threads can be.                          *)
Popping(w) == pc[w] \in {"test", "take", "undo"}
Moving(w) == w = Master(RankOf(w)) /\ phase[RankOf(w)] \in {"push", "pushing"}
ThreadOK(w) ==
  /\ at[w] # NoRank <=> Popping(w)
  /\ Popping(w) => \/ phase[RankOf(w)] = "pool" /\ at[w] = RankOf(w) /\ left[w] > 0
                   \/ phase[RankOf(w)] = "steal" /\ w = Master(RankOf(w))
  /\ pc[w] = "run" => phase[RankOf(w)] = "pool" /\ left[w] > 0
  /\ hand[w] # NoTask <=> pc[w] = "run" \/ Moving(w)
  /\ turn[w] \in -1 .. Cardinality(Thread)
  /\ pc[w] = "take" => turn[w] < Len(q[at[w]])
RankOK(r) ==
  /\ phase[r] \in {"ask", "steal", "push", "pushing", "look"} => victim[r] \in Rank
  /\ j[r] * StealDen <= SizeRange * StealNum + StealDen
  /\ phase[r] \in {"steal", "push", "pushing"} => j[r] * StealDen <= SizeRange * StealNum
  /\ out[r] = Cardinality({w \in Thread : at[w] = r})

(* A task is in one place.                                                 *)
InQueue(t) == \E r \in Rank : \E i \in 1 .. Len(q[r]) : q[r][i] = t
InHand(t) == \E w \in Thread : hand[w] = t
Placed ==
  /\ \A r, s \in Rank : \A i \in 1 .. Len(q[r]), k \in 1 .. Len(q[s]) :
       q[r][i] = q[s][k] => r = s /\ i = k
  /\ \A w, u \in Thread : hand[w] = hand[u] /\ hand[w] # NoTask => w = u
  /\ \A t \in Task : /\ ~(InQueue(t) /\ InHand(t))
                     /\ InQueue(t) \/ InHand(t) => ran[t] = 0
                     /\ InQueue(t) \/ InHand(t) \/ ran[t] = 1

(* A pop is out whose turn comes with the element at position i.           *)
Covered(r, i) == \E w \in Thread : /\ at[w] = r /\ turn[w] = i - 1
                                   /\ pc[w] \in {"test", "take"}
(* No element that was not moved is passed over: the first tickets that    *)
(* are out cover theirs, and when a rank has found its queue empty all are *)
(* covered.                                                                *)
Cover ==
  \A r \in Rank : \A i \in 1 .. Len(q[r]) :
    /\ q[r][i] \notin moved
    /\ i <= out[r] \/ phase[r] \notin {"loop", "pool", "check"}
    => Covered(r, i)

Inv == /\ Typed /\ (\A w \in Thread : ThreadOK(w)) /\ (\A r \in Rank : RankOK(r))
       /\ Placed /\ Cover

-----------------------------------------------------------------------------
(* What the constants are.                                                 *)
LEMMA Constants ==
  /\ IsFiniteSet(Thread) /\ Cardinality(Thread) \in Nat /\ SizeRange > Cardinality(Thread)
  /\ \A w \in Thread : RankOf(w) \in Rank /\ w[2] \in 0 .. NumThreads - 1
  /\ \A r \in Rank : Master(r) \in Thread /\ RankOf(Master(r)) = r /\ r # NoRank
  /\ SizeRange \in Nat \ {0} /\ NoTask \notin Task /\ NoRank \notin Rank
  /\ NumThreads \in Nat \ {0} /\ StealNum \in Nat /\ StealDen \in Nat \ {0}
<1>1. /\ SizeRange \in Nat \ {0} /\ NoTask \notin Task /\ NoRank \notin Rank
      /\ NumThreads \in Nat \ {0} /\ StealNum \in Nat /\ StealDen \in Nat \ {0}
  <2>1. Cardinality(Task) \in Nat
    BY StealingAssumption, FS_CardinalityType
  <2> QED
    BY <2>1, StealingAssumption
<1>2. IsFiniteSet(0 .. NumThreads - 1)
  BY <1>1, FS_Interval
<1>3. IsFiniteSet(Thread)
  BY <1>2, StealingAssumption, FS_Product DEF Thread
<1>4. Cardinality(Thread) \in Nat /\ SizeRange > Cardinality(Thread)
  BY <1>3, FS_CardinalityType, StealingAssumption DEF Thread
<1>5. \A w \in Thread : RankOf(w) \in Rank /\ w[2] \in 0 .. NumThreads - 1
  BY DEF Thread, RankOf
<1>6. \A r \in Rank : Master(r) \in Thread /\ RankOf(Master(r)) = r /\ r # NoRank
  BY <1>1 DEF Thread, Master, RankOf
<1> QED
  BY <1>1, <1>3, <1>4, <1>5, <1>6

(* A queue is a sequence of tasks.                                         *)
LEMMA QueueFacts ==
  ASSUME Typed, NEW r \in Rank
  PROVE  /\ q[r] \in Seq(Task) /\ Len(q[r]) \in Nat
         /\ \A i \in 1 .. Len(q[r]) : q[r][i] \in Task
BY LenProperties, ElementOfSeq DEF Typed

(* No queue holds more tasks than there are.                               *)
LEMMA QueueIsShort ==
  ASSUME Typed, Placed, NEW r \in Rank
  PROVE  Len(q[r]) <= Cardinality(Task)
<1> DEFINE s == q[r]
<1>1. s \in [1 .. Len(s) -> Task] /\ Len(s) \in Nat
  BY QueueFacts, LenProperties
<1>2. \A i, k \in 1 .. Len(s) : s[i] = s[k] => i = k
  BY DEF Placed
<1> HIDE DEF s
<1>3. s \in Injection(1 .. Len(s), Task)
  BY <1>1, <1>2 DEF Injection, IsInjective
<1>4. Cardinality(1 .. Len(s)) <= Cardinality(Task)
  BY <1>3, FS_Injection, StealingAssumption
<1>5. Cardinality(1 .. Len(s)) = Len(s)
  <2>1. 1 \in Int /\ Len(s) \in Int
    BY <1>1
  <2>2. Cardinality(1 .. Len(s)) = IF 1 > Len(s) THEN 0 ELSE Len(s) - 1 + 1
    BY <2>1, FS_Interval
  <2> QED
    BY <1>1, <2>2
<1> QED
  BY <1>4, <1>5 DEF s

(* What size() returns, and how it reads as a signed number.               *)
LEMMA SizeFacts ==
  ASSUME Typed, NEW v \in Rank
  PROVE  Size(v) \in 0 .. SizeRange - 1 /\ Signed(Size(v)) \in Int
         /\ Signed(Size(v)) < SizeRange
<1>1. Difference(v) \in Int
  BY QueueFacts DEF Difference, Typed
<1>2. Size(v) \in 0 .. SizeRange - 1
  BY <1>1, Constants DEF Size
<1> QED
  BY <1>2, Constants DEF Signed

(* A size of zero is an empty difference.                                  *)
LEMMA SizeZero ==
  ASSUME Typed, Placed, NEW v \in Rank, phase[v] = "check", Size(v) = 0,
         out[v] <= Cardinality(Thread)
  PROVE  Len(q[v]) = out[v]
<1>1. Len(q[v]) \in Nat /\ Len(q[v]) <= Cardinality(Task) /\ out[v] \in Nat
  BY QueueFacts, QueueIsShort DEF Typed
<1>2. Cardinality(Task) \in Nat /\ Cardinality(Thread) \in Nat
  BY Constants, StealingAssumption, FS_CardinalityType
<1>3. Difference(v) = Len(q[v]) - out[v]
  BY <1>1 DEF Difference
<1> DEFINE d == Len(q[v]) - out[v]
<1>4. d \in Int /\ d < SizeRange /\ -SizeRange < d
  BY <1>1, <1>2, Constants, StealingAssumption, SMTT(30)
<1>5. d % SizeRange = 0
  BY <1>3 DEF Size
<1> HIDE DEF d
<1>6. d = 0
  BY <1>4, <1>5, Constants
<1> QED
  BY <1>1, <1>6 DEF d

(* The number of pops that are out at a queue.                             *)
LEMMA OutBound ==
  ASSUME Typed, NEW r \in Rank, RankOK(r)
  PROVE  /\ IsFiniteSet({w \in Thread : at[w] = r})
         /\ out[r] \in Nat /\ out[r] <= Cardinality(Thread)
         /\ \A w \in Thread : at[w] # r => out[r] < Cardinality(Thread)
<1> DEFINE S == {w \in Thread : at[w] = r}
<1>1. S \in SUBSET Thread
  OBVIOUS
<1>2. IsFiniteSet(S) /\ Cardinality(S) <= Cardinality(Thread)
      /\ (Cardinality(S) = Cardinality(Thread) => S = Thread)
  BY <1>1, Constants, FS_Subset
<1>3. out[r] = Cardinality(S)
  BY DEF RankOK
<1>4. \A w \in Thread : at[w] # r => S # Thread
  OBVIOUS
<1> HIDE DEF S
<1>5. Cardinality(S) \in Nat /\ Cardinality(Thread) \in Nat
  BY <1>2, Constants, FS_CardinalityType
<1> QED
  BY <1>2, <1>3, <1>4, <1>5 DEF S

-----------------------------------------------------------------------------
(* Steps of a rank in which no thread touches a queue.                     *)
Calm(r) == \A w \in Team(r) : ~Popping(w) /\ pc[w] # "run"

(* Outside the pool and the steal, no thread of a rank pops.               *)
LEMMA CalmOutside ==
  ASSUME Inv, NEW r \in Rank, phase[r] \notin {"pool", "steal"}
  PROVE  Calm(r)
BY DEF Inv, ThreadOK, Calm, Team

Quiet == <<q, out, pc, at, turn, hand, ran, moved>>
Advances(r) ==
  /\ \A w \in Thread : RankOf(w) # r => left'[w] = left[w]
  /\ \A s \in Rank : s # r => /\ phase'[s] = phase[s] /\ j'[s] = j[s]
                              /\ victim'[s] = victim[s]

(* A step that moves no task, and whose rank goes on as the code does.     *)
LEMMA QuietStep ==
  ASSUME Inv, NEW r \in Rank, Calm(r), UNCHANGED Quiet, Advances(r), Typed',
         phase'[r] \in {"ask", "steal", "push", "pushing", "look"}
           => victim'[r] \in Rank,
         j'[r] * StealDen <= SizeRange * StealNum + StealDen,
         phase'[r] \in {"steal", "push", "pushing"}
           => j'[r] * StealDen <= SizeRange * StealNum,
         phase[r] \in {"push", "pushing"} <=> phase'[r] \in {"push", "pushing"},
         \/ phase'[r] \in {"loop", "pool", "check"}
         \/ phase[r] \notin {"loop", "pool", "check"}
         \/ Len(q[r]) <= out[r]
  PROVE  Inv'
<1>1. \A w \in Thread : ThreadOK(w)'
  <2> SUFFICES ASSUME NEW w \in Thread
               PROVE  ThreadOK(w)'
    OBVIOUS
  <2>1. RankOf(w) \in Rank /\ ThreadOK(w)
    BY Constants DEF Inv
  <2>2. CASE RankOf(w) = r
    <3>1. ~Popping(w) /\ pc[w] # "run"
      BY <2>2 DEF Calm, Team
    <3> QED
      BY <2>1, <2>2, <3>1 DEF ThreadOK, Popping, Moving, Quiet
  <2>3. CASE RankOf(w) # r
    BY <2>1, <2>3 DEF ThreadOK, Popping, Moving, Quiet, Advances
  <2> QED
    BY <2>2, <2>3
<1>2. \A s \in Rank : RankOK(s)'
  <2> SUFFICES ASSUME NEW s \in Rank
               PROVE  RankOK(s)'
    OBVIOUS
  <2>1. RankOK(s)
    BY DEF Inv
  <2>2. out'[s] = Cardinality({w \in Thread : at'[w] = s})
    BY <2>1 DEF RankOK, Quiet
  <2>3. CASE s = r
    BY <2>2, <2>3 DEF RankOK
  <2>4. CASE s # r
    BY <2>1, <2>2, <2>4 DEF RankOK, Advances
  <2> QED
    BY <2>3, <2>4
<1>3. Placed'
  BY DEF Inv, Placed, InQueue, InHand, Quiet
<1>4. Cover'
  <2> SUFFICES ASSUME NEW s \in Rank, NEW i \in 1 .. Len(q'[s]), q'[s][i] \notin moved',
                      i <= out'[s] \/ phase'[s] \notin {"loop", "pool", "check"}
               PROVE  Covered(s, i)'
    BY DEF Cover
  <2>1. q' = q /\ out' = out /\ moved' = moved /\ pc' = pc /\ at' = at /\ turn' = turn
    BY DEF Quiet
  <2>2. Len(q[s]) \in Nat /\ out[s] \in Nat
    BY QueueFacts DEF Inv, Typed
  <2>3. i <= out[s] \/ phase[s] \notin {"loop", "pool", "check"}
    BY <2>1, <2>2 DEF Advances
  <2>4. Covered(s, i)
    BY <2>1, <2>3 DEF Inv, Cover
  <2> QED
    BY <2>1, <2>4 DEF Covered
<1> QED
  BY <1>1, <1>2, <1>3, <1>4 DEF Inv

(* An iteration count is at most the number of iterations.                 *)
LEMMA ShareBound ==
  ASSUME NEW n \in Nat, NEW t \in 0 .. NumThreads - 1
  PROVE  Share(n, t) \in 0 .. n
<1>1. NumThreads \in Nat \ {0}
  BY Constants
<1> DEFINE d == n \div NumThreads
           m == n % NumThreads
<1>2. d \in Nat /\ m \in 0 .. NumThreads - 1 /\ n = NumThreads * d + m
  BY <1>1
<1> HIDE DEF d, m
<1> DEFINE p == NumThreads * d
<1>3. p \in Nat /\ d <= p /\ n = p + m
  BY <1>1, <1>2
<1> HIDE DEF p
<1>4. d + (IF t < m THEN 1 ELSE 0) \in 0 .. n
  <2>1. CASE t < m
    <3>1. m >= 1
      BY <2>1, <1>2
    <3> QED
      BY <1>2, <1>3, <2>1, <3>1
  <2>2. CASE ~(t < m)
    BY <1>2, <1>3, <2>2
  <2> QED
    BY <2>1, <2>2
<1> QED
  BY <1>4 DEF Share, d, m

(* The parallel loop opens.                                                *)
LEMMA OpenLoopStep ==
  ASSUME Inv, NEW r \in Rank, OpenLoop(r)
  PROVE  Inv'
<1>1. PICK bound \in {Size(r), Signed(Size(r))} :
        LET n == IF bound > 0 THEN bound ELSE 0
        IN  left' = [w \in Thread |-> IF RankOf(w) = r THEN Share(n, w[2]) ELSE left[w]]
  BY DEF OpenLoop
<1> DEFINE n == IF bound > 0 THEN bound ELSE 0
<1>2. n \in Nat /\ n <= SizeRange
  BY SizeFacts, Constants DEF Inv
<1>3. left' = [w \in Thread |-> IF RankOf(w) = r THEN Share(n, w[2]) ELSE left[w]]
  BY <1>1
<1> HIDE DEF n
<1>4. \A w \in Thread : Share(n, w[2]) \in 0 .. SizeRange
  BY <1>2, ShareBound, Constants, SMTT(30)
<1>5. left' \in [Thread -> 0 .. SizeRange]
  BY <1>3, <1>4 DEF Inv, Typed
<1>6. phase[r] = "loop" /\ phase' = [phase EXCEPT ![r] = "pool"] /\ UNCHANGED Quiet
      /\ UNCHANGED <<todo, victim, j>>
  BY DEF OpenLoop, GoTo, Quiet
<1>7. phase'[r] = "pool" /\ Typed'
  BY <1>5, <1>6 DEF Inv, Typed, Quiet
<1>8. Calm(r)
  BY <1>6, CalmOutside
<1>9. Advances(r)
  BY <1>3, <1>6 DEF Advances, Inv, Typed
<1>10. RankOK(r) /\ j' = j
  BY <1>6 DEF Inv
<1> QED
  BY <1>6, <1>7, <1>8, <1>9, <1>10, QuietStep DEF RankOK

(* It closes, with no pop of its threads in progress.                      *)
LEMMA CloseLoopStep ==
  ASSUME Inv, NEW r \in Rank, CloseLoop(r)
  PROVE  Inv'
<1>1. phase[r] = "pool" /\ phase' = [phase EXCEPT ![r] = "check"] /\ UNCHANGED Quiet
      /\ UNCHANGED <<left, todo, victim, j>>
  BY DEF CloseLoop, GoTo, Quiet
<1>2. phase'[r] = "check" /\ Typed' /\ Advances(r)
  BY <1>1 DEF Inv, Typed, Quiet, Advances
<1>3. Calm(r)
  BY DEF Calm, CloseLoop, Popping
<1>4. RankOK(r) /\ j' = j
  BY <1>1 DEF Inv
<1> QED
  BY <1>1, <1>2, <1>3, <1>4, QuietStep DEF RankOK

(* The rank sees its own queue empty, or goes on popping.                  *)
LEMMA CheckStep ==
  ASSUME Inv, NEW r \in Rank, Check(r)
  PROVE  Inv'
<1>1. phase[r] = "check" /\ UNCHANGED Quiet /\ UNCHANGED <<left, victim, j>>
  BY DEF Check, Quiet
<1>2. PICK label \in {"loop", "visit", "left"} :
        phase' = [phase EXCEPT ![r] = label] /\ (label # "loop" => Size(r) = 0)
  BY DEF Check, GoTo
<1>3. todo' \in [Rank -> SUBSET Rank]
  <2>1. todo \in [Rank -> SUBSET Rank]
    BY DEF Inv, Typed
  <2>2. todo' = todo \/ todo' = [todo EXCEPT ![r] = Rank \ {r}]
    BY DEF Check
  <2> QED
    BY <2>1, <2>2
<1>4. phase'[r] = label /\ Typed' /\ Advances(r)
  BY <1>1, <1>2, <1>3 DEF Inv, Typed, Quiet, Advances
<1>5. Calm(r)
  BY <1>1, CalmOutside
<1>6. RankOK(r) /\ j' = j
  BY <1>1 DEF Inv
<1>7. label # "loop" => Len(q[r]) <= out[r]
  <2>1. SUFFICES ASSUME label # "loop"
                 PROVE  Len(q[r]) <= out[r]
    OBVIOUS
  <2>2. out[r] <= Cardinality(Thread)
    BY <1>6, OutBound DEF Inv
  <2>3. Len(q[r]) = out[r]
    BY <1>1, <1>2, <2>1, <2>2, SizeZero DEF Inv
  <2> QED
    BY <2>3, QueueFacts DEF Inv
<1> QED
  BY <1>1, <1>4, <1>5, <1>6, <1>7, QuietStep DEF RankOK

(* The next victim.                                                        *)
LEMMA VisitStep ==
  ASSUME Inv, NEW r \in Rank, Visit(r)
  PROVE  Inv'
<1>1. phase[r] = "visit" /\ UNCHANGED Quiet /\ UNCHANGED left
  BY DEF Visit, Quiet
<1>2. PICK v \in todo[r] :
        /\ todo' = [todo EXCEPT ![r] = @ \ {v}]
        /\ IF Signed(Size(v)) > 0
             THEN /\ victim' = [victim EXCEPT ![r] = v]
                  /\ j' = [j EXCEPT ![r] = 0]
                  /\ phase' = [phase EXCEPT ![r] = "ask"]
             ELSE UNCHANGED <<victim, j, phase>>
  BY DEF Visit, GoTo
<1>3. v \in Rank /\ todo' \in [Rank -> SUBSET Rank]
  BY <1>2 DEF Inv, Typed
<1>4. Calm(r)
  BY <1>1, CalmOutside
<1>5. RankOK(r)
  BY DEF Inv
<1>6. StealNum \in Nat /\ StealDen \in Nat \ {0} /\ SizeRange \in Nat
  BY Constants
<1>7. CASE Signed(Size(v)) > 0
  <2> DEFINE V == [victim EXCEPT ![r] = v]
             J == [j EXCEPT ![r] = 0]
             P == [phase EXCEPT ![r] = "ask"]
  <2>a. victim' = V /\ j' = J /\ phase' = P
    BY <1>2, <1>7
  <2>b. Typed /\ UNCHANGED <<q, out, pc, at, turn, hand, ran, moved, left>>
    BY <1>1 DEF Quiet, Inv
  <2>1. phase'[r] = "ask" /\ victim'[r] = v /\ j'[r] = 0 /\ Typed' /\ Advances(r)
    BY <1>3, <2>a, <2>b DEF Typed, Advances
  <2>2. j'[r] * StealDen <= SizeRange * StealNum + StealDen
    BY <2>1, <1>6
  <2> QED
    BY <1>1, <1>3, <1>4, <2>1, <2>2, QuietStep
<1>8. CASE ~(Signed(Size(v)) > 0)
  <2>1. phase' = phase /\ victim' = victim /\ j' = j
    BY <1>2, <1>8
  <2>2. Typed' /\ Advances(r)
    BY <1>1, <1>3, <2>1 DEF Inv, Typed, Quiet, Advances
  <2> QED
    BY <1>1, <1>4, <1>5, <2>1, <2>2, QuietStep DEF RankOK
<1> QED
  BY <1>7, <1>8

(* No victim is left to visit, and the rank leaves.                        *)
LEMMA StealNothingStep ==
  ASSUME Inv, NEW r \in Rank, StealNothing(r)
  PROVE  Inv'
<1>1. phase[r] = "visit" /\ phase' = [phase EXCEPT ![r] = "left"] /\ UNCHANGED Quiet
      /\ UNCHANGED <<left, todo, victim, j>>
  BY DEF StealNothing, GoTo, Quiet
<1>2. phase'[r] = "left" /\ Typed' /\ Advances(r)
  BY <1>1 DEF Inv, Typed, Quiet, Advances
<1>3. Calm(r)
  BY <1>1, CalmOutside
<1>4. RankOK(r) /\ j' = j
  BY <1>1 DEF Inv
<1> QED
  BY <1>1, <1>2, <1>3, <1>4, QuietStep DEF RankOK

(* A victim's size bounds the pops that are tried there.                   *)
LEMMA AskStep ==
  ASSUME Inv, NEW r \in Rank, Ask(r)
  PROVE  Inv'
<1>1. phase[r] = "ask" /\ UNCHANGED Quiet /\ UNCHANGED <<left, todo, victim, j>>
  BY DEF Ask, Quiet
<1>2. RankOK(r) /\ victim[r] \in Rank
  BY <1>1 DEF Inv, RankOK
<1>3. PICK label \in {"steal", "look"} :
        /\ phase' = [phase EXCEPT ![r] = label]
        /\ label = "steal" => j[r] * StealDen < Size(victim[r]) * StealNum
  BY DEF Ask, GoTo
<1>4. phase'[r] = label /\ Typed' /\ Advances(r)
  BY <1>1, <1>3 DEF Inv, Typed, Quiet, Advances
<1>5. Calm(r)
  BY <1>1, CalmOutside
<1>6. label = "steal" => j[r] * StealDen <= SizeRange * StealNum
  <2>1. SUFFICES ASSUME label = "steal"
                 PROVE  j[r] * StealDen <= SizeRange * StealNum
    OBVIOUS
  <2>2. Size(victim[r]) \in 0 .. SizeRange - 1
    BY <1>2, SizeFacts DEF Inv
  <2>3. j[r] \in Nat /\ StealNum \in Nat /\ StealDen \in Nat /\ SizeRange \in Nat
    BY Constants DEF Inv, Typed
  <2> DEFINE z == Size(victim[r])
             a == j[r] * StealDen
  <2>4. a \in Nat /\ a < z * StealNum /\ z \in 0 .. SizeRange - 1
    BY <1>3, <2>1, <2>2, <2>3
  <2> HIDE DEF z, a
  <2>5. z * StealNum <= SizeRange * StealNum
    BY <2>3, <2>4
  <2>6. z * StealNum \in Nat /\ SizeRange * StealNum \in Nat
    BY <2>3, <2>4
  <2>7. a <= SizeRange * StealNum
    BY <2>4, <2>5, <2>6
  <2> QED
    BY <2>7 DEF a
<1> QED
  BY <1>1, <1>2, <1>4, <1>5, <1>6, QuietStep DEF RankOK

(* A stolen task is about to be pushed.                                    *)
LEMMA StartPushStep ==
  ASSUME Inv, NEW r \in Rank, StartPush(r)
  PROVE  Inv'
<1>1. phase[r] = "push" /\ phase' = [phase EXCEPT ![r] = "pushing"] /\ UNCHANGED Quiet
      /\ UNCHANGED <<left, todo, victim, j>>
  BY DEF StartPush, GoTo, Quiet
<1>2. phase'[r] = "pushing" /\ Typed' /\ Advances(r)
  BY <1>1 DEF Inv, Typed, Quiet, Advances
<1>3. Calm(r)
  BY <1>1, CalmOutside
<1>4. RankOK(r) /\ j' = j /\ victim' = victim
  BY <1>1 DEF Inv
<1> QED
  BY <1>1, <1>2, <1>3, <1>4, QuietStep DEF RankOK

(* The rank looks at its own queue again.                                  *)
LEMMA LookStep ==
  ASSUME Inv, NEW r \in Rank, Look(r)
  PROVE  Inv'
<1>1. phase[r] = "look" /\ UNCHANGED Quiet /\ UNCHANGED <<left, todo>>
      /\ victim' = [victim EXCEPT ![r] = NoRank] /\ j' = [j EXCEPT ![r] = 0]
  BY DEF Look, Quiet
<1>2. PICK label \in {"loop", "visit"} : phase' = [phase EXCEPT ![r] = label]
  BY DEF Look, GoTo
<1>3. phase'[r] = label /\ j'[r] = 0 /\ Typed' /\ Advances(r)
  BY <1>1, <1>2 DEF Inv, Typed, Quiet, Advances
<1>4. Calm(r)
  BY <1>1, CalmOutside
<1>5. j'[r] * StealDen <= SizeRange * StealNum + StealDen
  BY <1>3, Constants
<1> QED
  BY <1>1, <1>3, <1>4, <1>5, QuietStep

-----------------------------------------------------------------------------
(* The number of pops at a queue, when one begins and when one ends.       *)
LEMMA OneMore ==
  ASSUME Typed, \A r \in Rank : RankOK(r), NEW w \in Thread, NEW v \in Rank,
         at[w] = NoRank, at' = [at EXCEPT ![w] = v], out' = [out EXCEPT ![v] = @ + 1]
  PROVE  \A r \in Rank : out'[r] = Cardinality({u \in Thread : at'[u] = r})
<1> SUFFICES ASSUME NEW r \in Rank
             PROVE  out'[r] = Cardinality({u \in Thread : at'[u] = r})
  OBVIOUS
<1> DEFINE S == {u \in Thread : at[u] = r}
           T == {u \in Thread : at'[u] = r}
<1>1. out[r] = Cardinality(S) /\ IsFiniteSet(S)
  BY OutBound DEF RankOK
<1>2. w \notin S
  BY Constants
<1>3. CASE r = v
  <2>1. T = S \cup {w}
    BY <1>3 DEF Typed
  <2>2. Cardinality(T) = Cardinality(S) + 1
    <3> HIDE DEF S, T
    <3> QED
      BY <1>1, <1>2, <2>1, FS_AddElement
  <2>3. out'[r] = out[r] + 1
    BY <1>3 DEF Typed
  <2> QED
    BY <1>1, <2>2, <2>3
<1>4. CASE r # v
  <2>1. T = S /\ out'[r] = out[r]
    BY <1>4, Constants DEF Typed
  <2> QED
    BY <1>1, <2>1
<1> QED
  BY <1>3, <1>4

(* A pop that ends lowers the count of the queue it was at.                *)
LEMMA OneLess ==
  ASSUME Typed, \A r \in Rank : RankOK(r), NEW w \in Thread, at[w] \in Rank,
         at' = [at EXCEPT ![w] = NoRank], out' = [out EXCEPT ![at[w]] = @ - 1]
  PROVE  /\ \A r \in Rank : out'[r] = Cardinality({u \in Thread : at'[u] = r})
         /\ out' \in [Rank -> Nat] /\ \A r \in Rank : out'[r] <= out[r]
<1> DEFINE v == at[w]
<1>0. v \in Rank /\ out' = [out EXCEPT ![v] = @ - 1] /\ out \in [Rank -> Nat]
  BY DEF Typed
<1>1. ASSUME NEW r \in Rank
      PROVE  /\ out'[r] = Cardinality({u \in Thread : at'[u] = r})
             /\ out'[r] \in Nat /\ out'[r] <= out[r]
  <2> DEFINE S == {u \in Thread : at[u] = r}
             T == {u \in Thread : at'[u] = r}
  <2>1. out[r] = Cardinality(S) /\ IsFiniteSet(S)
    BY OutBound DEF RankOK
  <2>2. CASE r = v
    <3>1. T = S \ {w} /\ w \in S
      BY <2>2, Constants DEF Typed
    <3>2. IsFiniteSet(T) /\ Cardinality(T) = Cardinality(S) - 1
      <4> HIDE DEF S, T
      <4> QED
        BY <2>1, <3>1, FS_RemoveElement
    <3>3. out'[r] = out[r] - 1
      BY <1>0, <2>2
    <3>4. Cardinality(T) \in Nat
      BY <3>2, FS_CardinalityType
    <3>5. out[r] \in Nat
      BY <1>0
    <3> HIDE DEF S, T, v
    <3>6. out'[r] = Cardinality(T) /\ out'[r] <= out[r]
      BY <2>1, <3>2, <3>3, <3>5
    <3> QED
      BY <3>4, <3>6 DEF T
  <2>3. CASE r # v
    <3>1. \A u \in Thread : at'[u] = r <=> at[u] = r
      BY <1>0, <2>3, Constants DEF Typed
    <3>2. T = S
      BY <3>1
    <3>3. out'[r] = out[r] /\ out[r] \in Nat
      BY <1>0, <2>3
    <3> QED
      BY <2>1, <3>2, <3>3
  <2> QED
    BY <2>2, <2>3
<1>2. out' \in [Rank -> Nat]
  <2>1. DOMAIN out' = Rank /\ out' = [r \in Rank |-> out'[r]]
    BY <1>0
  <2> QED
    BY <1>1, <2>1
<1> QED
  BY <1>1, <1>2

(* A pop begins: its ticket is behind the others.                          *)
LEMMA TicketStep ==
  ASSUME Inv, NEW w \in Thread, NEW v \in Rank, TakeTicket(w, v),
         UNCHANGED <<q, phase, left, hand, todo, victim, j, ran, moved>>,
         \/ phase[RankOf(w)] = "pool" /\ v = RankOf(w) /\ left[w] > 0
         \/ phase[RankOf(w)] = "steal" /\ w = Master(RankOf(w))
  PROVE  Inv'
<1>1. /\ pc[w] = "idle" /\ at' = [at EXCEPT ![w] = v]
      /\ turn' = [turn EXCEPT ![w] = out[v]] /\ out' = [out EXCEPT ![v] = @ + 1]
      /\ pc' = [pc EXCEPT ![w] = "test"]
  BY DEF TakeTicket, Do
<1>2. Typed /\ (\A r \in Rank : RankOK(r)) /\ ThreadOK(w)
  BY DEF Inv
<1>3. at[w] = NoRank /\ at[w] # v
  BY <1>1, <1>2, Constants DEF ThreadOK, Popping
<1>4. out[v] \in Nat /\ out[v] <= Cardinality(Thread)
  BY <1>2, OutBound
<1>5. Typed'
  BY <1>1, <1>2, <1>4 DEF Typed
<1>6. \A u \in Thread : ThreadOK(u)'
  <2> SUFFICES ASSUME NEW u \in Thread
               PROVE  ThreadOK(u)'
    OBVIOUS
  <2>1. CASE u = w
    <3>1. at'[w] = v /\ pc'[w] = "test" /\ turn'[w] = out[v] /\ v # NoRank
      BY <1>1, <1>2, Constants DEF Typed
    <3>2. turn'[w] \in -1 .. Cardinality(Thread)
      BY <1>4, <3>1, Constants
    <3>3. hand'[w] = NoTask <=> ~Moving(w)'
      BY <1>1, <1>2 DEF ThreadOK, Moving
    <3> QED
      BY <2>1, <3>1, <3>2, <3>3 DEF ThreadOK, Popping
  <2>2. CASE u # w
    <3>1. at'[u] = at[u] /\ pc'[u] = pc[u] /\ turn'[u] = turn[u]
      BY <1>1, <1>2, <2>2 DEF Typed
    <3>2. ThreadOK(u)
      BY DEF Inv
    <3> QED
      BY <3>1, <3>2 DEF ThreadOK, Popping, Moving
  <2> QED
    BY <2>1, <2>2
<1>7. \A r \in Rank : RankOK(r)'
  <2>1. \A r \in Rank : out'[r] = Cardinality({u \in Thread : at'[u] = r})
    BY <1>1, <1>2, <1>3, OneMore
  <2> QED
    BY <1>2, <2>1 DEF RankOK
<1>8. Placed'
  BY DEF Inv, Placed, InQueue, InHand
<1>9. Cover'
  <2> SUFFICES ASSUME NEW r \in Rank, NEW i \in 1 .. Len(q'[r]), q'[r][i] \notin moved',
                      i <= out'[r] \/ phase'[r] \notin {"loop", "pool", "check"}
               PROVE  Covered(r, i)'
    BY DEF Cover
  <2>1. i \in 1 .. Len(q[r]) /\ q[r][i] \notin moved /\ i \in Int
    BY <1>2, QueueFacts
  <2>2. CASE Covered(r, i)
    <3>1. PICK u \in Thread : at[u] = r /\ turn[u] = i - 1 /\ pc[u] \in {"test", "take"}
      BY <2>2 DEF Covered
    <3>2. u # w
      BY <1>1, <3>1
    <3>3. at'[u] = r /\ turn'[u] = i - 1 /\ pc'[u] \in {"test", "take"}
      BY <1>1, <1>2, <3>1, <3>2 DEF Typed
    <3> QED
      BY <3>3 DEF Covered
  <2>3. CASE ~Covered(r, i)
    <3>1. ~(i <= out[r]) /\ phase[r] \in {"loop", "pool", "check"}
      BY <2>1, <2>3 DEF Inv, Cover
    <3>2. i <= out'[r] /\ out[r] \in Nat
      BY <1>2, <3>1 DEF Typed
    <3>3. r = v
      BY <1>1, <1>2, <3>1, <3>2 DEF Typed
    <3>4. i = out[v] + 1
      BY <1>1, <1>2, <2>1, <3>1, <3>2, <3>3, SMTT(30) DEF Typed
    <3>5. at'[w] = r /\ turn'[w] = i - 1 /\ pc'[w] = "test"
      BY <1>1, <1>2, <1>4, <3>3, <3>4 DEF Typed
    <3> QED
      BY <3>5 DEF Covered
  <2> QED
    BY <2>2, <2>3
<1> QED
  BY <1>5, <1>6, <1>7, <1>8, <1>9 DEF Inv

(* A thread takes a ticket of its own queue.                               *)
LEMMA PopOwnStep ==
  ASSUME Inv, NEW w \in Thread, PopOwn(w)
  PROVE  Inv'
BY TicketStep, Constants DEF PopOwn

(* A thief takes a ticket of its victim's queue.                           *)
LEMMA PopOtherStep ==
  ASSUME Inv, NEW r \in Rank, PopOther(r)
  PROVE  Inv'
<1>1. Master(r) \in Thread /\ RankOf(Master(r)) = r
  BY Constants
<1>2. victim[r] \in Rank
  BY DEF Inv, RankOK, PopOther
<1>3. PICK v \in Rank : v = victim[r]
  BY <1>2
<1>4. PICK w \in Thread : w = Master(r)
  BY <1>1
<1> QED
  BY <1>1, <1>3, <1>4, TicketStep DEF PopOther

(* The test: an element for each ticket up to this one.                    *)
LEMMA TestStep ==
  ASSUME Inv, NEW w \in Thread, Test(w)
  PROVE  Inv'
<1> DEFINE label == IF turn[w] < Len(q[at[w]]) THEN "take" ELSE "undo"
<1>1. pc[w] = "test" /\ pc' = [pc EXCEPT ![w] = label]
      /\ UNCHANGED <<q, out, phase, left, at, turn, hand, todo, victim, j, ran, moved>>
  BY DEF Test, Do
<1>2. Typed /\ (\A r \in Rank : RankOK(r)) /\ ThreadOK(w)
  BY DEF Inv
<1>3. label \in {"take", "undo"} /\ (label = "take" => turn[w] < Len(q[at[w]]))
  OBVIOUS
<1>4. \A i \in Int : turn[w] = i - 1 /\ i <= Len(q[at[w]]) => label = "take"
  <2>1. at[w] \in Rank
    BY <1>1, <1>2 DEF ThreadOK, Popping, Typed
  <2>2. Len(q[at[w]]) \in Nat
    BY <1>2, <2>1, QueueFacts
  <2> QED
    BY <2>2
<1> HIDE DEF label
<1>5. Typed'
  BY <1>1, <1>2, <1>3 DEF Typed
<1>6. \A u \in Thread : ThreadOK(u)'
  <2> SUFFICES ASSUME NEW u \in Thread
               PROVE  ThreadOK(u)'
    OBVIOUS
  <2>1. ThreadOK(u)
    BY DEF Inv
  <2>2. CASE u = w
    <3>1. pc'[u] = label
      BY <1>1, <1>2, <2>2 DEF Typed
    <3> QED
      BY <1>1, <1>3, <2>1, <2>2, <3>1 DEF ThreadOK, Popping, Moving
  <2>3. CASE u # w
    <3>1. pc'[u] = pc[u]
      BY <1>1, <1>2, <2>3 DEF Typed
    <3> QED
      BY <1>1, <2>1, <3>1 DEF ThreadOK, Popping, Moving
  <2> QED
    BY <2>2, <2>3
<1>7. \A r \in Rank : RankOK(r)'
  BY <1>1, <1>2 DEF RankOK
<1>8. Placed'
  BY <1>1 DEF Inv, Placed, InQueue, InHand
<1>9. Cover'
  <2> SUFFICES ASSUME NEW r \in Rank, NEW i \in 1 .. Len(q'[r]), q'[r][i] \notin moved',
                      i <= out'[r] \/ phase'[r] \notin {"loop", "pool", "check"}
               PROVE  Covered(r, i)'
    BY DEF Cover
  <2>1. i \in 1 .. Len(q[r]) /\ Len(q[r]) \in Nat /\ i \in Int /\ i <= Len(q[r])
    BY <1>1, <1>2, QueueFacts
  <2>2. Covered(r, i)
    BY <1>1, <2>1 DEF Inv, Cover
  <2>3. PICK u \in Thread : at[u] = r /\ turn[u] = i - 1 /\ pc[u] \in {"test", "take"}
    BY <2>2 DEF Covered
  <2>4. pc'[u] \in {"test", "take"}
    <3>1. CASE u = w
      BY <1>1, <1>2, <1>4, <2>1, <2>3, <3>1 DEF Typed
    <3>2. CASE u # w
      BY <1>1, <1>2, <2>3, <3>2 DEF Typed
    <3> QED
      BY <3>1, <3>2
  <2> QED
    BY <1>1, <2>3, <2>4 DEF Covered
<1> QED
  BY <1>5, <1>6, <1>7, <1>8, <1>9 DEF Inv

(* A pop that found too few elements gives its ticket back.                *)
LEMMA GiveBackStep ==
  ASSUME Inv, NEW w \in Thread, GiveBack(w),
         UNCHANGED <<q, hand, todo, victim, ran, moved>>,
         \/ /\ phase[RankOf(w)] = "pool" /\ UNCHANGED <<phase, j>>
            /\ left' = [left EXCEPT ![w] = @ - 1]
         \/ /\ phase[RankOf(w)] = "steal" /\ UNCHANGED left
            /\ phase' = [phase EXCEPT ![RankOf(w)] = "ask"]
            /\ j' = [j EXCEPT ![RankOf(w)] = @ + 1]
  PROVE  Inv'
<1> PICK r \in Rank : r = RankOf(w)
  BY Constants
<1>1. /\ pc[w] = "undo" /\ at' = [at EXCEPT ![w] = NoRank]
      /\ turn' = [turn EXCEPT ![w] = 0] /\ out' = [out EXCEPT ![at[w]] = @ - 1]
      /\ pc' = [pc EXCEPT ![w] = "idle"]
  BY DEF GiveBack, Do
<1>2. Typed /\ (\A s \in Rank : RankOK(s)) /\ ThreadOK(w)
  BY DEF Inv
<1>3. at[w] \in Rank
  BY <1>1, <1>2 DEF ThreadOK, Popping, Typed
<1>4. /\ \A s \in Rank : out'[s] = Cardinality({u \in Thread : at'[u] = s})
      /\ out' \in [Rank -> Nat] /\ \A s \in Rank : out'[s] <= out[s]
  BY <1>1, <1>2, <1>3, OneLess
<1>5. \A u \in Thread : u # w =>
        ThreadOK(u) /\ at'[u] = at[u] /\ turn'[u] = turn[u] /\ pc'[u] = pc[u]
  BY <1>1, <1>2 DEF Inv, Typed
<1>6. at'[w] = NoRank /\ turn'[w] = 0 /\ pc'[w] = "idle" /\ hand[w] = NoTask
  BY <1>1, <1>2 DEF Typed, ThreadOK, Popping, Moving
<1>7. 0 \in -1 .. Cardinality(Thread)
  BY Constants
<1>8. Placed'
  BY DEF Inv, Placed, InQueue, InHand
<1>9. ASSUME \A s \in Rank : \/ phase'[s] = phase[s]
                             \/ phase[s] = "steal"
      PROVE  Cover'
  <2> SUFFICES ASSUME NEW s \in Rank, NEW i \in 1 .. Len(q'[s]), q'[s][i] \notin moved',
                      i <= out'[s] \/ phase'[s] \notin {"loop", "pool", "check"}
               PROVE  Covered(s, i)'
    BY DEF Cover
  <2>1. i \in 1 .. Len(q[s]) /\ i \in Int /\ out'[s] <= out[s]
        /\ out[s] \in Nat /\ out'[s] \in Nat
    BY <1>2, <1>4, QueueFacts DEF Typed
  <2>2. i <= out[s] \/ phase[s] \notin {"loop", "pool", "check"}
    BY <1>9, <2>1
  <2>3. Covered(s, i)
    BY <2>1, <2>2 DEF Inv, Cover
  <2>4. PICK u \in Thread : at[u] = s /\ turn[u] = i - 1 /\ pc[u] \in {"test", "take"}
    BY <2>3 DEF Covered
  <2>5. u # w
    BY <1>1, <2>4
  <2> QED
    BY <1>5, <2>4, <2>5 DEF Covered
<1>10. CASE /\ phase[r] = "pool" /\ UNCHANGED <<phase, j>>
            /\ left' = [left EXCEPT ![w] = @ - 1]
  <2>1. left[w] > 0 /\ left[w] \in 0 .. SizeRange /\ SizeRange \in Nat
    BY <1>1, <1>2, <1>10, Constants DEF ThreadOK, Popping, Typed
  <2>2. left' \in [Thread -> 0 .. SizeRange]
    <3>1. left[w] - 1 \in 0 .. SizeRange
      BY <2>1
    <3> QED
      BY <1>2, <1>10, <3>1 DEF Typed
  <2>a. /\ pc' \in [Thread -> {"idle", "test", "take", "undo", "run"}]
        /\ at' \in [Thread -> Rank \cup {NoRank}] /\ turn' \in [Thread -> Int]
    BY <1>1, <1>2 DEF Typed
  <2>3. Typed'
    BY <1>2, <1>4, <1>10, <2>2, <2>a DEF Typed
  <2>4. \A u \in Thread : ThreadOK(u)'
    <3> SUFFICES ASSUME NEW u \in Thread
                 PROVE  ThreadOK(u)'
      OBVIOUS
    <3>1. CASE u = w
      BY <1>6, <1>7, <1>10, <3>1 DEF ThreadOK, Popping, Moving
    <3>2. CASE u # w
      <4>1. left'[u] = left[u]
        BY <1>2, <1>10, <3>2 DEF Typed
      <4> QED
        BY <1>5, <1>10, <3>2, <4>1 DEF ThreadOK, Popping, Moving
    <3> QED
      BY <3>1, <3>2
  <2>5. \A s \in Rank : RankOK(s)'
    BY <1>2, <1>4, <1>10 DEF RankOK
  <2> QED
    BY <1>8, <1>9, <1>10, <2>3, <2>4, <2>5 DEF Inv
<1>11. CASE /\ phase[r] = "steal" /\ UNCHANGED left
            /\ phase' = [phase EXCEPT ![r] = "ask"] /\ j' = [j EXCEPT ![r] = @ + 1]
  <2>1. Typed'
    BY <1>1, <1>2, <1>4, <1>11, SMTT(30) DEF Typed
  <2>2. w = Master(r)
    BY <1>1, <1>2, <1>11 DEF ThreadOK, Popping
  <2>3. phase'[r] = "ask" /\ j'[r] = j[r] + 1
        /\ \A s \in Rank : s # r => phase'[s] = phase[s] /\ j'[s] = j[s]
    BY <1>2, <1>11 DEF Typed
  <2>4. \A u \in Thread : ThreadOK(u)'
    <3> SUFFICES ASSUME NEW u \in Thread
                 PROVE  ThreadOK(u)'
      OBVIOUS
    <3>1. CASE u = w
      BY <1>6, <1>7, <2>3, <3>1 DEF ThreadOK, Popping, Moving
    <3>2. CASE u # w /\ RankOf(u) = r
      <4>1. ~Popping(u) /\ pc[u] # "run" /\ ~Moving(u)
        BY <1>5, <1>11, <2>2, <3>2 DEF ThreadOK, Moving
      <4> QED
        BY <1>5, <2>3, <3>2, <4>1 DEF ThreadOK, Popping, Moving
    <3>3. CASE RankOf(u) # r
      <4>1. RankOf(u) \in Rank /\ u # w
        BY <3>3, Constants
      <4> QED
        BY <1>5, <1>11, <2>3, <3>3, <4>1 DEF ThreadOK, Popping, Moving
    <3> QED
      BY <3>1, <3>2, <3>3
  <2>5. \A s \in Rank : RankOK(s)'
    <3> SUFFICES ASSUME NEW s \in Rank
                 PROVE  RankOK(s)'
      OBVIOUS
    <3>1. CASE s = r
      <4>1. j[r] * StealDen <= SizeRange * StealNum /\ victim[r] \in Rank
        BY <1>2, <1>11 DEF RankOK
      <4> DEFINE a == j[r] * StealDen
                 b == SizeRange * StealNum
      <4>0. /\ j[r] \in Nat /\ StealDen \in Nat
             /\ SizeRange \in Nat /\ StealNum \in Nat
        BY <1>2, Constants DEF Typed
      <4>2. j[r] \in Nat /\ StealDen \in Nat /\ a \in Nat /\ b \in Nat
        BY <4>0
      <4>3. (j[r] + 1) * StealDen = a + StealDen
        BY <4>2
      <4>4. a <= b
        BY <4>1
      <4> HIDE DEF a, b
      <4>5. (j[r] + 1) * StealDen <= b + StealDen
        BY <4>2, <4>3, <4>4
      <4>6. j'[r] * StealDen <= SizeRange * StealNum + StealDen
        BY <2>3, <4>5 DEF b
      <4> QED
        BY <1>4, <2>3, <3>1, <4>1, <4>6 DEF RankOK
    <3>2. CASE s # r
      BY <1>2, <1>4, <2>3, <3>2 DEF RankOK
    <3> QED
      BY <3>1, <3>2
  <2>6. Cover'
    BY <1>9, <1>11, <2>3
  <2> QED
    BY <1>8, <2>1, <2>4, <2>5, <2>6 DEF Inv
<1> QED
  BY <1>10, <1>11

(* A pop that found the queue empty.                                       *)
LEMMA FailStep ==
  ASSUME Inv, NEW w \in Thread, FailToRun(w) \/ FailToMove(w)
  PROVE  Inv'
<1>1. CASE FailToRun(w)
  BY <1>1, GiveBackStep DEF FailToRun
<1>2. CASE FailToMove(w)
  BY <1>2, GiveBackStep DEF FailToMove, GoTo
<1> QED
  BY <1>1, <1>2

-----------------------------------------------------------------------------
(* The first element of a queue goes to a hand.                            *)
LEMMA TakePlaced ==
  ASSUME Typed, Placed, NEW w \in Thread, NEW v \in Rank, Len(q[v]) > 0,
         hand[w] = NoTask, hand' = [hand EXCEPT ![w] = Head(q[v])],
         q' = [q EXCEPT ![v] = Tail(@)], ran' = ran
  PROVE  /\ Placed' /\ Head(q[v]) \in Task
         /\ q' \in [Rank -> Seq(Task)] /\ Len(q'[v]) = Len(q[v]) - 1
         /\ \A i \in 1 .. Len(q'[v]) : q'[v][i] = q[v][i + 1]
         /\ \A r \in Rank : r # v => q'[r] = q[r]
<1> DEFINE x == Head(q[v])
<1>1. q[v] \in Seq(Task) /\ q[v] # <<>> /\ Len(q[v]) \in Nat
  BY QueueFacts
<1>2. /\ x \in Task /\ Tail(q[v]) \in Seq(Task) /\ Len(Tail(q[v])) = Len(q[v]) - 1
      /\ \A i \in 1 .. Len(Tail(q[v])) : Tail(q[v])[i] = q[v][i + 1]
  BY <1>1, HeadTailProperties
<1>3. x = q[v][1]
  BY <1>1
<1>4. /\ q'[v] = Tail(q[v]) /\ q' \in [Rank -> Seq(Task)]
      /\ \A r \in Rank : r # v => q'[r] = q[r]
  BY <1>2 DEF Typed
<1>5. /\ Len(q'[v]) = Len(q[v]) - 1
      /\ \A i \in 1 .. Len(q'[v]) : q'[v][i] = q[v][i + 1]
  BY <1>2, <1>4
<1>6. \A r \in Rank : \A i \in 1 .. Len(q'[r]) :
        \E k \in 1 .. Len(q[r]) : /\ k = (IF r = v THEN i + 1 ELSE i)
                                  /\ q'[r][i] = q[r][k] /\ (r = v => k # 1)
  <2> TAKE r \in Rank
  <2> TAKE i \in 1 .. Len(q'[r])
  <2>1. CASE r = v
    <3>1. i \in 1 .. Len(q[v]) - 1 /\ q'[v][i] = q[v][i + 1]
      BY <1>5, <2>1
    <3>2. i + 1 \in 1 .. Len(q[r]) /\ i + 1 # 1
      BY <1>1, <2>1, <3>1
    <3> QED
      BY <2>1, <3>1, <3>2
  <2>2. CASE r # v
    BY <1>4, <2>2
  <2> QED
    BY <2>1, <2>2
<1>7. hand'[w] = x /\ \A u \in Thread : u # w => hand'[u] = hand[u]
  BY DEF Typed
<1>8. InQueue(x) /\ x # NoTask
  BY <1>1, <1>2, <1>3, Constants DEF InQueue
<1> HIDE DEF x
<1>9. \A t \in Task : InQueue(t)' => InQueue(t) /\ t # x
  <2> TAKE t \in Task
  <2>1. SUFFICES ASSUME NEW r \in Rank, NEW i \in 1 .. Len(q'[r]), q'[r][i] = t
                 PROVE  InQueue(t) /\ t # x
    BY DEF InQueue
  <2>2. PICK k \in 1 .. Len(q[r]) : q'[r][i] = q[r][k] /\ (r = v => k # 1)
    BY <1>6
  <2>3. 1 \in 1 .. Len(q[v])
    BY <1>1
  <2>4. t # x
    BY <1>3, <2>1, <2>2, <2>3 DEF Placed
  <2> QED
    BY <2>1, <2>2, <2>4 DEF InQueue
<1>10. \A t \in Task : InQueue(t) => InQueue(t)' \/ t = x
  <2> TAKE t \in Task
  <2>1. SUFFICES ASSUME NEW r \in Rank, NEW k \in 1 .. Len(q[r]), q[r][k] = t, t # x
                 PROVE  InQueue(t)'
    BY DEF InQueue
  <2>2. CASE r = v
    <3>1. k # 1 /\ k \in Int
      BY <1>3, <2>1, <2>2
    <3>2. k - 1 \in 1 .. Len(q'[v]) /\ (k - 1) + 1 = k
      BY <1>1, <1>5, <2>2, <3>1
    <3>3. q'[v][k - 1] = t
      BY <1>5, <2>1, <2>2, <3>2
    <3> QED
      BY <3>2, <3>3 DEF InQueue
  <2>3. CASE r # v
    BY <1>4, <2>1, <2>3 DEF InQueue
  <2> QED
    BY <2>2, <2>3
<1>11. \A t \in Task : InHand(t)' <=> InHand(t) \/ t = x
  <2> TAKE t \in Task
  <2>1. hand[w] # t
    BY Constants
  <2> QED
    BY <1>7, <2>1 DEF InHand
<1>12. ~InHand(x)
  BY <1>2, <1>8 DEF Placed, x
<1>13. \A r, s \in Rank : \A i \in 1 .. Len(q'[r]), k \in 1 .. Len(q'[s]) :
         q'[r][i] = q'[s][k] => r = s /\ i = k
  <2> SUFFICES ASSUME NEW r \in Rank, NEW s \in Rank, NEW i \in 1 .. Len(q'[r]),
                      NEW k \in 1 .. Len(q'[s]), q'[r][i] = q'[s][k]
               PROVE  r = s /\ i = k
    OBVIOUS
  <2>1. PICK a \in 1 .. Len(q[r]) : a = (IF r = v THEN i + 1 ELSE i) /\ q'[r][i] = q[r][a]
    BY <1>6
  <2>2. PICK b \in 1 .. Len(q[s]) : b = (IF s = v THEN k + 1 ELSE k) /\ q'[s][k] = q[s][b]
    BY <1>6
  <2>3. r = s /\ a = b
    BY <2>1, <2>2 DEF Placed
  <2>4. i \in Int /\ k \in Int
    OBVIOUS
  <2> QED
    BY <2>1, <2>2, <2>3, <2>4
<1>14. \A u, y \in Thread : hand'[u] = hand'[y] /\ hand'[u] # NoTask => u = y
  <2>1. \A u \in Thread : hand[u] # x
    BY <1>12 DEF InHand
  <2> QED
    BY <1>7, <2>1 DEF Placed
<1>15. \A t \in Task : /\ ~(InQueue(t)' /\ InHand(t)')
                       /\ InQueue(t)' \/ InHand(t)' => ran'[t] = 0
                       /\ InQueue(t)' \/ InHand(t)' \/ ran'[t] = 1
  <2> TAKE t \in Task
  <2>1. CASE t = x
    BY <1>8, <1>9, <1>11, <2>1 DEF Placed
  <2>2. CASE t # x
    BY <1>9, <1>10, <1>11, <2>2 DEF Placed
  <2> QED
    BY <2>1, <2>2
<1>16. Placed'
  BY <1>13, <1>14, <1>15 DEF Placed
<1> QED
  BY <1>2, <1>4, <1>5, <1>16 DEF x

(* The tickets behind the one that is served move up with the elements.    *)
LEMMA TakeCover ==
  ASSUME Inv, NEW w \in Thread, Take(w),
         pc'[w] \in {"run", "idle"}, \A u \in Thread : u # w => pc'[u] = pc[u],
         moved' = moved,
         \A r \in Rank : phase'[r] = phase[r] \/ phase[r] = "steal",
         at[w] \in Rank, Len(q[at[w]]) > 0, Len(q'[at[w]]) = Len(q[at[w]]) - 1,
         \A i \in 1 .. Len(q'[at[w]]) : q'[at[w]][i] = q[at[w]][i + 1],
         \A r \in Rank : r # at[w] => q'[r] = q[r]
  PROVE  Cover'
<1> PICK v \in Rank : v = at[w]
  OBVIOUS
<1> SUFFICES ASSUME NEW r \in Rank, NEW i \in 1 .. Len(q'[r]), q'[r][i] \notin moved',
                    i <= out'[r] \/ phase'[r] \notin {"loop", "pool", "check"}
             PROVE  Covered(r, i)'
  BY DEF Cover
<1>1. /\ turn[w] = 0 /\ pc[w] = "take"
      /\ turn' = [u \in Thread |-> IF u = w THEN 0
                                   ELSE IF at[u] = v /\ turn[u] >= 0 THEN turn[u] - 1
                                   ELSE turn[u]]
      /\ at' = [at EXCEPT ![w] = NoRank] /\ out' = [out EXCEPT ![v] = @ - 1]
  BY DEF Take
<1>2. Typed /\ r # NoRank
  BY Constants DEF Inv
<1>3. CASE r = v
  <2>1. i \in 1 .. Len(q[v]) - 1 /\ q'[r][i] = q[v][i + 1]
    BY <1>3
  <2>2. Len(q[v]) \in Nat /\ out[v] \in Nat
    BY <1>2, QueueFacts DEF Typed
  <2>3. i + 1 \in 1 .. Len(q[v]) /\ i + 1 # 1 /\ i \in Int
    BY <2>1, <2>2
  <2>4. out'[r] = out[v] - 1
    BY <1>1, <1>2, <1>3 DEF Typed
  <2>5. i + 1 <= out[v] \/ phase[v] \notin {"loop", "pool", "check"}
    BY <1>3, <2>2, <2>3, <2>4
  <2>6. Covered(v, i + 1)
    BY <2>1, <2>3, <2>5 DEF Inv, Cover
  <2>7. PICK u \in Thread : at[u] = v /\ turn[u] = (i + 1) - 1 /\ pc[u] \in {"test", "take"}
    BY <2>6 DEF Covered
  <2>8. turn[u] = i /\ i > 0
    BY <2>3, <2>7
  <2>9. u # w
    BY <1>1, <2>8
  <2>10. turn'[u] = i - 1
    BY <1>1, <2>7, <2>8, <2>9
  <2>11. at'[u] = r /\ pc'[u] \in {"test", "take"}
    BY <1>1, <1>2, <1>3, <2>7, <2>9 DEF Typed
  <2> QED
    BY <2>10, <2>11 DEF Covered
<1>4. CASE r # v
  <2>1. q'[r] = q[r] /\ out'[r] = out[r]
    BY <1>1, <1>2, <1>4 DEF Typed
  <2>2. Covered(r, i)
    BY <2>1 DEF Inv, Cover
  <2>3. PICK u \in Thread : at[u] = r /\ turn[u] = i - 1 /\ pc[u] \in {"test", "take"}
    BY <2>2 DEF Covered
  <2>4. u # w
    BY <1>4, <2>3
  <2>5. turn'[u] = turn[u] /\ at'[u] = r /\ pc'[u] \in {"test", "take"}
    BY <1>1, <1>2, <1>4, <2>3, <2>4 DEF Typed
  <2> QED
    BY <2>3, <2>5 DEF Covered
<1> QED
  BY <1>3, <1>4

(* A pop that takes a task, to run it or to move it.                       *)
LEMMA TakeStep ==
  ASSUME Inv, NEW w \in Thread, TakeToRun(w) \/ TakeToMove(w)
  PROVE  Inv'
<1> PICK r \in Rank : r = RankOf(w)
  BY Constants
<1> DEFINE label == IF phase[r] = "pool" THEN "run" ELSE "idle"
           next == IF phase[r] = "pool" THEN "pool" ELSE "push"
<1>1. /\ phase[r] \in {"pool", "steal"} /\ pc[w] = "take" /\ turn[w] = 0
      /\ pc' = [pc EXCEPT ![w] = label] /\ UNCHANGED <<left, todo, victim, j, ran, moved>>
      /\ hand' = [hand EXCEPT ![w] = Head(q[at[w]])]
      /\ q' = [q EXCEPT ![at[w]] = Tail(@)] /\ at' = [at EXCEPT ![w] = NoRank]
      /\ out' = [out EXCEPT ![at[w]] = @ - 1]
  BY DEF TakeToRun, TakeToMove, Take, Do
<1>2. Typed /\ (\A s \in Rank : RankOK(s)) /\ ThreadOK(w) /\ Placed /\ Take(w)
  BY DEF Inv, TakeToRun, TakeToMove
<1>3. phase'[r] = next /\ (\A s \in Rank : s # r => phase'[s] = phase[s])
      /\ DOMAIN phase' = Rank
      /\ phase' \in [Rank -> {"loop", "pool", "check", "visit", "ask", "steal", "push",
                              "pushing", "look", "left"}]
  <2>1. CASE TakeToRun(w)
    BY <1>2, <2>1 DEF TakeToRun, Typed
  <2>2. CASE TakeToMove(w)
    BY <1>2, <2>2 DEF TakeToMove, GoTo, Typed
  <2> QED
    BY <2>1, <2>2
<1>4. /\ at[w] \in Rank /\ hand[w] = NoTask
      /\ phase[r] = "pool" => left[w] > 0 /\ at[w] = r
      /\ phase[r] = "steal" => w = Master(r)
  BY <1>1, <1>2 DEF ThreadOK, Popping, Moving, Typed
<1> PICK v \in Rank : v = at[w]
  BY <1>4
<1>5. Len(q[v]) \in Nat /\ Len(q[v]) > 0
  BY <1>1, <1>2, QueueFacts DEF ThreadOK
<1>6. /\ Placed' /\ Head(q[v]) \in Task /\ q' \in [Rank -> Seq(Task)]
      /\ Len(q'[v]) = Len(q[v]) - 1
      /\ \A i \in 1 .. Len(q'[v]) : q'[v][i] = q[v][i + 1]
      /\ \A s \in Rank : s # v => q'[s] = q[s]
  BY <1>1, <1>2, <1>4, <1>5, TakePlaced, ZenonT(30)
<1>7. /\ \A s \in Rank : out'[s] = Cardinality({u \in Thread : at'[u] = s})
      /\ out' \in [Rank -> Nat]
  BY <1>1, <1>2, <1>4, OneLess
<1>8. turn' = [u \in Thread |-> IF u = w THEN 0
                                ELSE IF at[u] = v /\ turn[u] >= 0 THEN turn[u] - 1
                                ELSE turn[u]]
  BY <1>2 DEF Take
<1>9. label \in {"run", "idle"} /\ (label = "run" <=> phase[r] = "pool")
      /\ next \in {"pool", "push"} /\ (next = "pool" <=> phase[r] = "pool")
  OBVIOUS
<1> HIDE DEF label, next
<1>10. turn' \in [Thread -> Int] /\ hand' \in [Thread -> Task \cup {NoTask}]
  <2>1. turn' \in [Thread -> Int]
    BY <1>2, <1>8 DEF Typed
  <2>2. hand' \in [Thread -> Task \cup {NoTask}]
    BY <1>1, <1>2, <1>6 DEF Typed
  <2> QED
    BY <2>1, <2>2
<1>11. /\ pc' \in [Thread -> {"idle", "test", "take", "undo", "run"}]
       /\ at' \in [Thread -> Rank \cup {NoRank}]
  BY <1>1, <1>2, <1>9 DEF Typed
<1>12. Typed'
  BY <1>1, <1>2, <1>3, <1>6, <1>7, <1>10, <1>11 DEF Typed
<1>13. /\ at'[w] = NoRank /\ turn'[w] = 0 /\ pc'[w] = label /\ hand'[w] = Head(q[v])
       /\ \A u \in Thread : u # w => at'[u] = at[u] /\ pc'[u] = pc[u] /\ hand'[u] = hand[u]
  BY <1>1, <1>2, <1>8 DEF Typed
<1>14. \A u \in Thread : ThreadOK(u)'
  <2> SUFFICES ASSUME NEW u \in Thread
               PROVE  ThreadOK(u)'
    OBVIOUS
  <2>1. CASE u = w
    <3>1. 0 \in -1 .. Cardinality(Thread) /\ hand'[w] # NoTask
      BY <1>6, <1>13, Constants
    <3>2. ~Popping(w)'
      BY <1>9, <1>13 DEF Popping
    <3>3. pc'[w] = "run" \/ Moving(w)'
      BY <1>1, <1>3, <1>4, <1>9, <1>13 DEF Moving
    <3>4. pc'[w] = "run" => phase'[r] = "pool" /\ left'[w] > 0
      BY <1>1, <1>3, <1>4, <1>9, <1>13
    <3>5. pc'[w] # "take"
      BY <1>9, <1>13
    <3> QED
      BY <2>1, <1>13, <3>1, <3>2, <3>3, <3>4, <3>5 DEF ThreadOK
  <2>2. CASE u # w
    <3>1. ThreadOK(u) /\ at'[u] = at[u] /\ pc'[u] = pc[u] /\ hand'[u] = hand[u]
          /\ turn[u] \in Int
      BY <1>2, <1>13, <2>2 DEF Inv, Typed
    <3>2. turn'[u] = IF at[u] = v /\ turn[u] >= 0 THEN turn[u] - 1 ELSE turn[u]
      BY <1>8, <2>2
    <3>3. turn'[u] \in -1 .. Cardinality(Thread)
      BY <3>1, <3>2, Constants DEF ThreadOK
    <3>4. pc'[u] = "take" => turn'[u] < Len(q'[at'[u]])
      <4> SUFFICES ASSUME pc[u] = "take"
                   PROVE  turn'[u] < Len(q'[at[u]])
        BY <3>1
      <4>1. at[u] \in Rank /\ turn[u] < Len(q[at[u]])
        BY <1>2, <3>1 DEF ThreadOK, Popping, Typed
      <4>2. CASE at[u] = v
        <5>1. turn'[u] >= 0 => turn'[u] = turn[u] - 1
          BY <3>1, <3>2, <4>2
        <5>2. turn'[u] < 0 => turn'[u] < Len(q'[v])
          BY <1>5, <1>6, <3>3, Constants
        <5>3. at'[u] = at[u] /\ turn[u] < Len(q[v])
          BY <3>1, <4>1, <4>2
        <5>4. /\ Len(q[v]) \in Nat /\ Len(q'[v]) = Len(q[v]) - 1
              /\ turn'[u] \in Int /\ turn[u] \in Int
          BY <1>5, <1>6, <3>1, <3>3, Constants
        <5>5. CASE turn'[u] < 0
          BY <4>2, <5>2, <5>5
        <5>6. CASE turn'[u] >= 0
          <6>1. turn'[u] < Len(q'[v])
            BY <5>1, <5>3, <5>4, <5>6
          <6> QED
            BY <4>2, <6>1
        <5> QED
          BY <5>4, <5>5, <5>6
      <4>3. CASE at[u] # v
        BY <1>6, <3>2, <4>1, <4>3
      <4> QED
        BY <4>2, <4>3
    <3>5. CASE RankOf(u) = r
      <4>1. phase[r] = "steal" => ~Popping(u) /\ pc[u] # "run" /\ ~(u = Master(r))
        BY <1>4, <2>2, <3>1, <3>5 DEF ThreadOK
      <4>2. hand[u] # NoTask <=> pc[u] = "run"
        BY <1>1, <3>1, <3>5 DEF ThreadOK, Moving
      <4>3. ~Moving(u)'
        BY <1>1, <1>3, <1>9, <3>5, <4>1 DEF Moving
      <4>4. /\ at'[u] # NoRank <=> Popping(u)'
            /\ Popping(u)' => phase'[r] = "pool" /\ at'[u] = r /\ left'[u] > 0
            /\ pc'[u] = "run" => phase'[r] = "pool" /\ left'[u] > 0
        BY <1>1, <1>3, <1>9, <3>1, <3>5, <4>1 DEF ThreadOK, Popping
      <4> QED
        BY <3>1, <3>3, <3>4, <3>5, <4>2, <4>3, <4>4 DEF ThreadOK
    <3>6. CASE RankOf(u) # r
      <4>1. phase'[RankOf(u)] = phase[RankOf(u)] /\ left'[u] = left[u]
        BY <1>1, <1>3, <3>6, Constants
      <4> QED
        BY <3>1, <3>3, <3>4, <4>1 DEF ThreadOK, Popping, Moving
    <3> QED
      BY <3>5, <3>6
  <2> QED
    BY <2>1, <2>2
<1>15. \A s \in Rank : RankOK(s)'
  <2> SUFFICES ASSUME NEW s \in Rank
               PROVE  RankOK(s)'
    OBVIOUS
  <2>1. RankOK(s) /\ j' = j /\ victim' = victim
    BY <1>1, <1>2
  <2>2. phase'[s] = phase[s] \/ (phase[s] = "steal" /\ phase'[s] = "push")
    BY <1>1, <1>3, <1>9
  <2> QED
    BY <1>7, <2>1, <2>2 DEF RankOK
<1>16. Cover'
  <2>1. \A s \in Rank : phase'[s] = phase[s] \/ phase[s] = "steal"
    BY <1>1, <1>3, <1>9
  <2> QED
    BY <1>1, <1>2, <1>5, <1>6, <1>9, <1>13, <2>1, TakeCover
<1> QED
  BY <1>6, <1>12, <1>14, <1>15, <1>16 DEF Inv

-----------------------------------------------------------------------------
(* A task is run.                                                          *)
LEMMA RunStep ==
  ASSUME Inv, NEW w \in Thread, Run(w)
  PROVE  Inv'
<1> PICK r \in Rank : r = RankOf(w)
  BY Constants
<1> DEFINE x == hand[w]
<1>1. /\ pc[w] = "run" /\ ran' = [ran EXCEPT ![x] = @ + 1]
      /\ hand' = [hand EXCEPT ![w] = NoTask] /\ left' = [left EXCEPT ![w] = @ - 1]
      /\ pc' = [pc EXCEPT ![w] = "idle"]
      /\ UNCHANGED <<q, out, phase, at, turn, todo, victim, j, moved>>
  BY DEF Run, Do
<1>2. Typed /\ (\A s \in Rank : RankOK(s)) /\ ThreadOK(w) /\ Placed
  BY DEF Inv
<1>3. phase[r] = "pool" /\ left[w] > 0 /\ x \in Task /\ at[w] = NoRank
  BY <1>1, <1>2 DEF ThreadOK, Typed, Popping
<1>4. ran[x] = 0 /\ ~InQueue(x)
  BY <1>3, <1>2 DEF Placed, InHand
<1>5. Typed'
  <2>1. left[w] - 1 \in 0 .. SizeRange
    BY <1>2, <1>3, Constants DEF Typed
  <2>2. left' \in [Thread -> 0 .. SizeRange]
    BY <1>1, <1>2, <2>1 DEF Typed
  <2>3. ran' \in [Task -> Nat]
    <3>1. ran \in [Task -> Nat] /\ ran[x] + 1 \in Nat
      BY <1>2, <1>3 DEF Typed
    <3>2. ran' = [ran EXCEPT ![x] = ran[x] + 1]
      BY <1>1
    <3> QED
      BY <3>1, <3>2
  <2>4. /\ hand' \in [Thread -> Task \cup {NoTask}]
        /\ pc' \in [Thread -> {"idle", "test", "take", "undo", "run"}]
    BY <1>1, <1>2 DEF Typed
  <2> QED
    BY <1>1, <1>2, <2>2, <2>3, <2>4 DEF Typed
<1>6. /\ hand'[w] = NoTask /\ pc'[w] = "idle"
      /\ \A u \in Thread : u # w => hand'[u] = hand[u] /\ pc'[u] = pc[u] /\ left'[u] = left[u]
      /\ ran'[x] = 1 /\ \A t \in Task : t # x => ran'[t] = ran[t]
  BY <1>1, <1>2, <1>3, <1>4 DEF Typed
<1>7. \A u \in Thread : ThreadOK(u)'
  <2> SUFFICES ASSUME NEW u \in Thread
               PROVE  ThreadOK(u)'
    OBVIOUS
  <2>1. ThreadOK(u)
    BY DEF Inv
  <2>2. CASE u = w
    BY <1>1, <1>3, <1>6, <2>1, <2>2 DEF ThreadOK, Popping, Moving
  <2>3. CASE u # w
    BY <1>1, <1>6, <2>1, <2>3 DEF ThreadOK, Popping, Moving
  <2> QED
    BY <2>2, <2>3
<1>8. \A s \in Rank : RankOK(s)'
  BY <1>1, <1>2 DEF RankOK
<1>9. Placed'
  <2>1. \A t \in Task : InQueue(t)' <=> InQueue(t)
    BY <1>1 DEF InQueue
  <2>2. \A t \in Task : InHand(t)' <=> InHand(t) /\ t # x
    <3> HIDE DEF x
    <3> TAKE t \in Task
    <3>1. t # NoTask
      BY Constants
    <3>2. InHand(t)' => InHand(t)
      BY <1>6, <3>1 DEF InHand
    <3>3. InHand(t)' => t # x
      BY <1>2, <1>6, <3>1 DEF InHand, Placed, x
    <3>4. InHand(t) /\ t # x => InHand(t)'
      BY <1>6 DEF InHand, x
    <3> QED
      BY <3>2, <3>3, <3>4
  <2>3. \A u, y \in Thread : hand'[u] = hand'[y] /\ hand'[u] # NoTask => u = y
    BY <1>2, <1>6 DEF Placed
  <2>4. \A s, y \in Rank : \A i \in 1 .. Len(q'[s]), k \in 1 .. Len(q'[y]) :
          q'[s][i] = q'[y][k] => s = y /\ i = k
    BY <1>1, <1>2 DEF Placed
  <2> HIDE DEF x
  <2>5. \A t \in Task : /\ ~(InQueue(t)' /\ InHand(t)')
                        /\ InQueue(t)' \/ InHand(t)' => ran'[t] = 0
                        /\ InQueue(t)' \/ InHand(t)' \/ ran'[t] = 1
    <3> TAKE t \in Task
    <3>1. CASE t = x
      BY <1>4, <1>6, <2>1, <2>2, <3>1
    <3>2. CASE t # x
      BY <1>2, <1>6, <2>1, <2>2, <3>2 DEF Placed
    <3> QED
      BY <3>1, <3>2
  <2> QED
    BY <2>3, <2>4, <2>5 DEF Placed
<1>10. Cover'
  <2> SUFFICES ASSUME NEW s \in Rank, NEW i \in 1 .. Len(q'[s]), q'[s][i] \notin moved',
                      i <= out'[s] \/ phase'[s] \notin {"loop", "pool", "check"}
               PROVE  Covered(s, i)'
    BY DEF Cover
  <2>1. Covered(s, i)
    BY <1>1 DEF Inv, Cover
  <2>2. PICK u \in Thread : at[u] = s /\ turn[u] = i - 1 /\ pc[u] \in {"test", "take"}
    BY <2>1 DEF Covered
  <2>3. u # w
    BY <1>1, <2>2
  <2> QED
    BY <1>1, <1>6, <2>2, <2>3 DEF Covered
<1> QED
  BY <1>5, <1>7, <1>8, <1>9, <1>10 DEF Inv

(* What a thief popped becomes the last element of its own queue.          *)
LEMMA PushStep ==
  ASSUME Inv, NEW r \in Rank, Push(r)
  PROVE  Inv'
<1> PICK m \in Thread : m = Master(r)
  BY Constants
<1> DEFINE x == hand[m]
<1>1. /\ phase[r] = "pushing" /\ q' = [q EXCEPT ![r] = Append(@, x)]
      /\ hand' = [hand EXCEPT ![m] = NoTask] /\ moved' = moved \cup {x}
      /\ j' = [j EXCEPT ![r] = @ + 1] /\ phase' = [phase EXCEPT ![r] = "ask"]
      /\ UNCHANGED <<out, left, pc, at, turn, todo, victim, ran>>
  BY DEF Push, GoTo
<1>2. Typed /\ (\A s \in Rank : RankOK(s)) /\ ThreadOK(m) /\ Placed
      /\ RankOf(m) = r /\ \A u \in Thread : ThreadOK(u)
  BY Constants DEF Inv
<1>3. x \in Task /\ x # NoTask
  BY <1>1, <1>2, Constants DEF ThreadOK, Moving, Typed
<1>4. ran[x] = 0 /\ ~InQueue(x)
  BY <1>2, <1>3 DEF Placed, InHand
<1>5. Len(q[r]) \in Nat /\ q[r] \in Seq(Task)
  BY <1>2, QueueFacts
<1>6. q'[r] = Append(q[r], x) /\ \A s \in Rank : s # r => q'[s] = q[s]
  BY <1>1, <1>2 DEF Typed
<1> HIDE DEF x
<1>7. /\ q'[r] \in Seq(Task) /\ Len(q'[r]) = Len(q[r]) + 1
      /\ (\A i \in 1 .. Len(q[r]) : q'[r][i] = q[r][i]) /\ q'[r][Len(q[r]) + 1] = x
  BY <1>3, <1>5, <1>6, AppendProperties
<1>8. q' \in [Rank -> Seq(Task)]
  BY <1>1, <1>2, <1>6, <1>7 DEF Typed
<1>9. Typed'
  <2>1. /\ hand' \in [Thread -> Task \cup {NoTask}] /\ j' \in [Rank -> Nat]
        /\ moved' \subseteq Task
    BY <1>1, <1>2, <1>3 DEF Typed
  <2>2. phase' \in [Rank -> {"loop", "pool", "check", "visit", "ask", "steal", "push",
                             "pushing", "look", "left"}]
    BY <1>1, <1>2 DEF Typed
  <2> QED
    BY <1>1, <1>2, <1>8, <2>1, <2>2 DEF Typed
<1>10. /\ hand'[m] = NoTask /\ \A u \in Thread : u # m => hand'[u] = hand[u]
       /\ phase'[r] = "ask" /\ j'[r] = j[r] + 1
       /\ \A s \in Rank : s # r => phase'[s] = phase[s] /\ j'[s] = j[s]
  BY <1>1, <1>2 DEF Typed
<1>11. \A u \in Thread : ThreadOK(u)'
  <2> SUFFICES ASSUME NEW u \in Thread
               PROVE  ThreadOK(u)'
    OBVIOUS
  <2>1. pc[u] = "take" => turn[u] < Len(q'[at[u]])
    <3> SUFFICES ASSUME pc[u] = "take"
                 PROVE  turn[u] < Len(q'[at[u]])
      OBVIOUS
    <3>1. at[u] \in Rank /\ turn[u] < Len(q[at[u]]) /\ turn[u] \in Int
      BY <1>2 DEF ThreadOK, Popping, Typed
    <3>2. CASE at[u] = r
      BY <1>5, <1>7, <3>1, <3>2
    <3>3. CASE at[u] # r
      BY <1>6, <3>1, <3>3
    <3> QED
      BY <3>2, <3>3
  <2>2. CASE RankOf(u) = r
    <3>1. ~Popping(u) /\ pc[u] # "run" /\ hand'[u] = NoTask
      BY <1>1, <1>2, <1>10, <2>2 DEF ThreadOK, Moving
    <3> QED
      BY <1>1, <1>2, <1>10, <2>2, <3>1 DEF ThreadOK, Popping, Moving
  <2>3. CASE RankOf(u) # r
    <3>1. phase'[RankOf(u)] = phase[RankOf(u)] /\ u # m
      BY <1>2, <1>10, <2>3, Constants
    <3> QED
      BY <1>1, <1>2, <1>10, <2>1, <3>1 DEF ThreadOK, Popping, Moving
  <2> QED
    BY <2>2, <2>3
<1>12. \A s \in Rank : RankOK(s)'
  <2> SUFFICES ASSUME NEW s \in Rank
               PROVE  RankOK(s)'
    OBVIOUS
  <2>1. out'[s] = Cardinality({u \in Thread : at'[u] = s}) /\ victim' = victim
    BY <1>1, <1>2 DEF RankOK
  <2>2. CASE s = r
    <3>1. j[r] * StealDen <= SizeRange * StealNum /\ victim[r] \in Rank
      BY <1>1, <1>2 DEF RankOK
    <3> DEFINE a == j[r] * StealDen
               b == SizeRange * StealNum
    <3>0. /\ j[r] \in Nat /\ StealDen \in Nat
           /\ SizeRange \in Nat /\ StealNum \in Nat
      BY <1>2, Constants DEF Typed
    <3>2. j[r] \in Nat /\ StealDen \in Nat /\ a \in Nat /\ b \in Nat
      BY <3>0
    <3>3. (j[r] + 1) * StealDen = a + StealDen
      BY <3>2
    <3>4. a <= b
      BY <3>1
    <3> HIDE DEF a, b
    <3>5. (j[r] + 1) * StealDen <= b + StealDen
      BY <3>2, <3>3, <3>4
    <3>6. j'[r] * StealDen <= SizeRange * StealNum + StealDen
      BY <1>10, <3>5 DEF b
    <3> QED
      BY <1>10, <2>1, <2>2, <3>1, <3>6 DEF RankOK
  <2>3. CASE s # r
    BY <1>2, <1>10, <2>1, <2>3 DEF RankOK
  <2> QED
    BY <2>2, <2>3
<1>13. Placed'
  <2>1. \A s \in Rank : \A i \in 1 .. Len(q'[s]) :
          \/ i \in 1 .. Len(q[s]) /\ q'[s][i] = q[s][i]
          \/ s = r /\ i = Len(q[r]) + 1 /\ q'[s][i] = x
    <3> TAKE s \in Rank
    <3> TAKE i \in 1 .. Len(q'[s])
    <3>1. CASE s # r
      BY <1>6, <3>1
    <3>2. CASE s = r
      <4>1. i \in 1 .. Len(q[r]) + 1
        BY <1>7, <3>2
      <4>2. i \in 1 .. Len(q[r]) \/ i = Len(q[r]) + 1
        BY <1>5, <4>1
      <4> QED
        BY <1>7, <3>2, <4>2
    <3> QED
      BY <3>1, <3>2
  <2>2. \A s \in Rank : \A i \in 1 .. Len(q[s]) : q[s][i] # x
    BY <1>4 DEF InQueue
  <2>3. \A s, y \in Rank : \A i \in 1 .. Len(q'[s]), k \in 1 .. Len(q'[y]) :
          q'[s][i] = q'[y][k] => s = y /\ i = k
    <3> TAKE s, y \in Rank
    <3> TAKE i \in 1 .. Len(q'[s]), k \in 1 .. Len(q'[y])
    <3> SUFFICES ASSUME q'[s][i] = q'[y][k]
                 PROVE  s = y /\ i = k
      OBVIOUS
    <3>1. /\ \/ i \in 1 .. Len(q[s]) /\ q'[s][i] = q[s][i]
             \/ s = r /\ i = Len(q[r]) + 1 /\ q'[s][i] = x
          /\ \/ k \in 1 .. Len(q[y]) /\ q'[y][k] = q[y][k]
             \/ y = r /\ k = Len(q[r]) + 1 /\ q'[y][k] = x
      BY <2>1
    <3>2. CASE i \in 1 .. Len(q[s]) /\ k \in 1 .. Len(q[y]) /\ q[s][i] = q[y][k]
      BY <1>2, <3>2 DEF Placed
    <3> QED
      BY <2>2, <3>1, <3>2
  <2>4. \A t \in Task : InQueue(t)' => InQueue(t) \/ t = x
    BY <2>1 DEF InQueue
  <2>5. \A t \in Task : InQueue(t) \/ t = x => InQueue(t)'
    <3> TAKE t \in Task
    <3>1. ASSUME InQueue(t)
          PROVE  InQueue(t)'
      <4>1. PICK s \in Rank : \E i \in 1 .. Len(q[s]) : q[s][i] = t
        BY <3>1 DEF InQueue
      <4>2. PICK i \in 1 .. Len(q[s]) : q[s][i] = t
        BY <4>1
      <4>3. i \in 1 .. Len(q'[s]) /\ q'[s][i] = t
        BY <1>5, <1>6, <1>7, <4>2
      <4> QED
        BY <4>3 DEF InQueue
    <3>2. ASSUME t = x
          PROVE  InQueue(t)'
      <4>1. Len(q[r]) + 1 \in 1 .. Len(q'[r])
        BY <1>5, <1>7
      <4> QED
        BY <1>7, <3>2, <4>1 DEF InQueue
    <3> QED
      BY <3>1, <3>2
  <2>6. \A t \in Task : InHand(t)' <=> InHand(t) /\ t # x
    <3> TAKE t \in Task
    <3>1. t # NoTask
      BY Constants
    <3>2. InHand(t)' => InHand(t)
      BY <1>10, <3>1 DEF InHand
    <3>3. InHand(t)' => t # x
      BY <1>2, <1>10, <3>1 DEF InHand, Placed, x
    <3>4. InHand(t) /\ t # x => InHand(t)'
      BY <1>10 DEF InHand, x
    <3> QED
      BY <3>2, <3>3, <3>4
  <2>7. \A u, y \in Thread : hand'[u] = hand'[y] /\ hand'[u] # NoTask => u = y
    BY <1>2, <1>10 DEF Placed
  <2>8. \A t \in Task : /\ ~(InQueue(t)' /\ InHand(t)')
                        /\ InQueue(t)' \/ InHand(t)' => ran'[t] = 0
                        /\ InQueue(t)' \/ InHand(t)' \/ ran'[t] = 1
    <3> TAKE t \in Task
    <3>1. ran'[t] = ran[t]
      BY <1>1
    <3>2. CASE t = x
      BY <1>4, <2>5, <2>6, <3>1, <3>2
    <3>3. CASE t # x
      BY <1>2, <2>4, <2>5, <2>6, <3>1, <3>3 DEF Placed
    <3> QED
      BY <3>2, <3>3
  <2> QED
    BY <2>3, <2>7, <2>8 DEF Placed
<1>14. Cover'
  <2> SUFFICES ASSUME NEW s \in Rank, NEW i \in 1 .. Len(q'[s]), q'[s][i] \notin moved',
                      i <= out'[s] \/ phase'[s] \notin {"loop", "pool", "check"}
               PROVE  Covered(s, i)'
    BY DEF Cover
  <2>1. i \in 1 .. Len(q[s]) /\ q'[s][i] = q[s][i] /\ q[s][i] \notin moved
    BY <1>1, <1>5, <1>6, <1>7
  <2>2. i <= out[s] \/ phase[s] \notin {"loop", "pool", "check"}
    BY <1>1, <1>10
  <2>3. Covered(s, i)
    BY <2>1, <2>2 DEF Inv, Cover
  <2> QED
    BY <1>1, <2>3 DEF Covered
<1> QED
  BY <1>9, <1>11, <1>12, <1>13, <1>14 DEF Inv

-----------------------------------------------------------------------------
(* The invariant holds at first.                                           *)
LEMMA InitInv ==
  ASSUME Init
  PROVE  Inv
<1>1. /\ q = Given /\ \A r \in Rank : out[r] = 0 /\ phase[r] = "loop" /\ j[r] = 0
      /\ \A w \in Thread : /\ pc[w] = "idle" /\ at[w] = NoRank /\ turn[w] = 0
                           /\ hand[w] = NoTask
      /\ (\A t \in Task : ran[t] = 0) /\ moved = {}
  BY DEF Init
<1>2. Typed
  <2>1. 0 \in 0 .. SizeRange
    BY Constants
  <2>2. Given \in [Rank -> Seq(Task)]
    BY StealingAssumption
  <2> QED
    BY <2>1, <2>2 DEF Init, Typed
<1>3. \A w \in Thread : ThreadOK(w)
  <2>1. 0 \in -1 .. Cardinality(Thread)
    BY Constants
  <2> QED
    BY <1>1, <2>1, Constants DEF ThreadOK, Popping, Moving
<1>4. \A r \in Rank : RankOK(r)
  <2> TAKE r \in Rank
  <2>1. {w \in Thread : at[w] = r} = {}
    BY <1>1, Constants
  <2>2. Cardinality({w \in Thread : at[w] = r}) = 0
    BY <2>1, FS_EmptySet
  <2>3. 0 * StealDen <= SizeRange * StealNum + StealDen
    BY Constants
  <2> QED
    BY <1>1, <2>2, <2>3 DEF RankOK
<1>5. Placed
  <2>1. \A r \in Rank : DOMAIN Given[r] = 1 .. Len(Given[r])
    BY StealingAssumption, LenProperties
  <2>2. \A r, s \in Rank : \A i \in 1 .. Len(q[r]), k \in 1 .. Len(q[s]) :
          q[r][i] = q[s][k] => r = s /\ i = k
    <3> SUFFICES ASSUME NEW r \in Rank, NEW s \in Rank, NEW i \in 1 .. Len(q[r]),
                        NEW k \in 1 .. Len(q[s]), q[r][i] = q[s][k]
                 PROVE  r = s /\ i = k
      OBVIOUS
    <3>1. i \in DOMAIN Given[r] /\ k \in DOMAIN Given[s] /\ Given[r][i] = Given[s][k]
      BY <1>1, <2>1
    <3> QED
      BY <3>1, StealingAssumption
  <2>3. \A t \in Task : InQueue(t) /\ ~InHand(t)
    BY <1>1, <2>1, StealingAssumption, Constants DEF InQueue, InHand
  <2> QED
    BY <1>1, <2>2, <2>3 DEF Placed
<1>6. Cover
  <2>1. \A r \in Rank : \A i \in 1 .. Len(q[r]) : ~(i <= out[r])
    BY <1>1
  <2> QED
    BY <1>1, <2>1 DEF Cover
<1> QED
  BY <1>2, <1>3, <1>4, <1>5, <1>6 DEF Inv

(* Every step keeps it.                                                    *)
LEMMA NextInv ==
  ASSUME Inv, [Next]_vars
  PROVE  Inv'
<1>1. CASE UNCHANGED vars
  <2>1. Typed'
    BY <1>1 DEF vars, Inv, Typed
  <2>2. (\A w \in Thread : ThreadOK(w)') /\ (\A r \in Rank : RankOK(r)')
    BY <1>1 DEF vars, Inv, ThreadOK, Popping, Moving, RankOK
  <2>3. Placed' /\ Cover'
    BY <1>1 DEF vars, Inv, Placed, InQueue, InHand, Cover, Covered
  <2> QED
    BY <2>1, <2>2, <2>3 DEF Inv
<1>2. ASSUME NEW w \in Thread, ThreadStep(w)
      PROVE  Inv'
  BY <1>2, PopOwnStep, TestStep, TakeStep, FailStep, RunStep DEF ThreadStep
<1>3. ASSUME NEW r \in Rank, RankStep(r)
      PROVE  Inv'
  BY <1>3, OpenLoopStep, CloseLoopStep, CheckStep, VisitStep, StealNothingStep, AskStep,
     PopOtherStep, StartPushStep, PushStep, LookStep DEF RankStep
<1> QED
  BY <1>1, <1>2, <1>3 DEF Next

(* The inductive invariant: where the threads of a rank can be, how the    *)
(* tickets that are out are counted and what they cover, and that a task   *)
(* is in one place.                                                        *)
THEOREM StealingInvariant == Spec => []Inv
<1>1. Init => Inv
  BY InitInv
<1>2. Inv /\ [Next]_vars => Inv'
  BY NextInv
<1> QED
  BY <1>1, <1>2, PTL DEF Spec

(* The variables keep their types: no more tickets are out than there are  *)
(* threads, a ticket is passed by one turn at most, and a thief tries no   *)
(* more pops than its victim's size allows.                                *)
THEOREM StealingTypes == Spec => []TypeOK
<1>1. Inv => TypeOK
  <2> SUFFICES ASSUME Inv
               PROVE  TypeOK
    OBVIOUS
  <2>1. out \in [Rank -> 0 .. Cardinality(Thread)]
    <3>1. ASSUME NEW r \in Rank
          PROVE  out[r] \in 0 .. Cardinality(Thread)
      <4>1. out[r] \in Nat /\ out[r] <= Cardinality(Thread)
        BY OutBound DEF Inv
      <4> QED
        BY <4>1, Constants
    <3> QED
      BY <3>1 DEF Inv, Typed
  <2>2. turn \in [Thread -> -1 .. Cardinality(Thread)]
    BY DEF Inv, Typed, ThreadOK
  <2>3. \A r \in Rank : j[r] * StealDen <= SizeRange * StealNum + StealDen
    BY DEF Inv, RankOK
  <2> QED
    BY <2>1, <2>2, <2>3 DEF Inv, Typed, TypeOK
<1> QED
  BY <1>1, StealingInvariant, PTL

(* Every task is once in one queue, in one hand, or was run once, whoever  *)
(* pops and steals at the same time: no pop reads an element that another  *)
(* one takes, and no task is lost or run twice.                            *)
THEOREM EveryTaskOnce == Spec => []TaskOnce
<1>1. Inv => TaskOnce
  <2> SUFFICES ASSUME Inv, NEW t \in Task
               PROVE  Cardinality(Queued(t)) + Cardinality({w \in Thread : hand[w] = t})
                        + ran[t] = 1
    BY DEF TaskOnce
  <2> DEFINE H == {w \in Thread : hand[w] = t}
  <2>1. Typed /\ Placed /\ t # NoTask
    BY Constants DEF Inv
  <2>2. ASSUME InQueue(t)
        PROVE  Cardinality(Queued(t)) = 1
    <3>1. PICK r \in Rank : \E i \in 1 .. Len(q[r]) : q[r][i] = t
      BY <2>2 DEF InQueue
    <3>2. PICK i \in 1 .. Len(q[r]) : q[r][i] = t
      BY <3>1
    <3>3. /\ \A s \in Rank : Len(q[s]) \in Nat /\ Len(q[s]) <= Cardinality(Task)
          /\ Cardinality(Task) \in Nat
      BY <2>1, QueueFacts, QueueIsShort, StealingAssumption, FS_CardinalityType
    <3>4. <<r, i>> \in Queued(t)
      BY <3>2, <3>3 DEF Queued
    <3>5. \A p \in Queued(t) : p = <<r, i>>
      <4> SUFFICES ASSUME NEW p \in Queued(t)
                   PROVE  p = <<r, i>>
        OBVIOUS
      <4>1. PICK s \in Rank, k \in 1 .. Cardinality(Task) : p = <<s, k>>
        BY DEF Queued
      <4>2. k \in 1 .. Len(q[s]) /\ q[s][k] = t
        BY <3>3, <4>1 DEF Queued
      <4> QED
        BY <2>1, <3>2, <4>1, <4>2 DEF Placed
    <3>6. Queued(t) = {<<r, i>>}
      BY <3>4, <3>5
    <3> QED
      BY <3>6, FS_Singleton
  <2>3. ASSUME ~InQueue(t)
        PROVE  Cardinality(Queued(t)) = 0
    <3>1. Queued(t) = {}
      <4> SUFFICES ASSUME NEW p \in Queued(t)
                   PROVE  FALSE
        OBVIOUS
      <4>1. PICK s \in Rank, k \in 1 .. Cardinality(Task) : p = <<s, k>>
        BY DEF Queued
      <4>2. Len(q[s]) \in Nat
        BY <2>1, QueueFacts
      <4>3. k \in 1 .. Len(q[s]) /\ q[s][k] = t
        BY <4>1, <4>2 DEF Queued
      <4> QED
        BY <2>3, <4>3 DEF InQueue
    <3> QED
      BY <3>1, FS_EmptySet
  <2>4. ASSUME InHand(t)
        PROVE  Cardinality(H) = 1
    <3>1. PICK w \in Thread : hand[w] = t
      BY <2>4 DEF InHand
    <3>2. H = {w}
      BY <2>1, <3>1 DEF Placed
    <3> QED
      BY <3>2, FS_Singleton
  <2>5. ASSUME ~InHand(t)
        PROVE  Cardinality(H) = 0
    <3>1. H = {}
      BY <2>5 DEF InHand
    <3> QED
      BY <3>1, FS_EmptySet
  <2>6. /\ ~(InQueue(t) /\ InHand(t)) /\ (InQueue(t) \/ InHand(t) => ran[t] = 0)
        /\ (InQueue(t) \/ InHand(t) \/ ran[t] = 1)
    BY <2>1 DEF Placed
  <2> QED
    BY <2>2, <2>3, <2>4, <2>5, <2>6
<1> QED
  BY <1>1, StealingInvariant, PTL

(* When all ranks have left the main loop, every task that no thief moved  *)
(* was run once: a rank that has found its queue empty has a pop under way *)
(* for each of its own tasks that is still there, and closes the parallel  *)
(* loop only when they have ended.                                         *)
THEOREM UnmovedTasksRun == Spec => []NeverMovedIsRun
<1>1. Inv => NeverMovedIsRun
  <2> SUFFICES ASSUME Inv, AllLeft, NEW t \in Task \ moved
               PROVE  ran[t] = 1
    BY DEF NeverMovedIsRun
  <2>1. \A w \in Thread : phase[RankOf(w)] = "left" /\ ThreadOK(w)
    BY Constants DEF AllLeft, Inv
  <2>2. ~InHand(t)
    BY <2>1, Constants DEF InHand, ThreadOK, Moving
  <2>3. ~InQueue(t)
    <3> SUFFICES ASSUME NEW r \in Rank, NEW i \in 1 .. Len(q[r]), q[r][i] = t
                 PROVE  FALSE
      BY DEF InQueue
    <3>1. Covered(r, i)
      BY DEF Inv, Cover, AllLeft
    <3>2. PICK w \in Thread : pc[w] \in {"test", "take"}
      BY <3>1 DEF Covered
    <3> QED
      BY <2>1, <3>2 DEF ThreadOK, Popping
  <2> QED
    BY <2>2, <2>3 DEF Inv, Placed
<1> QED
  BY <1>1, StealingInvariant, PTL
=============================================================================
