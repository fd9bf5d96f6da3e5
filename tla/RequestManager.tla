--------------------------- MODULE RequestManager ---------------------------
(***************************************************************************)
(* Chameleon's request manager (request_manager.cpp). A group of           *)
(* non-blocking MPI requests is posted with a handler. Requests that are   *)
(* not complete at once go to a queue; threads that make progress take     *)
(* some of them, test them together, and the one that completes the last   *)
(* of a group runs its handler, which may post another group.              *)
(***************************************************************************)
EXTENDS Integers, FiniteSets, Sequences, SequencesExt

CONSTANTS Thread, Comm,   \* threads, and the communication thread
          Group, Request,
          Members,        \* the requests of a group, in order
          Poster,         \* the thread that posts a group
          Follow,         \* the group its handler posts, or NoGroup
          NoGroup,
          Modes           \* values of COMMUNICATION_MODE: 0, 2 (or 1), 3 (or 4)

ASSUME ManagerAssumption ==
  /\ IsFiniteSet(Thread) /\ IsFiniteSet(Request)
  /\ Comm \in Thread /\ NoGroup \notin Group
  /\ Members \in [Group -> Seq(Request) \ {<<>>}]
  /\ Poster \in [Group -> Thread] /\ Follow \in [Group -> Group \cup {NoGroup}]
  /\ Modes \subseteq {0, 2, 3}
  \* submitRequests gives each request, and each group, a number of its own
  /\ \A g, h \in Group : \A i \in DOMAIN Members[g], j \in DOMAIN Members[h] :
       Members[g][i] = Members[h][j] => g = h /\ i = j
  /\ \A g, h \in Group : Follow[g] = Follow[h] /\ Follow[g] # NoGroup => g = h

VARIABLES
  mode,         \* chosen when the library is built
  arrived,      \* requests MPI has completed
  posted,       \* groups given to submitRequests
  queue,        \* _request_queue
  outstanding,  \* _outstanding_reqs_for_group
  batch,        \* current_rids of each thread
  pc,           \* where a thread is
  arg,          \* the group it posts or handles
  cur,          \* the group whose handler it runs inside progressRequests
  left,         \* loop counter: requests still to grab, to push or pushed back
  hits,         \* positions of the batch that MPI_Testsome reported
  ran           \* how often the handler of a group ran

vars == <<mode, arrived, posted, queue, outstanding, batch, pc, arg, cur, left,
          hits, ran>>

GroupOf(r) == CHOOSE g \in Group : r \in Range(Members[g])
IsFirst(g) == \A h \in Group : Follow[h] # g   \* posted by no handler

Init == /\ mode \in Modes
        /\ arrived = {} /\ posted = {}
        /\ queue = <<>>
        /\ outstanding = [g \in Group |-> 0]
        /\ batch = [t \in Thread |-> <<>>]
        /\ pc = [t \in Thread |-> "idle"]
        /\ arg = [t \in Thread |-> NoGroup]
        /\ cur = [t \in Thread |-> NoGroup]
        /\ left = [t \in Thread |-> 0]
        /\ hits = [t \in Thread |-> {}]
        /\ ran = [g \in Group |-> 0]

Goto(t, label) == pc' = [pc EXCEPT ![t] = label]

(* The network, or a peer, completes a request.                            *)
Arrive(r) == /\ r \notin arrived
             /\ \E g \in posted : r \in Range(Members[g])
             /\ arrived' = arrived \cup {r}
             /\ UNCHANGED <<mode, posted, queue, outstanding, batch, pc, arg, cur,
                            left, hits, ran>>
-----------------------------------------------------------------------------
(* submitRequests, called for a group that no handler posts.               *)
Submit(t, g) == /\ pc[t] = "idle" /\ Poster[g] = t /\ IsFirst(g)
                /\ g \notin posted
                /\ posted' = posted \cup {g}
                /\ arg' = [arg EXCEPT ![t] = g]
                /\ Goto(t, "testall")
                /\ UNCHANGED <<mode, arrived, queue, outstanding, batch, cur, left,
                               hits, ran>>

\* MUTANT of TestAll: a group is counted as one request.
TestAllOne(t) ==
  LET g == arg[t] IN
  /\ pc[t] = "testall"
  /\ IF Range(Members[g]) \subseteq arrived
       THEN Goto(t, "handle") /\ UNCHANGED <<outstanding, left>>
       ELSE /\ outstanding' = [outstanding EXCEPT ![g] = 1]
            /\ left' = [left EXCEPT ![t] = 0]
            /\ Goto(t, "push")
  /\ UNCHANGED <<mode, arrived, posted, queue, batch, arg, cur, hits, ran>>

(* MPI_Testall: the handler runs at once, or the group is registered, with *)
(* its count before any of its requests can be found in the queue.         *)
TestAll(t) ==
  LET g == arg[t] IN
  /\ pc[t] = "testall"
  /\ IF Range(Members[g]) \subseteq arrived
       THEN Goto(t, "handle") /\ UNCHANGED <<outstanding, left>>
       ELSE /\ outstanding' = [outstanding EXCEPT ![g] = Len(Members[g])]
            /\ left' = [left EXCEPT ![t] = 0]
            /\ Goto(t, "push")
  /\ UNCHANGED <<mode, arrived, posted, queue, batch, arg, cur, hits, ran>>

(* A handler that has returned, inside progressRequests or not.            *)
Back(t) == IF cur[t] = NoGroup THEN "idle" ELSE "erase"

Push(t) ==
  LET m == Members[arg[t]] IN
  /\ pc[t] = "push"
  /\ queue' = Append(queue, m[left[t] + 1])
  /\ left' = [left EXCEPT ![t] = IF @ + 1 = Len(m) THEN 0 ELSE @ + 1]
  /\ IF left[t] + 1 = Len(m)
       THEN Goto(t, Back(t)) /\ arg' = [arg EXCEPT ![t] = NoGroup]
       ELSE UNCHANGED <<pc, arg>>
  /\ UNCHANGED <<mode, arrived, posted, outstanding, batch, cur, hits, ran>>

(* The handler; it may post a group in turn.                               *)
Handle(t) ==
  LET h == Follow[arg[t]] IN
  /\ pc[t] = "handle"
  /\ ran' = [ran EXCEPT ![arg[t]] = @ + 1]
  /\ arg' = [arg EXCEPT ![t] = h]
  /\ posted' = IF h = NoGroup THEN posted ELSE posted \cup {h}
  /\ Goto(t, IF h = NoGroup THEN Back(t) ELSE "testall")
  /\ UNCHANGED <<mode, arrived, queue, outstanding, batch, cur, left, hits>>
-----------------------------------------------------------------------------
\* MUTANT of ToGrab: an equal share, none when the queue is short.
ToGrabShare(t) == IF mode = 0 THEN Cardinality(Request)
                  ELSE IF mode = 2 THEN Len(queue) \div Cardinality(Thread)
                  ELSE IF t = Comm THEN Len(queue) \div 2 ELSE 1

(* How many requests a call of progressRequests takes from the queue.      *)
AtLeast2(n) == IF n < 2 THEN 2 ELSE n
ToGrab(t) == IF mode = 0 THEN Cardinality(Request)
             ELSE IF mode = 2 THEN AtLeast2(Len(queue) \div Cardinality(Thread) + 1)
             ELSE IF t = Comm THEN AtLeast2(Len(queue) \div 2 + 1) ELSE 1

(* progressRequests. A thread that still holds requests takes no others.   *)
Progress(t) == /\ pc[t] = "idle" /\ (mode = 0 => t = Comm)
               /\ queue # <<>> \/ batch[t] # <<>>
               /\ IF batch[t] = <<>>
                    THEN /\ left' = [left EXCEPT ![t] = ToGrab(t)]
                         /\ Goto(t, "grab")
                    ELSE Goto(t, "testsome") /\ UNCHANGED left
               /\ UNCHANGED <<mode, arrived, posted, queue, outstanding, batch, arg,
                              cur, hits, ran>>

Grab(t) == /\ pc[t] = "grab"
           /\ IF left[t] > 0 /\ queue # <<>>
                THEN /\ batch' = [batch EXCEPT ![t] = Append(@, Head(queue))]
                     /\ queue' = Tail(queue)
                     /\ left' = [left EXCEPT ![t] = @ - 1]
                     /\ UNCHANGED pc
                ELSE /\ Goto(t, IF batch[t] = <<>> THEN "idle" ELSE "testsome")
                     /\ left' = [left EXCEPT ![t] = 0]
                     /\ UNCHANGED <<batch, queue>>
           /\ UNCHANGED <<mode, arrived, posted, outstanding, arg, cur, hits, ran>>

TestSome(t) ==
  /\ pc[t] = "testsome"
  /\ hits' = [hits EXCEPT ![t] = {i \in DOMAIN batch[t] : batch[t][i] \in arrived}]
  /\ Goto(t, "next")
  /\ UNCHANGED <<mode, arrived, posted, queue, outstanding, batch, arg, cur, left,
                 ran>>

\* MUTANT of Complete: the handler runs for each request.
CompleteEach(t) ==
  LET i == CHOOSE k \in hits[t] : \A l \in hits[t] : k >= l
      g == GroupOf(batch[t][i])
  IN /\ pc[t] = "next" /\ hits[t] # {}
     /\ outstanding' = [outstanding EXCEPT ![g] = @ - 1]
     /\ batch' = [batch EXCEPT ![t] = RemoveAt(@, i)]
     /\ hits' = [hits EXCEPT ![t] = @ \ {i}]
     /\ arg' = [arg EXCEPT ![t] = g]
     /\ cur' = [cur EXCEPT ![t] = g]
     /\ Goto(t, "handle")
     /\ UNCHANGED <<mode, arrived, posted, queue, left, ran>>

(* The completed requests from the highest position down, each taken out   *)
(* of the batch; the last of a group (to whichever thread it falls) has    *)
(* its handler run.                                                        *)
Complete(t) ==
  LET i == CHOOSE k \in hits[t] : \A l \in hits[t] : k >= l
      g == GroupOf(batch[t][i])
  IN /\ pc[t] = "next" /\ hits[t] # {}
     /\ outstanding' = [outstanding EXCEPT ![g] = @ - 1]
     /\ batch' = [batch EXCEPT ![t] = RemoveAt(@, i)]
     /\ hits' = [hits EXCEPT ![t] = @ \ {i}]
     /\ IF outstanding[g] - 1 <= 0
          THEN /\ arg' = [arg EXCEPT ![t] = g]
               /\ cur' = [cur EXCEPT ![t] = g]
               /\ Goto(t, "handle")
          ELSE UNCHANGED <<arg, cur, pc>>
     /\ UNCHANGED <<mode, arrived, posted, queue, left, ran>>

Erase(t) == /\ pc[t] = "erase"
            /\ outstanding' = [outstanding EXCEPT ![cur[t]] = 0]
            /\ cur' = [cur EXCEPT ![t] = NoGroup]
            /\ Goto(t, "next")
            /\ UNCHANGED <<mode, arrived, posted, queue, batch, arg, left, hits, ran>>

\* MUTANT of Finish: what is pushed back stays in the batch.
FinishKeeps(t) ==
  /\ pc[t] = "next" /\ hits[t] = {}
  /\ IF mode = 3 /\ t # Comm /\ left[t] < Len(batch[t])
       THEN /\ queue' = Append(queue, batch[t][left[t] + 1])
            /\ left' = [left EXCEPT ![t] = @ + 1]
            /\ UNCHANGED <<pc, batch>>
       ELSE /\ left' = [left EXCEPT ![t] = 0]
            /\ Goto(t, "idle")
            /\ UNCHANGED <<batch, queue>>
  /\ UNCHANGED <<mode, arrived, posted, outstanding, arg, cur, hits, ran>>

(* No more hits: the communication thread keeps the rest of its batch; in  *)
(* the hybrid modes the others push theirs back, then forget it.           *)
Finish(t) ==
  /\ pc[t] = "next" /\ hits[t] = {}
  /\ IF mode = 3 /\ t # Comm /\ left[t] < Len(batch[t])
       THEN /\ queue' = Append(queue, batch[t][left[t] + 1])
            /\ left' = [left EXCEPT ![t] = @ + 1]
            /\ UNCHANGED <<pc, batch>>
       ELSE /\ batch' = IF mode = 3 /\ t # Comm THEN [batch EXCEPT ![t] = <<>>] ELSE batch
            /\ left' = [left EXCEPT ![t] = 0]
            /\ Goto(t, "idle")
            /\ UNCHANGED queue
  /\ UNCHANGED <<mode, arrived, posted, outstanding, arg, cur, hits, ran>>

InCall(t) == \/ TestAll(t) \/ Push(t) \/ Handle(t) \/ Grab(t) \/ TestSome(t)
             \/ Complete(t) \/ Erase(t) \/ Finish(t)
Next == \/ \E r \in Request : Arrive(r)
        \/ \E t \in Thread : \/ \E g \in Group : Submit(t, g)
                             \/ Progress(t) \/ InCall(t)
Spec == Init /\ [][Next]_vars
(* MPI completes what was posted, a call returns, and the communication    *)
(* thread calls progressRequests again and again; in mode 2, where it does *)
(* not exist, the threads in the taskwait do.                              *)
FairSpec == /\ Spec
            /\ \A r \in Request : WF_vars(Arrive(r))
            /\ \A t \in Thread : /\ WF_vars(InCall(t))
                                 /\ t = Comm \/ mode = 2 => WF_vars(Progress(t))
-----------------------------------------------------------------------------
TypeOK ==
  /\ mode \in Modes /\ arrived \subseteq Request /\ posted \subseteq Group
  /\ queue \in Seq(Request) /\ batch \in [Thread -> Seq(Request)]
  /\ outstanding \in [Group -> Nat]
  /\ pc \in [Thread -> {"idle", "testall", "push", "handle", "grab", "testsome",
                        "next", "erase"}]
  /\ arg \in [Thread -> Group \cup {NoGroup}] /\ cur \in [Thread -> Group \cup {NoGroup}]
  /\ left \in [Thread -> 0 .. Cardinality(Request) + 1]
  /\ hits \in [Thread -> SUBSET (1 .. Cardinality(Request))]
  /\ ran \in [Group -> Nat]

(* The positions of the batch a thread still answers for: when it pushes   *)
(* requests back, another may have taken the first ones already.           *)
Held(t) == IF pc[t] = "next" /\ hits[t] = {}
             THEN left[t] + 1 .. Len(batch[t]) ELSE 1 .. Len(batch[t])
Unpushed(t) == IF pc[t] = "push" THEN left[t] + 1 .. Len(Members[arg[t]]) ELSE {}
Spots(r) ==
  ({"queue"} \X {Comm} \X {i \in DOMAIN queue : queue[i] = r})
  \cup UNION {({"batch"} \X {t} \X {i \in Held(t) : batch[t][i] = r})
              \cup ({"push"} \X {t} \X {i \in Unpushed(t) : Members[arg[t]][i] = r}) :
              t \in Thread}

(* A request is tested by one thread at a time, and none is dropped: the   *)
(* count of its group is the number of its requests that are waiting, in   *)
(* the queue, in a batch or on the way there (lines 132-140, 163-177,      *)
(* 278-284). So the atomic decrement (line 230) reaches 0 exactly once.    *)
RequestsKept ==
  /\ \A r \in Request : \A x, y \in Spots(r) : x = y
  /\ \A g \in Group :
       outstanding[g] = Cardinality({r \in Range(Members[g]) : Spots(r) # {}})

Groups == INSTANCE RequestGroups WITH
            Members <- [g \in Group |-> Range(Members[g])],
            handled <- {g \in Group : ran[g] > 0}
(* Handlers run once, when the whole group has completed.                  *)
KeepsGroups == Groups!GSpec /\ [][\A g \in Group : ran'[g] <= 1]_vars

(* The handler of every group that is posted runs.                         *)
HandlersRun == \A g \in Group : g \in posted ~> ran[g] = 1
=============================================================================
