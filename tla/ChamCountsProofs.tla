-------------------------- MODULE ChamCountsProofs --------------------------
(***************************************************************************)
(* The outstanding counters of ChamTaskwait are exact when every task has  *)
(* an output, and what follows from it for the end of a taskwait: in one   *)
(* taskwait of teams of one thread nobody leaves before all work is done.  *)
(***************************************************************************)
EXTENDS ChamTaskwaitProofs

RunPlaces == {"runLocal", "runStolen"}

(* A task that has not been migrated is at home.                           *)
HostInv == \A t \in Task :
  loc[t] \in {"new", "local", "running", "offer"} => host[t] = Home(t)

(* The task a thread executes is its own: it came from its rank's lists,   *)
(* and no other thread executes it.                                        *)
RunInv ==
  /\ \A w \in Worker : wpc[w] \in RunPlaces =>
       /\ cur[w] \in Task /\ host[cur[w]] = RankOf(w)
       /\ loc[cur[w]] = IF wpc[w] = "runLocal" THEN "running" ELSE "runningStolen"
  /\ \A v, w \in Worker : wpc[v] \in RunPlaces /\ wpc[w] \in RunPlaces
                            /\ cur[v] = cur[w] => v = w

(* A task that is in a message is in one message.                          *)
OfferInv ==
  /\ \A m \in offers : \A t \in m.tasks : loc[t] = "offer"
  /\ \A m, n \in offers : m.tasks \cap n.tasks # {} => m = n

(* A task whose result is on its way back was executed here.               *)
BackInv == \A r \in Rank : \A t \in backReqs[r] :
  host[t] = r /\ loc[t] \in {"backWire", "backRecv", "done"}

CountInv == HostInv /\ RunInv /\ OfferInv /\ BackInv /\ OutstandingCounts

-----------------------------------------------------------------------------
(* What is counted is finite.                                              *)
LEMMA CountedFinite ==
  ASSUME TypeOK, NEW r \in Rank
  PROVE  IsFiniteSet(Held(r)) /\ IsFiniteSet(Unfinished(r))
<1>1. \A m \in offers : m.tasks \subseteq Task
  BY DEF TypeOK, SendTypeOK, Offer
<1>2. Held(r) \subseteq Task
  BY <1>1 DEF Held, HeldFor, StolenTasks, SendBack, TasksAt, TypeOK, CommTypeOK
<1>3. Unfinished(r) \subseteq Task
  BY DEF Unfinished
<1> QED
  BY <1>2, <1>3, FS_Subset, ConstAssumption

(* A step that moves no task, and lets no thread start one, changes none   *)
(* of this.                                                                *)
LEMMA Quiet ==
  ASSUME CountInv, UNCHANGED <<taskVars, cur, offers, backReqs>>,
         \A v \in Worker : wpc'[v] \in RunPlaces => wpc'[v] = wpc[v]
  PROVE  CountInv'
<1> USE DEF taskVars
<1>1. HostInv' /\ OfferInv' /\ BackInv'
  BY DEF CountInv, HostInv, OfferInv, BackInv
<1>2. RunInv'
  BY DEF CountInv, RunInv, RunPlaces
<1>3. OutstandingCounts'
  BY DEF CountInv, OutstandingCounts, Held, HeldFor, StolenTasks, SendBack,
         TasksAt, Unfinished
<1> QED
  BY <1>1, <1>2, <1>3 DEF CountInv

(* The tasks counted on each rank tell the new values of the counters.     *)
LEMMA SameCounts ==
  ASSUME OutstandingCounts, UNCHANGED <<localOut, remoteOut>>,
         \A q \in Rank : Unfinished(q)' = Unfinished(q) /\ Held(q)' = Held(q)
  PROVE  OutstandingCounts'
BY DEF OutstandingCounts

(* Threads.                                                                *)
LEMMA AddTaskCounts ==
  ASSUME TypeOK, CountInv, NEW w \in Worker, NEW t \in Task, AddTask(w, t)
  PROVE  CountInv'
<1> USE DEF appVars, taskVars, commVars, sendVars
<1>1. t \in Task /\ loc[t] = "new" /\ Home(t) = RankOf(w) /\ RankOf(w) \in Rank
  BY Constants DEF AddTask, Home
<1>2. loc' = [loc EXCEPT ![t] = "local"]
  BY DEF AddTask
<1>3. UNCHANGED <<host, cur, wpc, remoteOut, offers, backReqs>>
  BY DEF AddTask
<1>4. loc \in [Task -> Locations] /\ localOut \in [Rank -> Int]
  BY DEF TypeOK, TaskTypeOK
<1>5. HostInv'
  BY <1>1, <1>2, <1>3, <1>4 DEF CountInv, HostInv
<1>6. RunInv'
  BY <1>1, <1>2, <1>3, <1>4 DEF CountInv, RunInv, RunPlaces
<1>7. OfferInv' /\ BackInv'
  BY <1>1, <1>2, <1>3, <1>4 DEF CountInv, OfferInv, BackInv
<1>8. \A q \in Rank : Held(q)' = Held(q)
  BY <1>1, <1>2, <1>3, <1>4
  DEF Held, HeldFor, StolenTasks, SendBack, TasksAt
<1>9. \A q \in Rank : Unfinished(q)' = IF q = RankOf(w) THEN Unfinished(q) \cup {t}
                                        ELSE Unfinished(q)
  BY <1>1, <1>2, <1>4 DEF Unfinished, Home
<1>10. t \notin Unfinished(RankOf(w))
  BY <1>1 DEF Unfinished
<1>11. Cardinality(Unfinished(RankOf(w)) \cup {t})
         = Cardinality(Unfinished(RankOf(w))) + 1
  BY <1>1, <1>10, CountedFinite, FS_AddElement
<1>12. localOut' = [localOut EXCEPT ![RankOf(w)] = @ + 1]
  BY DEF AddTask
<1>13. OutstandingCounts'
  BY <1>1, <1>3, <1>4, <1>8, <1>9, <1>11, <1>12 DEF CountInv, OutstandingCounts
<1> QED
  BY <1>5, <1>6, <1>7, <1>13 DEF CountInv

(* Popping a task from a queue moves it to the thread.                     *)
LEMMA PopCounts ==
  ASSUME TypeOK, CountInv, NEW w \in Worker, PopStolen(w) \/ PopLocal(w)
  PROVE  CountInv'
<1> USE DEF appVars, taskVars, commVars, sendVars
<1>1. PICK t \in Task, run \in RunPlaces, place \in {"running", "runningStolen"} :
        /\ place = IF run = "runLocal" THEN "running" ELSE "runningStolen"
        /\ loc[t] = IF run = "runLocal" THEN "local" ELSE "stolen"
        /\ host[t] = RankOf(w)
        /\ wpc' = [wpc EXCEPT ![w] = run]
        /\ cur' = [cur EXCEPT ![w] = t]
        /\ loc' = [loc EXCEPT ![t] = place]
        /\ UNCHANGED <<host, localOut, remoteOut, offers, backReqs>>
  <2>1. CASE PopStolen(w)
    BY <2>1 DEF PopStolen, Pop, StolenTasks, TasksAt, Goto, RunPlaces
  <2>2. CASE PopLocal(w)
    BY <2>2 DEF PopLocal, Pop, LocalTasks, TasksAt, Goto, RunPlaces
  <2> QED
    BY <2>1, <2>2
<1>2. /\ loc \in [Task -> Locations] /\ cur \in [Worker -> Task \cup {NoTask}]
      /\ wpc \in [Worker -> WorkerPlaces]
  BY DEF TypeOK, TaskTypeOK, AppTypeOK
<1>3. HostInv'
  BY <1>1, <1>2 DEF CountInv, HostInv
<1>4. RunInv'
  <2>1. \A v \in Worker : wpc[v] \in RunPlaces => cur[v] # t
    BY <1>1 DEF CountInv, RunInv, RunPlaces
  <2>2. wpc'[w] = run /\ cur'[w] = t /\ loc'[t] = place
    BY <1>1, <1>2
  <2>3. \A v \in Worker : v # w => wpc'[v] = wpc[v] /\ cur'[v] = cur[v]
    BY <1>1, <1>2
  <2>4. \A u \in Task : u # t => loc'[u] = loc[u]
    BY <1>1, <1>2
  <2>5. ASSUME NEW v \in Worker, wpc'[v] \in RunPlaces
        PROVE  /\ cur'[v] \in Task /\ host'[cur'[v]] = RankOf(v)
               /\ loc'[cur'[v]] = IF wpc'[v] = "runLocal" THEN "running"
                                  ELSE "runningStolen"
    <3>1. CASE v = w
      BY <1>1, <2>2, <3>1
    <3>2. CASE v # w
      BY <1>1, <2>1, <2>3, <2>4, <2>5, <3>2 DEF CountInv, RunInv
    <3> QED
      BY <3>1, <3>2
  <2>6. \A u, v \in Worker : wpc'[u] \in RunPlaces /\ wpc'[v] \in RunPlaces
                               /\ cur'[u] = cur'[v] => u = v
    BY <2>1, <2>2, <2>3 DEF CountInv, RunInv
  <2> QED
    BY <2>5, <2>6 DEF RunInv
<1>5. OfferInv' /\ BackInv'
  BY <1>1, <1>2 DEF CountInv, OfferInv, BackInv, RunPlaces
<1>6. \A q \in Rank : Held(q)' = Held(q)
  BY <1>1, <1>2 DEF Held, HeldFor, StolenTasks, SendBack, TasksAt, RunPlaces
<1>7. \A q \in Rank : Unfinished(q)' = Unfinished(q)
  BY <1>1, <1>2 DEF Unfinished, RunPlaces
<1>8. OutstandingCounts'
  BY <1>1, <1>6, <1>7, SameCounts DEF CountInv
<1> QED
  BY <1>3, <1>4, <1>5, <1>8 DEF CountInv

(* A stolen task is executed away from home, and its result sent.          *)
LEMMA RunStolenCounts ==
  ASSUME TypeOK, CountInv, WithOutput = Task, NEW w \in Worker, RunStolen(w)
  PROVE  CountInv'
<1> USE DEF appVars, taskVars, commVars, sendVars
<1>1. /\ cur[w] \in Task /\ loc[cur[w]] = "runningStolen"
      /\ wpc[w] = "runStolen"
  BY DEF RunStolen, CountInv, RunInv, RunPlaces
<1>2. /\ loc' = [loc EXCEPT ![cur[w]] = "sendBack"]
      /\ wpc' = [wpc EXCEPT ![w] = "stolen"]
      /\ cur' = [cur EXCEPT ![w] = NoTask]
      /\ UNCHANGED <<host, localOut, remoteOut, offers, backReqs>>
  BY <1>1 DEF RunStolen, Goto
<1>3. /\ loc \in [Task -> Locations] /\ cur \in [Worker -> Task \cup {NoTask}]
      /\ wpc \in [Worker -> WorkerPlaces]
  BY DEF TypeOK, TaskTypeOK, AppTypeOK
<1>4. HostInv'
  BY <1>1, <1>2, <1>3 DEF CountInv, HostInv
<1>5. RunInv'
  <2>1. \A v \in Worker : wpc'[v] \in RunPlaces =>
          /\ wpc[v] = wpc'[v] /\ cur'[v] = cur[v] /\ cur[v] # cur[w]
          /\ loc'[cur[v]] = loc[cur[v]]
    BY <1>1, <1>2, <1>3 DEF CountInv, RunInv, RunPlaces
  <2> QED
    BY <1>2, <2>1 DEF CountInv, RunInv
<1>6. OfferInv' /\ BackInv'
  BY <1>1, <1>2, <1>3 DEF CountInv, OfferInv, BackInv
<1>7. \A q \in Rank : Held(q)' = Held(q)
  BY <1>1, <1>2, <1>3 DEF Held, HeldFor, StolenTasks, SendBack, TasksAt
<1>8. \A q \in Rank : Unfinished(q)' = Unfinished(q)
  BY <1>1, <1>2, <1>3 DEF Unfinished
<1>9. OutstandingCounts'
  BY <1>2, <1>7, <1>8, SameCounts DEF CountInv
<1> QED
  BY <1>4, <1>5, <1>6, <1>9 DEF CountInv

(* A local task lowers the counter of its home, once.                      *)
LEMMA RunLocalCounts ==
  ASSUME TypeOK, CountInv, NEW w \in Worker, RunLocal(w)
  PROVE  CountInv'
<1> USE DEF appVars, taskVars, commVars, sendVars
<1>1. /\ cur[w] \in Task /\ loc[cur[w]] = "running" /\ wpc[w] = "runLocal"
      /\ Home(cur[w]) = RankOf(w) /\ RankOf(w) \in Rank
  BY Constants DEF RunLocal, CountInv, RunInv, HostInv, RunPlaces
<1>2. /\ loc' = [loc EXCEPT ![cur[w]] = "done"]
      /\ localOut' = [localOut EXCEPT ![RankOf(w)] = @ - 1]
      /\ wpc' = [wpc EXCEPT ![w] = "stolen"]
      /\ cur' = [cur EXCEPT ![w] = NoTask]
      /\ UNCHANGED <<host, remoteOut, offers, backReqs>>
  BY DEF RunLocal, Goto
<1>3. /\ loc \in [Task -> Locations] /\ cur \in [Worker -> Task \cup {NoTask}]
      /\ wpc \in [Worker -> WorkerPlaces] /\ localOut \in [Rank -> Int]
  BY DEF TypeOK, TaskTypeOK, AppTypeOK
<1>4. HostInv'
  BY <1>1, <1>2, <1>3 DEF CountInv, HostInv
<1>5. RunInv'
  <2>1. \A v \in Worker : wpc'[v] \in RunPlaces =>
          /\ wpc[v] = wpc'[v] /\ cur'[v] = cur[v] /\ cur[v] # cur[w]
          /\ loc'[cur[v]] = loc[cur[v]]
    BY <1>1, <1>2, <1>3 DEF CountInv, RunInv, RunPlaces
  <2> QED
    BY <1>2, <2>1 DEF CountInv, RunInv
<1>6. OfferInv' /\ BackInv'
  BY <1>1, <1>2, <1>3 DEF CountInv, OfferInv, BackInv
<1>7. \A q \in Rank : Held(q)' = Held(q)
  BY <1>1, <1>2, <1>3 DEF Held, HeldFor, StolenTasks, SendBack, TasksAt
<1>8. \A q \in Rank : Unfinished(q)' =
        IF q = RankOf(w) THEN Unfinished(q) \ {cur[w]} ELSE Unfinished(q)
  BY <1>1, <1>2, <1>3 DEF Unfinished
<1>9. cur[w] \in Unfinished(RankOf(w))
  BY <1>1 DEF Unfinished
<1>10. Cardinality(Unfinished(RankOf(w)) \ {cur[w]})
         = Cardinality(Unfinished(RankOf(w))) - 1
  BY <1>1, <1>9, CountedFinite, FS_RemoveElement
<1>11. OutstandingCounts'
  BY <1>1, <1>2, <1>3, <1>7, <1>8, <1>10 DEF CountInv, OutstandingCounts
<1> QED
  BY <1>4, <1>5, <1>6, <1>11 DEF CountInv

(* The communication thread.                                               *)
LEMMA CompleteSendBackCounts ==
  ASSUME TypeOK, CountInv, NEW r \in Rank, NEW t \in Task, CompleteSendBack(r, t)
  PROVE  CountInv'
<1> USE DEF appVars, taskVars, commVars, sendVars
<1>1. /\ t \in backReqs[r]
      /\ backReqs' = [backReqs EXCEPT ![r] = @ \ {t}]
      /\ remoteOut' = [remoteOut EXCEPT ![r] = @ - 1]
      /\ UNCHANGED <<loc, host, localOut, wpc, cur, offers>>
  BY DEF CompleteSendBack
<1>2. /\ backReqs \in [Rank -> SUBSET Task] /\ remoteOut \in [Rank -> Int]
  BY DEF TypeOK, TaskTypeOK, CommTypeOK
<1>3. HostInv' /\ RunInv' /\ OfferInv'
  BY <1>1 DEF CountInv, HostInv, RunInv, OfferInv
<1>4. BackInv'
  BY <1>1, <1>2 DEF CountInv, BackInv
<1>5. \A q \in Rank : Unfinished(q)' = Unfinished(q)
  BY <1>1 DEF Unfinished
<1>6. loc[t] \in {"backWire", "backRecv", "done"}
  BY <1>1 DEF CountInv, BackInv
<1>7. \A q \in Rank : t \notin HeldFor(q) \cup StolenTasks(q)
                          \cup TasksAt(q, "runningStolen") \cup SendBack(q)
  BY <1>6 DEF CountInv, OfferInv, HeldFor, StolenTasks, SendBack, TasksAt
<1>8. \A q \in Rank : Held(q)' = IF q = r THEN Held(q) \ {t} ELSE Held(q)
  BY <1>1, <1>2, <1>7 DEF Held, HeldFor, StolenTasks, SendBack, TasksAt
<1>9. t \in Held(r)
  BY <1>1 DEF Held
<1>10. Cardinality(Held(r) \ {t}) = Cardinality(Held(r)) - 1
  BY <1>9, CountedFinite, FS_RemoveElement
<1>11. OutstandingCounts'
  BY <1>1, <1>2, <1>5, <1>8, <1>10 DEF CountInv, OutstandingCounts
<1> QED
  BY <1>3, <1>4, <1>11 DEF CountInv

(* An arriving result lowers the counter of its task's home, once.         *)
LEMMA CompleteBackCounts ==
  ASSUME TypeOK, CountInv, NEW r \in Rank, NEW t \in Task, CompleteBack(r, t)
  PROVE  CountInv'
<1> USE DEF appVars, taskVars, commVars, sendVars
<1>1. /\ Home(t) = r /\ loc[t] = "backRecv"
      /\ loc' = [loc EXCEPT ![t] = "done"]
      /\ localOut' = [localOut EXCEPT ![r] = @ - 1]
      /\ UNCHANGED <<host, remoteOut, wpc, cur, offers, backReqs>>
  BY DEF CompleteBack
<1>2. /\ loc \in [Task -> Locations] /\ localOut \in [Rank -> Int]
  BY DEF TypeOK, TaskTypeOK
<1>3. HostInv' /\ OfferInv' /\ BackInv'
  BY <1>1, <1>2 DEF CountInv, HostInv, OfferInv, BackInv
<1>4. RunInv'
  BY <1>1, <1>2 DEF CountInv, RunInv
<1>5. \A q \in Rank : Held(q)' = Held(q)
  BY <1>1, <1>2 DEF Held, HeldFor, StolenTasks, SendBack, TasksAt
<1>6. \A q \in Rank :
        Unfinished(q)' = IF q = r THEN Unfinished(q) \ {t} ELSE Unfinished(q)
  BY <1>1, <1>2 DEF Unfinished
<1>7. t \in Unfinished(r)
  BY <1>1 DEF Unfinished
<1>8. Cardinality(Unfinished(r) \ {t}) = Cardinality(Unfinished(r)) - 1
  BY <1>7, CountedFinite, FS_RemoveElement
<1>9. OutstandingCounts'
  BY <1>1, <1>2, <1>5, <1>6, <1>8 DEF CountInv, OutstandingCounts
<1> QED
  BY <1>3, <1>4, <1>9 DEF CountInv

(* Meta data of offered tasks arrive; no counter changes.                  *)
LEMMA CompleteMetaCounts ==
  ASSUME TypeOK, CountInv, NEW r \in Rank, NEW m \in offers, CompleteMeta(r, m)
  PROVE  CountInv'
<1> USE DEF appVars, taskVars, commVars, sendVars
<1> DEFINE data == [m EXCEPT !.stage = "data"]
<1>1. /\ m.to = r /\ m.stage = "meta"
      /\ remoteOut' = [remoteOut EXCEPT ![r] = @ + Cardinality(m.tasks)]
      /\ offers' = (offers \ {m}) \cup {data}
      /\ UNCHANGED <<loc, host, localOut, wpc, cur, backReqs>>
  BY DEF CompleteMeta
<1>2. /\ m \in Offer /\ remoteOut \in [Rank -> Int]
      /\ backReqs \in [Rank -> SUBSET Task]
  BY DEF TypeOK, TaskTypeOK, SendTypeOK, CommTypeOK
<1>3. data.to = r /\ data.stage = "data" /\ data.tasks = m.tasks
  BY <1>1, <1>2 DEF Offer
<1> HIDE DEF data
<1>4. HostInv' /\ RunInv' /\ BackInv'
  BY <1>1 DEF CountInv, HostInv, RunInv, BackInv
<1>5. OfferInv'
  BY <1>1, <1>3 DEF CountInv, OfferInv
<1>6. \A q \in Rank : Unfinished(q)' = Unfinished(q)
  BY <1>1 DEF Unfinished
<1>7. \A q \in Rank :
        HeldFor(q)' = IF q = r THEN HeldFor(q) \cup m.tasks ELSE HeldFor(q)
  BY <1>1, <1>3 DEF HeldFor
<1>8. \A q \in Rank : Held(q)' = IF q = r THEN Held(q) \cup m.tasks ELSE Held(q)
  BY <1>1, <1>7 DEF Held, StolenTasks, SendBack, TasksAt
<1>9. Held(r) \cap m.tasks = {}
  <2>1. \A t \in m.tasks : t \notin HeldFor(r)
    BY <1>1 DEF CountInv, OfferInv, HeldFor
  <2>2. \A t \in m.tasks : loc[t] = "offer"
    BY DEF CountInv, OfferInv
  <2>3. \A t \in m.tasks : t \notin backReqs[r]
    BY <2>2 DEF CountInv, BackInv
  <2> QED
    BY <2>1, <2>2, <2>3 DEF Held, StolenTasks, SendBack, TasksAt
<1>10. /\ IsFiniteSet(m.tasks) /\ Cardinality(m.tasks) \in Nat
       /\ IsFiniteSet(Held(r)) /\ Cardinality(Held(r)) \in Nat
  BY <1>2, CountedFinite, ConstAssumption, FS_Subset, FS_CardinalityType DEF Offer
<1>11. Cardinality(Held(r) \cup m.tasks) = Cardinality(Held(r)) + Cardinality(m.tasks)
  BY <1>9, <1>10, FS_Union, FS_EmptySet
<1>12. OutstandingCounts'
  BY <1>1, <1>2, <1>6, <1>8, <1>10, <1>11 DEF CountInv, OutstandingCounts
<1> QED
  BY <1>4, <1>5, <1>12 DEF CountInv

(* Offered tasks arrive in the stolen queue; no counter changes.           *)
LEMMA CompleteDataCounts ==
  ASSUME TypeOK, CountInv, NEW r \in Rank, NEW m \in offers, CompleteData(r, m)
  PROVE  CountInv'
<1> USE DEF appVars, taskVars, commVars, sendVars
<1>1. /\ m.to = r /\ m.stage = "data"
      /\ offers' = offers \ {m}
      /\ loc' = [t \in Task |-> IF t \in m.tasks THEN "stolen" ELSE loc[t]]
      /\ host' = [t \in Task |-> IF t \in m.tasks THEN r ELSE host[t]]
      /\ UNCHANGED <<localOut, remoteOut, wpc, cur, backReqs>>
  BY DEF CompleteData
<1>2. /\ m.tasks \subseteq Task /\ loc \in [Task -> Locations]
      /\ backReqs \in [Rank -> SUBSET Task]
  BY DEF TypeOK, TaskTypeOK, SendTypeOK, CommTypeOK, Offer
<1>3. \A t \in m.tasks : loc[t] = "offer"
  BY DEF CountInv, OfferInv
<1>4. HostInv'
  BY <1>1, <1>2, <1>3 DEF CountInv, HostInv
<1>5. RunInv'
  BY <1>1, <1>2, <1>3 DEF CountInv, RunInv, RunPlaces
<1>6. BackInv'
  BY <1>1, <1>2, <1>3 DEF CountInv, BackInv
<1>7. OfferInv'
  <2>1. \A n \in offers' : n \in offers /\ n.tasks \cap m.tasks = {}
    BY <1>1 DEF CountInv, OfferInv
  <2>2. \A n \in offers' : n.tasks \subseteq Task
    BY <2>1 DEF TypeOK, SendTypeOK, Offer
  <2> QED
    BY <1>1, <2>1, <2>2 DEF CountInv, OfferInv
<1>8. \A q \in Rank : Unfinished(q)' = Unfinished(q)
  BY <1>1, <1>2, <1>3 DEF Unfinished
<1>9. \A q \in Rank : Held(q)' = Held(q)
  <2> TAKE q \in Rank
  <2>1. StolenTasks(q)' = IF q = r THEN StolenTasks(q) \cup m.tasks ELSE StolenTasks(q)
    BY <1>1, <1>2, <1>3 DEF StolenTasks, TasksAt
  <2>2. UNCHANGED <<TasksAt(q, "runningStolen"), SendBack(q)>>
    BY <1>1, <1>2, <1>3 DEF SendBack, TasksAt
  <2>3. HeldFor(q)' \subseteq HeldFor(q)
    BY <1>1 DEF HeldFor
  <2>4. HeldFor(q) \subseteq HeldFor(q)' \cup (IF q = r THEN m.tasks ELSE {})
    BY <1>1 DEF HeldFor
  <2>5. q = r => m.tasks \subseteq HeldFor(q)
    BY <1>1 DEF HeldFor
  <2> QED
    BY <1>1, <2>1, <2>2, <2>3, <2>4, <2>5 DEF Held
<1>10. OutstandingCounts'
  BY <1>1, <1>8, <1>9, SameCounts DEF CountInv
<1> QED
  BY <1>4, <1>5, <1>6, <1>7, <1>10 DEF CountInv

(* Tasks popped to migrate stay counted at home.                           *)
LEMMA MigrateCounts ==
  ASSUME TypeOK, CountInv, NEW r \in Rank, NEW q \in Rank,
         NEW S \in SUBSET LocalTasks(r), Migrate(r, q, S)
  PROVE  CountInv'
<1> USE DEF appVars, taskVars, commVars, sendVars
<1>1. /\ S \subseteq Task /\ \A t \in S : loc[t] = "local"
      /\ loc' = [t \in Task |-> IF t \in S THEN "offer" ELSE loc[t]]
      /\ UNCHANGED <<host, localOut, remoteOut, wpc, cur, backReqs>>
  BY DEF Migrate, LocalTasks, TasksAt
<1>2. PICK n : n.tasks = S /\ n.stage = "wire" /\ offers' = offers \cup {n}
  BY DEF Migrate, OfferOf
<1>3. /\ loc \in [Task -> Locations] /\ backReqs \in [Rank -> SUBSET Task]
      /\ \A m \in offers : m.tasks \subseteq Task
  BY DEF TypeOK, TaskTypeOK, CommTypeOK, SendTypeOK, Offer
<1>4. HostInv'
  BY <1>1, <1>3 DEF CountInv, HostInv
<1>5. RunInv'
  BY <1>1, <1>3 DEF CountInv, RunInv, RunPlaces
<1>6. BackInv'
  BY <1>1, <1>3 DEF CountInv, BackInv
<1>7. OfferInv'
  <2>1. \A m \in offers : m.tasks \cap S = {}
    BY <1>1 DEF CountInv, OfferInv
  <2>2. \A m, k \in offers' : m.tasks \cap k.tasks # {} => m = k
    BY <1>2, <2>1 DEF CountInv, OfferInv
  <2>3. \A m \in offers' : \A t \in m.tasks : loc'[t] = "offer"
    BY <1>1, <1>2, <1>3 DEF CountInv, OfferInv
  <2> QED
    BY <2>2, <2>3 DEF OfferInv
<1>8. \A p \in Rank : Unfinished(p)' = Unfinished(p)
  BY <1>1, <1>3 DEF Unfinished
<1>9. \A p \in Rank : HeldFor(p)' = HeldFor(p)
  BY <1>2 DEF HeldFor
<1>10. \A p \in Rank : Held(p)' = Held(p)
  BY <1>1, <1>3, <1>9 DEF Held, StolenTasks, SendBack, TasksAt
<1>11. OutstandingCounts'
  BY <1>1, <1>8, <1>10, SameCounts DEF CountInv
<1> QED
  BY <1>4, <1>5, <1>6, <1>7, <1>11 DEF CountInv

(* Posting sends and receives changes no counter.                          *)
LEMMA PollCounts ==
  ASSUME TypeOK, CountInv, NEW r \in Rank, NEW B \in SUBSET SendBack(r),
         NEW M \in SUBSET offers, NEW S \in SUBSET OnWire(r), Poll(r, B, M, S)
  PROVE  CountInv'
<1> USE DEF appVars, taskVars, sendVars
<1> DEFINE Meta(m) == [m EXCEPT !.stage = "meta"]
<1>1. /\ backReqs' = [backReqs EXCEPT ![r] = @ \cup B]
      /\ offers' = (offers \ M) \cup {Meta(m) : m \in M}
      /\ loc' = [t \in Task |-> IF t \in B THEN "backWire"
                                ELSE IF t \in S THEN "backRecv" ELSE loc[t]]
      /\ UNCHANGED <<host, localOut, remoteOut, wpc, cur>>
  BY DEF Poll
<1>2. /\ \A t \in B : t \in Task /\ loc[t] = "sendBack" /\ host[t] = r
      /\ \A t \in S : t \in Task /\ loc[t] = "backWire"
  BY DEF SendBack, OnWire, TasksAt
<1>3. /\ loc \in [Task -> Locations] /\ backReqs \in [Rank -> SUBSET Task]
      /\ offers \subseteq Offer
  BY DEF TypeOK, TaskTypeOK, CommTypeOK, SendTypeOK
<1>4. \A m \in M : /\ m \in offers /\ m.stage = "wire"
                   /\ Meta(m).tasks = m.tasks /\ Meta(m).stage = "meta"
  BY <1>3 DEF Poll, FindsOffer, FirstOffer, Offer
<1> HIDE DEF Meta
<1>5. HostInv'
  BY <1>1, <1>2, <1>3 DEF CountInv, HostInv
<1>6. RunInv'
  BY <1>1, <1>2, <1>3 DEF CountInv, RunInv, RunPlaces
<1>7. BackInv'
  BY <1>1, <1>2, <1>3 DEF CountInv, BackInv
<1>8. OfferInv'
  <2>1. \A k \in offers' : \E m \in offers :
          /\ k.tasks = m.tasks
          /\ k = IF m \in M THEN Meta(m) ELSE m
    BY <1>1, <1>4
  <2>2. \A k, n \in offers' : k.tasks \cap n.tasks # {} => k = n
    BY <2>1 DEF CountInv, OfferInv
  <2>3. \A k \in offers' : \A t \in k.tasks : t \in Task /\ loc[t] = "offer"
    BY <2>1, <1>3 DEF CountInv, OfferInv, Offer
  <2>4. \A k \in offers' : \A t \in k.tasks : loc'[t] = "offer"
    BY <2>3, <1>1, <1>2
  <2> QED
    BY <2>2, <2>4 DEF OfferInv
<1>9. \A p \in Rank : Unfinished(p)' = Unfinished(p)
  BY <1>1, <1>2, <1>3 DEF Unfinished
<1>10. \A p \in Rank : HeldFor(p)' = HeldFor(p)
  BY <1>1, <1>4 DEF HeldFor
<1>11. \A p \in Rank : Held(p)' = Held(p)
  BY <1>1, <1>2, <1>3, <1>10 DEF Held, StolenTasks, SendBack, TasksAt
<1>12. OutstandingCounts'
  BY <1>1, <1>9, <1>11, SameCounts DEF CountInv
<1> QED
  BY <1>5, <1>6, <1>7, <1>8, <1>12 DEF CountInv

-----------------------------------------------------------------------------
(* Every step of a thread keeps the counters exact.                        *)
LEMMA WorkerStepCounts ==
  ASSUME TypeOK, CountInv, WithOutput = Task, NEW w \in Worker, WorkerStep(w)
  PROVE  CountInv'
<1> USE DEF appVars, taskVars, commVars, sendVars
<1>1. ASSUME NEW t \in Task, AddTask(w, t) PROVE CountInv'
  BY <1>1, AddTaskCounts
<1>2. CASE PopStolen(w) \/ PopLocal(w)
  BY <1>2, PopCounts
<1>3. CASE RunStolen(w)
  BY <1>3, RunStolenCounts
<1>4. CASE RunLocal(w)
  BY <1>4, RunLocalCounts
<1>5. CASE EnterTaskwait(w)
  BY <1>5, Quiet DEF EnterTaskwait, Goto, RunPlaces, TypeOK, AppTypeOK
<1>6. CASE LookForStolen(w) \/ LookForLocal(w) \/ NoStolen(w) \/ StopIdling(w)
  BY <1>6, Quiet DEF LookForStolen, LookForLocal, LookAt, NoStolen, StopIdling,
                     Goto, RunPlaces, TypeOK, AppTypeOK
<1>7. CASE BeIdle(w) \/ CheckIdle(w) \/ CheckRanks(w) \/ CheckSum(w)
  BY <1>7, Quiet DEF BeIdle, CheckIdle, CheckRanks, CheckSum, Goto, RunPlaces,
                     TypeOK, AppTypeOK
<1>8. CASE PutCommToSleep(w) \/ SeeStopped(w) \/ Teardown(w)
  BY <1>8, Quiet DEF PutCommToSleep, SeeStopped, Teardown, Goto, RunPlaces,
                     TypeOK, AppTypeOK
<1> QED
  BY <1>1, <1>2, <1>3, <1>4, <1>5, <1>6, <1>7, <1>8 DEF WorkerStep

(* So does every step of a team or a communication thread.                 *)
LEMMA RankStepCounts ==
  ASSUME TypeOK, CountInv, NEW r \in Rank, TeamStep(r) \/ CommStep(r)
  PROVE  CountInv'
<1> USE DEF appVars, taskVars, commVars, sendVars
<1>1. CASE TeamStep(r)
  BY <1>1, Quiet DEF TeamStep, LeaveBarrier, NextCycle, RunPlaces
<1>2. CASE CommSleep(r) \/ CommBegin(r)
  BY <1>2, Quiet DEF CommSleep, CommBegin
<1>3. ASSUME NEW q \in Rank, CompleteSend(r, q) PROVE CountInv'
  BY <1>3, Quiet DEF CompleteSend
<1>4. ASSUME NEW t \in Task, CompleteSendBack(r, t) PROVE CountInv'
  BY <1>4, CompleteSendBackCounts
<1>5. ASSUME NEW t \in Task, CompleteBack(r, t) PROVE CountInv'
  BY <1>5, CompleteBackCounts
<1>6. ASSUME NEW m \in offers, CompleteMeta(r, m) PROVE CountInv'
  BY <1>6, CompleteMetaCounts
<1>7. ASSUME NEW m \in offers, CompleteData(r, m) PROVE CountInv'
  BY <1>7, CompleteDataCounts
<1>8. CASE PostGather(r) \/ CollectGather(r) \/ StoreSum(r)
  BY <1>8, Quiet DEF PostGather, CollectGather, StoreSum
<1>9. CASE CommExit(r) \/ CommStay(r)
  BY <1>9, Quiet DEF CommExit, CommStay
<1>10. ASSUME NEW q \in Rank, NEW S \in SUBSET LocalTasks(r), Migrate(r, q, S)
       PROVE  CountInv'
  BY <1>10, MigrateCounts
<1>11. ASSUME NEW B \in SUBSET SendBack(r), NEW M \in SUBSET offers,
              NEW S \in SUBSET OnWire(r), Poll(r, B, M, S)
       PROVE  CountInv'
  BY <1>11, PollCounts
<1> QED
  BY <1>1, <1>2, <1>3, <1>4, <1>5, <1>6, <1>7, <1>8, <1>9, <1>10, <1>11
  DEF CommStep, Complete, Polls

(* If every task has an output, the counters are exact.                    *)
LEMMA CountInvariant ==
  ASSUME WithOutput = Task
  PROVE  Spec => []CountInv
<1>1. Init => CountInv
  <2> SUFFICES ASSUME Init PROVE CountInv
    OBVIOUS
  <2>1. HostInv /\ RunInv /\ OfferInv /\ BackInv
    BY DEF Init, HostInv, RunInv, RunPlaces, OfferInv, BackInv
  <2>2. \A r \in Rank : Unfinished(r) = {} /\ Held(r) = {}
    BY DEF Init, Unfinished, Held, HeldFor, StolenTasks, SendBack, TasksAt
  <2>3. OutstandingCounts
    BY <2>2, FS_EmptySet DEF Init, OutstandingCounts
  <2> QED
    BY <2>1, <2>3 DEF CountInv
<1>2. TypeOK /\ CountInv /\ [Next]_vars => CountInv'
  <2> SUFFICES ASSUME TypeOK, CountInv, [Next]_vars PROVE CountInv'
    OBVIOUS
  <2>1. ASSUME NEW w \in Worker, WorkerStep(w) PROVE CountInv'
    BY <2>1, WorkerStepCounts
  <2>2. ASSUME NEW r \in Rank, TeamStep(r) \/ CommStep(r) PROVE CountInv'
    BY <2>2, RankStepCounts
  <2>3. CASE UNCHANGED vars
    BY <2>3, Quiet DEF vars, appVars, commVars, sendVars, taskVars
  <2> QED
    BY <2>1, <2>2, <2>3 DEF Next, Finished
<1> QED
  BY <1>1, <1>2, TypeCorrect, PTL DEF Spec

(* When every task has an output, the two counters a rank contributes to   *)
(* the load exchange count exactly its unfinished tasks and the stolen     *)
(* tasks it holds, however tasks migrate and threads interleave.           *)
THEOREM CountsExact ==
  ASSUME WithOutput = Task
  PROVE  Spec => []OutstandingCounts
<1>1. CountInv => OutstandingCounts
  BY DEF CountInv
<1> QED
  BY <1>1, CountInvariant, PTL

(***************************************************************************)
(* One taskwait of teams of one thread: what a zero in a load exchange     *)
(* says.                                                                   *)
(***************************************************************************)
OneThreadEach == \A r \in Rank : NumThreads(r) = 1

Inside(r)   == \A w \in WorkersOf(r) : wpc[w] # "work"
HomeDone(r) == \A t \in Task : Home(t) = r => loc[t] = "done"
AllInside   == \A r \in Rank : Inside(r)
AllHomeDone == \A r \in Rank : HomeDone(r)

(* A task is on its way to another rank, there, or on its way back.        *)
AwayPlaces == {"offer", "stolen", "runningStolen", "sendBack", "backWire", "backRecv"}

(* A thread in the taskwait has created its tasks.                         *)
BornInv == \A t \in Task : wpc[Creator[t]] # "work" => loc[t] # "new"

(* A communication thread is awake only after its team entered, and then   *)
(* sleeps only when all work is done.                                      *)
AwakeInv == \A r \in Rank :
  /\ cpc[r] # "top" => Inside(r) /\ ~sleepSet[r]
  /\ ~sleeping[r] => Inside(r)
  /\ sleeping[r] /\ Inside(r) => AllHomeDone

(* A contribution is from a rank whose team entered; one of zero is from a *)
(* rank whose tasks are finished.                                          *)
SaysDone(q, n) == n \in Nat /\ (n = 0 => HomeDone(q))
ContribInv == \A r, q \in Rank : \A i \in 1 .. Len(gathers[r][q]) :
  Inside(q) /\ SaysDone(q, gathers[r][q][i].out)

(* So a sum of zero says that all tasks are.                               *)
SumInv == \A r \in Rank :
  /\ cpc[r] = "sum" => AllInside /\ (gathered[r] = 0 => AllHomeDone)
  /\ exchanged[r] => AllInside /\ (outSum[r] = 0 => AllHomeDone)

LeftInv == \A w \in Worker :
  wpc[w] \in LeftPlaces \cup {"end"} => AllInside /\ AllHomeDone

(* A task is away only while its home has it in its map.                   *)
AwayInv == \A t \in Task : loc[t] \in AwayPlaces =>
  Inside(Home(t)) /\ ~sleepSet[Home(t)] /\ t \in offMap[Home(t)]

JointInv == BornInv /\ AwakeInv /\ ContribInv /\ SumInv /\ LeftInv /\ AwayInv

(* With one taskwait no thread comes out of it to work again, and a task   *)
(* that is created or finished stays so.                                   *)
Growth ==
  /\ \A w \in Worker : wpc[w] # "work" => wpc'[w] # "work"
  /\ \A t \in Task : /\ loc[t] # "new" => loc'[t] # "new"
                     /\ loc[t] = "done" => loc'[t] = "done"

(* In one taskwait, what is entered, done and left only grows.             *)
LEMMA StepsGrow ==
  ASSUME TypeOK, CountInv, NumCycles = 1, [Next]_vars
  PROVE  Growth
<1> USE DEF appVars, taskVars, commVars, sendVars
<1>1. /\ wpc \in [Worker -> WorkerPlaces] /\ loc \in [Task -> Locations]
      /\ cycle \in [Worker -> 1 .. NumCycles]
  BY DEF TypeOK, AppTypeOK, TaskTypeOK
<1>2. ASSUME NEW w \in Worker, WorkerStep(w) PROVE Growth
  <2>1. ASSUME NEW t \in Task, AddTask(w, t) PROVE Growth
    BY <1>1, <2>1 DEF AddTask, Growth
  <2>2. CASE EnterTaskwait(w)
    BY <1>1, <2>2 DEF EnterTaskwait, Goto, Growth
  <2>3. CASE LookForStolen(w) \/ LookForLocal(w) \/ NoStolen(w) \/ StopIdling(w)
    BY <1>1, <2>3 DEF LookForStolen, LookForLocal, LookAt, NoStolen, StopIdling,
                      Goto, Growth
  <2>4. CASE PopStolen(w) \/ PopLocal(w)
    BY <1>1, <2>4 DEF PopStolen, PopLocal, Pop, Goto, StolenTasks, LocalTasks,
                      TasksAt, Growth
  <2>5. CASE RunStolen(w)
    BY <1>1, <2>5 DEF RunStolen, Goto, CountInv, RunInv, RunPlaces, Growth
  <2>6. CASE RunLocal(w)
    BY <1>1, <2>6 DEF RunLocal, Goto, Growth
  <2>7. CASE BeIdle(w) \/ CheckIdle(w) \/ CheckRanks(w) \/ CheckSum(w)
    BY <1>1, <2>7 DEF BeIdle, CheckIdle, CheckRanks, CheckSum, Goto, Growth
  <2>8. CASE PutCommToSleep(w) \/ SeeStopped(w) \/ Teardown(w)
    BY <1>1, <2>8 DEF PutCommToSleep, SeeStopped, Teardown, Goto, Growth
  <2> QED
    BY <1>2, <2>1, <2>2, <2>3, <2>4, <2>5, <2>6, <2>7, <2>8 DEF WorkerStep
<1>3. ASSUME NEW r \in Rank, TeamStep(r) PROVE Growth
  BY <1>1, <1>3 DEF TeamStep, LeaveBarrier, NextCycle, Growth
<1>4. ASSUME NEW r \in Rank, CommStep(r) PROVE Growth
  <2>1. CASE CommSleep(r) \/ CommBegin(r) \/ PostGather(r) \/ CollectGather(r)
    BY <2>1 DEF CommSleep, CommBegin, PostGather, CollectGather, Growth
  <2>2. CASE StoreSum(r) \/ CommExit(r) \/ CommStay(r)
    BY <2>2 DEF StoreSum, CommExit, CommStay, Growth
  <2>3. CASE Complete(r)
    <3>1. ASSUME NEW q \in Rank, CompleteSend(r, q) PROVE Growth
      BY <3>1 DEF CompleteSend, Growth
    <3>2. ASSUME NEW t \in Task, CompleteSendBack(r, t) \/ CompleteBack(r, t)
          PROVE  Growth
      BY <1>1, <3>2 DEF CompleteSendBack, CompleteBack, Growth
    <3>3. ASSUME NEW m \in offers, CompleteMeta(r, m) \/ CompleteData(r, m)
          PROVE  Growth
      BY <1>1, <3>3 DEF CompleteMeta, CompleteData, CountInv, OfferInv, Growth
    <3> QED
      BY <2>3, <3>1, <3>2, <3>3 DEF Complete
  <2>4. ASSUME NEW q \in Rank, NEW S \in SUBSET LocalTasks(r), Migrate(r, q, S)
        PROVE  Growth
    BY <1>1, <2>4 DEF Migrate, LocalTasks, TasksAt, Growth
  <2>5. ASSUME NEW B \in SUBSET SendBack(r), NEW M \in SUBSET offers,
               NEW S \in SUBSET OnWire(r), Poll(r, B, M, S)
        PROVE  Growth
    BY <1>1, <2>5 DEF Poll, SendBack, TasksAt, OnWire, Growth
  <2> QED
    BY <1>4, <2>1, <2>2, <2>3, <2>4, <2>5 DEF CommStep, Polls
<1>5. CASE UNCHANGED vars
  BY <1>5 DEF vars, Growth
<1> QED
  BY <1>2, <1>3, <1>4, <1>5 DEF Next, Finished

(* A team of one thread has no other.                                      *)
LEMMA OneThread ==
  ASSUME OneThreadEach, NEW w \in Worker
  PROVE  \A v \in WorkersOf(RankOf(w)) : v = w
<1>1. RankOf(w) \in Rank /\ w \in WorkersOf(RankOf(w))
  BY Constants DEF WorkersOf
<1>2. IsFiniteSet(WorkersOf(RankOf(w)))
  BY FS_Subset, ConstAssumption DEF WorkersOf
<1>3. \E x : WorkersOf(RankOf(w)) = {x}
  BY <1>1, <1>2, FS_Singleton DEF OneThreadEach, NumThreads
<1> QED
  BY <1>1, <1>3

(* What a step leaves alone, it preserves.                                 *)
NoEntry == \A w \in Worker : wpc'[w] # "work" => wpc[w] # "work"

(* A part of the invariant whose own variables do not change is kept.      *)
LEMMA Kept ==
  ASSUME TypeOK, JointInv, Growth
  PROVE
    /\ NoEntry => BornInv'
    /\ /\ NoEntry /\ UNCHANGED <<sleeping, sleepSet>>
       /\ \A r \in Rank : cpc'[r] # "top" => cpc[r] # "top"
       => AwakeInv'
    /\ UNCHANGED gathers => ContribInv'
    /\ (\A r \in Rank :
          /\ cpc'[r] = "sum" => cpc[r] = "sum" /\ gathered'[r] = gathered[r]
          /\ exchanged'[r] => exchanged[r] /\ outSum'[r] = outSum[r])
       => SumInv'
    /\ (\A w \in Worker : wpc'[w] \in LeftPlaces \cup {"end"}
                             => wpc[w] \in LeftPlaces \cup {"end"})
       => LeftInv'
    /\ /\ UNCHANGED <<sleepSet, offMap>>
       /\ \A t \in Task : loc'[t] \in AwayPlaces => loc[t] \in AwayPlaces
       => AwayInv'
<1>1. \A r \in Rank : /\ Inside(r) => Inside(r)'
                      /\ HomeDone(r) => HomeDone(r)'
  BY DEF Growth, Inside, HomeDone, WorkersOf
<1>2. (AllInside => AllInside') /\ (AllHomeDone => AllHomeDone')
  BY <1>1 DEF AllInside, AllHomeDone
<1>3. ASSUME NoEntry PROVE BornInv'
  BY <1>3, Constants, ConstAssumption DEF JointInv, BornInv, NoEntry, Growth
<1>4. ASSUME NoEntry, UNCHANGED <<sleeping, sleepSet>>,
             \A r \in Rank : cpc'[r] # "top" => cpc[r] # "top"
      PROVE  AwakeInv'
  <2>1. \A r \in Rank : Inside(r)' => Inside(r)
    BY <1>4 DEF Inside, NoEntry, WorkersOf
  <2> QED
    BY <1>1, <1>2, <1>4, <2>1 DEF JointInv, AwakeInv
<1>5. ASSUME UNCHANGED gathers PROVE ContribInv'
  BY <1>1, <1>5 DEF JointInv, ContribInv, SaysDone
<1>6. ASSUME \A r \in Rank :
               /\ cpc'[r] = "sum" => cpc[r] = "sum" /\ gathered'[r] = gathered[r]
               /\ exchanged'[r] => exchanged[r] /\ outSum'[r] = outSum[r]
      PROVE  SumInv'
  BY <1>2, <1>6 DEF JointInv, SumInv
<1>7. ASSUME \A w \in Worker : wpc'[w] \in LeftPlaces \cup {"end"}
                                 => wpc[w] \in LeftPlaces \cup {"end"}
      PROVE  LeftInv'
  BY <1>2, <1>7 DEF JointInv, LeftInv
<1>8. ASSUME UNCHANGED <<sleepSet, offMap>>,
             \A t \in Task : loc'[t] \in AwayPlaces => loc[t] \in AwayPlaces
      PROVE  AwayInv'
  <2>1. \A t \in Task : Home(t) \in Rank
    BY Constants, ConstAssumption DEF Home
  <2> QED
    BY <1>1, <1>8, <2>1 DEF JointInv, AwayInv
<1> QED
  BY <1>3, <1>4, <1>5, <1>6, <1>7, <1>8

(* A team that is in the taskwait has no task left to create, so a sum of  *)
(* zero over its counters says that its tasks are finished.                *)
LEMMA SampleSays ==
  ASSUME TypeOK, CountInv, BornInv, NEW q \in Rank, Inside(q)
  PROVE  SaysDone(q, Sample(q).out)
<1>1. Cardinality(Held(q)) \in Nat /\ Cardinality(Unfinished(q)) \in Nat
  BY CountedFinite, FS_CardinalityType
<1>2. Sample(q).out = Cardinality(Unfinished(q)) + Cardinality(Held(q))
  BY DEF Sample, CountInv, OutstandingCounts
<1>3. ASSUME Cardinality(Unfinished(q)) = 0, NEW t \in Task, Home(t) = q
      PROVE  loc[t] = "done"
  <2>1. Unfinished(q) = {}
    BY <1>3, CountedFinite, FS_EmptySet
  <2>2. Creator[t] \in WorkersOf(q)
    BY <1>3, ConstAssumption DEF Home, WorkersOf
  <2>3. loc[t] # "new"
    BY <2>2, ConstAssumption DEF Inside, BornInv
  <2> QED
    BY <1>3, <2>1, <2>3 DEF Unfinished
<1> QED
  BY <1>1, <1>2, <1>3 DEF SaysDone, HomeDone

(* A sum of zero outstanding tasks has only zeros in it.                   *)
LEMMA ZeroSum ==
  ASSUME NEW s \in [Rank -> Contribution], TotalOut(s) = 0,
         NEW q \in Rank, s[q].out \in Nat
  PROVE  s[q].out = 0
<1> DEFINE T == {x \in Rank \X (1 .. IntMax) : x[2] <= s[x[1]].out}
<1>1. IsFiniteSet(Rank) /\ IsFiniteSet(1 .. IntMax)
  BY FS_Interval, ConstAssumption
<1>2. IsFiniteSet(T)
  <2>1. IsFiniteSet(Rank \X (1 .. IntMax))
    BY <1>1, FS_Product
  <2> QED
    BY <2>1, FS_Subset
<1>3. T = {}
  BY <1>2, FS_EmptySet DEF TotalOut
<1>4. 1 \in 1 .. IntMax
  <2>1. Cardinality(Rank) \in Nat
    BY FS_CardinalityType, ConstAssumption
  <2> QED
    BY <2>1, ConstAssumption
<1>5. CASE s[q].out >= 1
  <2>1. <<q, 1>> \in T
    BY <1>4, <1>5
  <2> QED
    BY <1>3, <2>1
<1> QED
  BY <1>5

(* Threads.                                                                *)
LEMMA EnterJoins ==
  ASSUME TypeOK, OneThreadEach, JointInv, Growth,
         NEW w \in Worker, EnterTaskwait(w), cycle[w] = 1, NumCycles = 1
  PROVE  JointInv'
<1> USE DEF appVars, taskVars, commVars, sendVars
<1>1. /\ wpc \in [Worker -> WorkerPlaces] /\ sleeping \in [Rank -> BOOLEAN]
      /\ exchanged \in [Rank -> BOOLEAN]
  BY DEF TypeOK, AppTypeOK, DtwTypeOK
<1>2. /\ wpc[w] = "work" /\ wpc' = [wpc EXCEPT ![w] = "stolen"]
      /\ sleeping' = [sleeping EXCEPT ![RankOf(w)] = FALSE]
      /\ UNCHANGED <<cpc, sleepSet, gathers, gathered, outSum, offMap, loc>>
      /\ exchanged' = exchanged \/ exchanged' = [exchanged EXCEPT ![RankOf(w)] = FALSE]
  BY DEF EnterTaskwait, Goto, exitVars
<1>3. BornInv'
  <2> SUFFICES ASSUME NEW t \in Task, wpc'[Creator[t]] # "work"
               PROVE  loc'[t] # "new"
    BY DEF BornInv
  <2>1. CASE Creator[t] = w
    <3>1. CycleOf[t] = cycle[w]
      BY ConstAssumption
    <3> QED
      BY <1>2, <2>1, <3>1 DEF EnterTaskwait
  <2>2. CASE Creator[t] # w
    BY <1>1, <1>2, <2>2, ConstAssumption DEF JointInv, BornInv
  <2> QED
    BY <2>1, <2>2
<1>4. AwakeInv'
  <2>1. Inside(RankOf(w))'
    BY <1>1, <1>2, OneThread DEF Inside, WorkersOf
  <2>2. \A r \in Rank : r # RankOf(w) => Inside(r)' = Inside(r)
    BY <1>1, <1>2 DEF Inside, WorkersOf
  <2>3. AllHomeDone => AllHomeDone'
    BY DEF Growth, AllHomeDone, HomeDone
  <2>4. ~sleeping'[RankOf(w)]
    BY <1>1, <1>2, Constants
  <2>5. cpc[RankOf(w)] # "top" => ~sleepSet[RankOf(w)]
    BY Constants DEF JointInv, AwakeInv
  <2> QED
    BY <1>1, <1>2, <2>1, <2>2, <2>3, <2>4, <2>5 DEF JointInv, AwakeInv
<1>5. ContribInv' /\ SumInv' /\ LeftInv' /\ AwayInv'
  <2>1. \A r \in Rank : exchanged'[r] => exchanged[r]
    BY <1>1, <1>2
  <2>2. \A v \in Worker : wpc'[v] \in LeftPlaces \cup {"end"}
                            => wpc[v] \in LeftPlaces \cup {"end"}
    BY <1>1, <1>2 DEF LeftPlaces
  <2> QED
    BY <1>2, <2>1, <2>2, Kept
<1> QED
  BY <1>3, <1>4, <1>5 DEF JointInv

(* Steps of threads keep the joint invariant.                              *)
LEMMA ThreadJoins ==
  ASSUME TypeOK, CountInv, OneThreadEach, NumCycles = 1, JointInv, Growth,
         NEW w \in Worker, WorkerStep(w)
  PROVE  JointInv'
<1> USE DEF appVars, taskVars, commVars, sendVars, sleepVars, exitVars
<1>1. /\ wpc \in [Worker -> WorkerPlaces] /\ loc \in [Task -> Locations]
      /\ cycle[w] = 1
  BY DEF TypeOK, AppTypeOK, TaskTypeOK
<1>2. CASE EnterTaskwait(w)
  BY <1>1, <1>2, EnterJoins
<1>3. ASSUME NEW t \in Task, AddTask(w, t) PROVE JointInv'
  <2>1. \A u \in Task : loc'[u] \in AwayPlaces => loc[u] \in AwayPlaces
    BY <1>1, <1>3 DEF AddTask, AwayPlaces
  <2>2. NoEntry /\ UNCHANGED <<wpc, sleepVars, sleepSet, cpc, gathers, gathered,
                               exchanged, outSum, offMap>>
    BY <1>3 DEF AddTask, NoEntry
  <2> QED
    BY <2>1, <2>2, Kept DEF JointInv
<1>4. CASE \/ LookForStolen(w) \/ LookForLocal(w) \/ NoStolen(w) \/ StopIdling(w)
           \/ BeIdle(w) \/ CheckIdle(w) \/ CheckRanks(w)
  <2>1. /\ NoEntry
        /\ \A v \in Worker : wpc'[v] \in LeftPlaces \cup {"end"}
                               => wpc[v] \in LeftPlaces \cup {"end"}
    BY <1>1, <1>4
    DEF LookForStolen, LookForLocal, LookAt, NoStolen, StopIdling, BeIdle,
        CheckIdle, CheckRanks, Goto, NoEntry, LeftPlaces
  <2>2. UNCHANGED <<loc, sleepVars, sleepSet, cpc, gathers, gathered,
                    exchanged, outSum, offMap>>
    BY <1>4 DEF LookForStolen, LookForLocal, LookAt, NoStolen, StopIdling, BeIdle,
                CheckIdle, CheckRanks
  <2> QED
    BY <2>1, <2>2, Kept DEF JointInv
<1>5. CASE PopStolen(w) \/ PopLocal(w)
  <2>1. /\ NoEntry
        /\ \A v \in Worker : wpc'[v] \in LeftPlaces \cup {"end"}
                               => wpc[v] \in LeftPlaces \cup {"end"}
    BY <1>1, <1>5 DEF PopStolen, PopLocal, Pop, Goto, NoEntry, LeftPlaces
  <2>2. UNCHANGED <<sleepVars, sleepSet, cpc, gathers, gathered,
                    exchanged, outSum, offMap>>
    BY <1>5 DEF PopStolen, PopLocal, Pop
  <2>3. \A u \in Task : loc'[u] \in AwayPlaces => loc[u] \in AwayPlaces
    BY <1>1, <1>5 DEF PopStolen, PopLocal, Pop, StolenTasks, TasksAt, AwayPlaces
  <2> QED
    BY <2>1, <2>2, <2>3, Kept DEF JointInv
<1>6. CASE RunStolen(w) \/ RunLocal(w)
  <2>1. /\ NoEntry
        /\ \A v \in Worker : wpc'[v] \in LeftPlaces \cup {"end"}
                               => wpc[v] \in LeftPlaces \cup {"end"}
    BY <1>1, <1>6 DEF RunStolen, RunLocal, Goto, NoEntry, LeftPlaces
  <2>2. UNCHANGED <<sleepVars, sleepSet, cpc, gathers, gathered,
                    exchanged, outSum, offMap>>
    BY <1>6 DEF RunStolen, RunLocal
  <2>3. \A u \in Task : loc'[u] \in AwayPlaces => loc[u] \in AwayPlaces
    BY <1>1, <1>6 DEF RunStolen, RunLocal, CountInv, RunInv, RunPlaces, AwayPlaces
  <2> QED
    BY <2>1, <2>2, <2>3, Kept DEF JointInv
<1>7. CASE SeeStopped(w) \/ Teardown(w)
  <2>1. /\ NoEntry
        /\ \A v \in Worker : wpc'[v] \in LeftPlaces \cup {"end"}
                               => wpc[v] \in LeftPlaces \cup {"end"}
    BY <1>1, <1>7 DEF SeeStopped, Teardown, Goto, NoEntry, LeftPlaces
  <2>2. UNCHANGED <<loc, sleeping, sleepSet, cpc, gathers, gathered, outSum, offMap>>
    BY <1>7 DEF SeeStopped, Teardown
  <2>3. \A r \in Rank : exchanged'[r] => exchanged[r]
    BY <1>7 DEF SeeStopped, Teardown, TypeOK, DtwTypeOK
  <2> QED
    BY <2>1, <2>2, <2>3, Kept DEF JointInv
<1>8. CASE PutCommToSleep(w)
  <2>1. /\ NoEntry
        /\ \A v \in Worker : wpc'[v] \in LeftPlaces \cup {"end"}
                               => wpc[v] \in LeftPlaces \cup {"end"}
    BY <1>1, <1>8 DEF PutCommToSleep, Goto, NoEntry, LeftPlaces
  <2>2. /\ UNCHANGED <<loc, sleepSet, cpc, gathers, gathered, exchanged, outSum, offMap>>
        /\ \A r \in Rank : ~sleeping'[r] => ~sleeping[r]
    BY <1>8 DEF PutCommToSleep, TypeOK, DtwTypeOK
  <2>3. AllHomeDone'
    BY <1>8, <2>2 DEF PutCommToSleep, JointInv, LeftInv, LeftPlaces, AllHomeDone,
                      HomeDone
  <2>4. \A r \in Rank : Inside(r) => Inside(r)'
    BY DEF Growth, Inside, WorkersOf
  <2>5. AwakeInv'
    BY <2>2, <2>3, <2>4 DEF JointInv, AwakeInv
  <2> QED
    BY <2>1, <2>2, <2>5, Kept DEF JointInv
<1>9. CASE CheckSum(w)
  <2>1. /\ NoEntry
        /\ \A v \in Worker : v # w => wpc'[v] = wpc[v]
        /\ wpc'[w] \in {"left", "stolen"}
        /\ wpc'[w] = "left" => exchanged[RankOf(w)] /\ outSum[RankOf(w)] = 0
    BY <1>1, <1>9 DEF CheckSum, Goto, NoEntry
  <2>2. UNCHANGED <<loc, sleeping, sleepSet, cpc, gathers, gathered, exchanged,
                    outSum, offMap>>
    BY <1>9 DEF CheckSum
  <2>3. wpc'[w] = "left" => AllInside /\ AllHomeDone
    BY <2>1, Constants DEF JointInv, SumInv
  <2>4. (AllInside => AllInside') /\ (AllHomeDone => AllHomeDone')
    BY DEF Growth, AllInside, AllHomeDone, Inside, HomeDone, WorkersOf
  <2>5. LeftInv'
    BY <2>1, <2>3, <2>4 DEF JointInv, LeftInv, LeftPlaces
  <2> QED
    BY <2>1, <2>2, <2>5, Kept DEF JointInv
<1> QED
  BY <1>2, <1>3, <1>4, <1>5, <1>6, <1>7, <1>8, <1>9 DEF WorkerStep

(* A rank's barriers.                                                      *)
LEMMA TeamJoins ==
  ASSUME TypeOK, NumCycles = 1, JointInv, Growth, NEW r \in Rank, TeamStep(r)
  PROVE  JointInv'
<1> USE DEF commVars, sendVars, sleepVars, exitVars, taskVars
<1>1. wpc \in [Worker -> WorkerPlaces]
  BY DEF TypeOK, AppTypeOK
<1>2. UNCHANGED <<loc, sleeping, sleepSet, cpc, gathers, gathered, exchanged, outSum,
                  offMap>>
  BY DEF TeamStep, LeaveBarrier, NextCycle
<1>3. /\ NoEntry
      /\ \A v \in Worker : wpc'[v] \in LeftPlaces \cup {"end"}
                             => wpc[v] \in LeftPlaces \cup {"end"}
  <2>1. CASE LeaveBarrier(r)
    BY <1>1, <2>1 DEF LeaveBarrier, NoEntry, LeftPlaces, WorkersOf
  <2>2. CASE NextCycle(r)
    BY <1>1, <2>2 DEF NextCycle, NoEntry, LeftPlaces, WorkersOf
  <2> QED
    BY <2>1, <2>2 DEF TeamStep
<1> QED
  BY <1>2, <1>3, Kept DEF JointInv

(* The communication thread, asleep and awake.                             *)
LEMMA SleepJoins ==
  ASSUME TypeOK, JointInv, Growth, NEW r \in Rank, CommSleep(r) \/ CommBegin(r)
  PROVE  JointInv'
<1> USE DEF appVars, taskVars, commVars, sendVars, sleepVars, exitVars
<1>1. /\ cpc \in [Rank -> CommPlaces] /\ sleepSet \in [Rank -> BOOLEAN]
      /\ offMap \in [Rank -> SUBSET Task]
  BY DEF TypeOK, CommTypeOK, SendTypeOK
<1>2. /\ UNCHANGED <<wpc, loc, sleeping, gathers, gathered, exchanged, outSum>>
      /\ \A q \in Rank : q # r => /\ cpc'[q] = cpc[q] /\ sleepSet'[q] = sleepSet[q]
                                  /\ offMap'[q] = offMap[q]
      /\ cpc[r] = "top" /\ cpc'[r] # "sum"
  BY <1>1 DEF CommSleep, CommBegin, CommGoto
<1>3. \/ cpc'[r] = "top" /\ sleeping[r]
      \/ /\ cpc'[r] # "top" /\ ~sleeping[r] /\ ~sleepSet'[r]
         /\ sleepSet[r] \/ offMap'[r] = offMap[r]
  BY <1>1, <1>2 DEF CommSleep, CommBegin, CommGoto
<1>4. BornInv' /\ ContribInv' /\ LeftInv' /\ SumInv'
  <2>1. NoEntry /\ \A q \in Rank : cpc'[q] = "sum" => cpc[q] = "sum"
    BY <1>2 DEF NoEntry
  <2> QED
    BY <1>2, <2>1, Kept
<1>5. AwakeInv'
  <2>1. \A q \in Rank : Inside(q)' = Inside(q)
    BY <1>2 DEF Inside
  <2>2. AllHomeDone' = AllHomeDone
    BY <1>2 DEF AllHomeDone, HomeDone
  <2> QED
    BY <1>2, <1>3, <2>1, <2>2 DEF JointInv, AwakeInv
<1>6. AwayInv'
  <2> SUFFICES ASSUME NEW t \in Task, loc[t] \in AwayPlaces
               PROVE  /\ Inside(Home(t))' /\ ~sleepSet'[Home(t)]
                      /\ t \in offMap'[Home(t)]
    BY <1>2 DEF AwayInv
  <2>1. /\ Inside(Home(t)) /\ ~sleepSet[Home(t)] /\ t \in offMap[Home(t)]
        /\ Home(t) \in Rank
    BY Constants, ConstAssumption DEF JointInv, AwayInv, Home
  <2>2. ~AllHomeDone
    BY <2>1 DEF AllHomeDone, HomeDone, AwayPlaces
  <2>3. ~sleeping[Home(t)]
    BY <2>1, <2>2 DEF JointInv, AwakeInv
  <2>4. Inside(Home(t))'
    BY <1>2, <2>1 DEF Inside
  <2> QED
    BY <1>2, <1>3, <2>1, <2>3, <2>4
<1> QED
  BY <1>4, <1>5, <1>6 DEF JointInv

(* The load exchange.                                                      *)
LEMMA PostJoins ==
  ASSUME TypeOK, CountInv, JointInv, Growth, NEW r \in Rank, PostGather(r)
  PROVE  JointInv'
<1> USE DEF appVars, taskVars, commVars, sendVars, sleepVars, exitVars
<1>1. /\ cpc \in [Rank -> CommPlaces]
      /\ gathers \in [Rank -> [Rank -> Seq(Contribution)]]
  BY DEF TypeOK, CommTypeOK
<1>2. /\ UNCHANGED <<wpc, loc, sleeping, sleepSet, offMap, gathered, exchanged, outSum>>
      /\ cpc[r] # "top" /\ cpc'[r] # "sum"
      /\ \A q \in Rank : q # r => cpc'[q] = cpc[q]
      /\ gathers' = [q \in Rank |-> [gathers[q] EXCEPT ![r] = Append(@, Sample(r))]]
  BY <1>1 DEF PostGather, CommGoto
<1>3. Inside(r) /\ SaysDone(r, Sample(r).out)
  BY <1>2, SampleSays DEF JointInv, AwakeInv
<1>4. ContribInv'
  <2>1. \A q \in Rank : /\ Inside(q)' = Inside(q)
                        /\ \A n : SaysDone(q, n) <=> SaysDone(q, n)'
    BY <1>2 DEF Inside, SaysDone, HomeDone
  <2> SUFFICES ASSUME NEW p \in Rank, NEW q \in Rank,
                      NEW i \in 1 .. Len(gathers'[p][q])
               PROVE  Inside(q) /\ SaysDone(q, gathers'[p][q][i].out)
    BY <1>2 DEF ContribInv, Inside, SaysDone, HomeDone
  <2>2. gathers[p][q] \in Seq(Contribution)
    BY <1>1
  <2>3. CASE q = r
    <3>1. gathers'[p][r] = Append(gathers[p][r], Sample(r))
      BY <1>1, <1>2
    <3>2. CASE i \in 1 .. Len(gathers[p][r])
      <4>1. gathers'[p][r][i] = gathers[p][r][i]
        BY <1>1, <3>1, <3>2
      <4> QED
        BY <2>3, <3>2, <4>1 DEF JointInv, ContribInv
    <3>3. CASE i = Len(gathers[p][r]) + 1
      BY <1>1, <1>3, <2>3, <3>1, <3>3
    <3> QED
      BY <1>1, <2>2, <2>3, <3>1, <3>2, <3>3
  <2>4. CASE q # r
    <3>1. gathers'[p][q] = gathers[p][q]
      BY <1>1, <1>2, <2>4
    <3> QED
      BY <3>1 DEF JointInv, ContribInv
  <2> QED
    BY <2>3, <2>4
<1>5. BornInv' /\ AwakeInv' /\ SumInv' /\ LeftInv' /\ AwayInv'
  <2>1. /\ NoEntry
        /\ \A q \in Rank : cpc'[q] # "top" => cpc[q] # "top"
        /\ \A q \in Rank : cpc'[q] = "sum" => cpc[q] = "sum"
    BY <1>2 DEF NoEntry
  <2> QED
    BY <1>2, <2>1, Kept
<1> QED
  BY <1>4, <1>5 DEF JointInv

(* So does reading a rank's contribution.                                  *)
LEMMA CollectJoins ==
  ASSUME TypeOK, JointInv, Growth, NEW r \in Rank, CollectGather(r)
  PROVE  JointInv'
<1> USE DEF appVars, taskVars, commVars, sendVars, sleepVars, exitVars
<1> DEFINE round == [q \in Rank |-> Head(gathers[r][q])]
<1>1. /\ cpc \in [Rank -> CommPlaces] /\ gathered \in [Rank -> Nat]
      /\ gathers \in [Rank -> [Rank -> Seq(Contribution)]]
  BY DEF TypeOK, CommTypeOK
<1>2. /\ UNCHANGED <<wpc, loc, sleeping, sleepSet, offMap, exchanged, outSum>>
      /\ cpc[r] # "top"
      /\ \A q \in Rank : q # r => cpc'[q] = cpc[q] /\ gathered'[q] = gathered[q]
      /\ gathered'[r] = TotalOut(round)
      /\ \A q \in Rank : gathers[r][q] # <<>>
      /\ gathers' = [gathers EXCEPT ![r] = [q \in Rank |-> Tail(gathers[r][q])]]
  BY <1>1 DEF CollectGather, CommGoto, AtTest
<1>3. \A q \in Rank : /\ Inside(q) /\ SaysDone(q, round[q].out)
                      /\ round[q] \in Contribution
  <2> TAKE q \in Rank
  <2>1. gathers[r][q] \in Seq(Contribution) /\ gathers[r][q] # <<>>
    BY <1>1, <1>2
  <2>2. 1 \in 1 .. Len(gathers[r][q]) /\ round[q] = gathers[r][q][1]
    BY <2>1
  <2> QED
    BY <2>1, <2>2 DEF JointInv, ContribInv
<1>4. TotalOut(round) = 0 => AllHomeDone
  BY <1>3, ZeroSum DEF SaysDone, AllHomeDone
<1>5. SumInv'
  <2>1. AllInside' /\ (AllHomeDone => AllHomeDone')
    BY <1>2, <1>3 DEF AllInside, Inside, AllHomeDone, HomeDone
  <2> QED
    BY <1>2, <1>4, <2>1 DEF JointInv, SumInv, AllInside, Inside
<1>6. ContribInv'
  <2> SUFFICES ASSUME NEW p \in Rank, NEW q \in Rank,
                      NEW i \in 1 .. Len(gathers'[p][q])
               PROVE  Inside(q) /\ SaysDone(q, gathers'[p][q][i].out)
    BY <1>2 DEF ContribInv, Inside, SaysDone, HomeDone
  <2>1. gathers[p][q] \in Seq(Contribution)
    BY <1>1
  <2>2. CASE p = r
    <3>1. gathers'[p][q] = Tail(gathers[p][q]) /\ gathers[p][q] # <<>>
      BY <1>1, <1>2, <2>2
    <3>2. i + 1 \in 1 .. Len(gathers[p][q]) /\ gathers'[p][q][i] = gathers[p][q][i + 1]
      BY <2>1, <3>1
    <3> QED
      BY <3>2 DEF JointInv, ContribInv
  <2>3. CASE p # r
    BY <1>1, <1>2, <2>3 DEF JointInv, ContribInv
  <2> QED
    BY <2>2, <2>3
<1>7. BornInv' /\ AwakeInv' /\ LeftInv' /\ AwayInv'
  <2>1. NoEntry /\ \A q \in Rank : cpc'[q] # "top" => cpc[q] # "top"
    BY <1>2 DEF NoEntry
  <2> QED
    BY <1>2, <2>1, Kept
<1> QED
  BY <1>5, <1>6, <1>7 DEF JointInv

(* So does storing a sum, or staying for another round.                    *)
LEMMA StoreJoins ==
  ASSUME TypeOK, JointInv, Growth, NEW r \in Rank, StoreSum(r) \/ CommStay(r)
  PROVE  JointInv'
<1> USE DEF appVars, taskVars, commVars, sendVars, sleepVars, exitVars
<1>1. /\ cpc \in [Rank -> CommPlaces] /\ outSum \in [Rank -> Nat]
      /\ exchanged \in [Rank -> BOOLEAN] /\ gathered \in [Rank -> Nat]
  BY DEF TypeOK, CommTypeOK, DtwTypeOK
<1>2. /\ UNCHANGED <<wpc, loc, sleeping, sleepSet, offMap, gathers>>
      /\ NoEntry
      /\ \A q \in Rank : /\ cpc'[q] # "top" => cpc[q] # "top"
                         /\ cpc'[q] = "sum" => cpc[q] = "sum" /\ q # r
  BY <1>1 DEF StoreSum, CommStay, CommGoto, NoEntry
<1>3. SumInv'
  <2>1. CASE CommStay(r)
    BY <1>2, <2>1, Kept DEF CommStay
  <2>2. CASE StoreSum(r)
    <3>1. /\ \A q \in Rank : q # r => /\ gathered'[q] = gathered[q]
                                      /\ exchanged'[q] = exchanged[q]
                                      /\ outSum'[q] = outSum[q]
          /\ outSum'[r] = gathered[r] /\ cpc[r] = "sum"
      BY <1>1, <2>2 DEF StoreSum
    <3>2. AllInside' = AllInside /\ AllHomeDone' = AllHomeDone
      BY <1>2 DEF AllInside, Inside, AllHomeDone, HomeDone
    <3> QED
      BY <1>2, <3>1, <3>2 DEF JointInv, SumInv
  <2> QED
    BY <2>1, <2>2
<1> QED
  BY <1>2, <1>3, Kept DEF JointInv

(* A communication thread is told to stop when all are inside and done.    *)
LEMMA ExitJoins ==
  ASSUME TypeOK, JointInv, Growth, NEW r \in Rank, CommExit(r)
  PROVE  JointInv' /\ AllInside /\ AllHomeDone
<1> USE DEF appVars, taskVars, commVars, sendVars, sleepVars, exitVars
<1>1. /\ cpc \in [Rank -> CommPlaces] /\ sleepSet \in [Rank -> BOOLEAN]
      /\ sleeping \in [Rank -> BOOLEAN] /\ offMap \in [Rank -> SUBSET Task]
  BY DEF TypeOK, CommTypeOK, DtwTypeOK, SendTypeOK
<1>2. AllInside /\ AllHomeDone
  BY DEF CommExit, ExitConditionMet, JointInv, SumInv
<1>3. /\ UNCHANGED <<wpc, loc, gathers, gathered, exchanged, outSum>>
      /\ NoEntry
      /\ cpc'[r] = "top" /\ sleeping'[r]
      /\ \A q \in Rank : q # r => /\ cpc'[q] = cpc[q] /\ sleeping'[q] = sleeping[q]
                                  /\ sleepSet'[q] = sleepSet[q]
  BY <1>1 DEF CommExit, CommGoto, NoEntry
<1>4. AllInside' /\ AllHomeDone'
  BY <1>2, <1>3 DEF AllInside, Inside, AllHomeDone, HomeDone
<1>5. AwakeInv'
  BY <1>3, <1>4 DEF JointInv, AwakeInv, AllInside
<1>6. AwayInv'
  <2>1. \A t \in Task : Home(t) \in Rank
    BY Constants, ConstAssumption DEF Home
  <2> QED
    BY <1>4, <2>1 DEF AwayInv, AllHomeDone, HomeDone, AwayPlaces
<1>7. BornInv' /\ ContribInv' /\ SumInv' /\ LeftInv'
  <2>1. \A q \in Rank : cpc'[q] = "sum" => cpc[q] = "sum"
    BY <1>3
  <2> QED
    BY <1>3, <2>1, Kept
<1> QED
  BY <1>2, <1>5, <1>6, <1>7 DEF JointInv

(* Messages and migration.                                                 *)
LEMMA CompleteJoins ==
  ASSUME TypeOK, CountInv, JointInv, Growth, NEW r \in Rank, Complete(r)
  PROVE  JointInv'
<1> USE DEF appVars, taskVars, commVars, sendVars, sleepVars, exitVars
<1>1. loc \in [Task -> Locations]
  BY DEF TypeOK, TaskTypeOK
<1>2. /\ UNCHANGED <<wpc, sleeping, sleepSet, cpc, gathers, gathered, exchanged,
                     outSum, offMap>>
      /\ \A t \in Task : loc'[t] \in AwayPlaces => loc[t] \in AwayPlaces
  <2>1. ASSUME NEW q \in Rank, CompleteSend(r, q) PROVE <1>2!1 /\ <1>2!2
    BY <2>1 DEF CompleteSend
  <2>2. ASSUME NEW t \in Task, CompleteSendBack(r, t) \/ CompleteBack(r, t)
        PROVE  <1>2!1 /\ <1>2!2
    BY <1>1, <2>2 DEF CompleteSendBack, CompleteBack, AwayPlaces
  <2>3. ASSUME NEW m \in offers, CompleteMeta(r, m) \/ CompleteData(r, m)
        PROVE  <1>2!1 /\ <1>2!2
    BY <1>1, <2>3 DEF CompleteMeta, CompleteData, CountInv, OfferInv, AwayPlaces
  <2> QED
    BY <2>1, <2>2, <2>3 DEF Complete
<1>3. NoEntry
  BY <1>2 DEF NoEntry
<1> QED
  BY <1>2, <1>3, Kept DEF JointInv

(* A task leaves home while its home is inside the taskwait.               *)
LEMMA MigrateJoins ==
  ASSUME TypeOK, CountInv, WithOutput = Task, JointInv, Growth,
         NEW r \in Rank, NEW q \in Rank, NEW S \in SUBSET LocalTasks(r),
         Migrate(r, q, S)
  PROVE  JointInv'
<1> USE DEF appVars, taskVars, commVars, sendVars, sleepVars, exitVars
<1>1. /\ loc \in [Task -> Locations] /\ cpc \in [Rank -> CommPlaces]
      /\ offMap \in [Rank -> SUBSET Task]
  BY DEF TypeOK, TaskTypeOK, CommTypeOK, SendTypeOK
<1>2. /\ UNCHANGED <<wpc, sleeping, sleepSet, gathers, gathered, exchanged, outSum>>
      /\ NoEntry /\ cpc[r] # "top" /\ cpc' = [cpc EXCEPT ![r] = "poll"]
      /\ offMap' = [offMap EXCEPT ![r] = @ \cup S]
      /\ loc' = [t \in Task |-> IF t \in S THEN "offer" ELSE loc[t]]
  <2>1. S \cap WithOutput = S
    BY DEF LocalTasks, TasksAt
  <2> QED
    BY <2>1 DEF Migrate, AtMigrate, AtTest, CommGoto, NoEntry
<1>3. \A t \in S : t \in Task /\ Home(t) = r
  BY DEF LocalTasks, TasksAt, CountInv, HostInv
<1>4. AwayInv'
  <2> SUFFICES ASSUME NEW t \in Task, loc'[t] \in AwayPlaces
               PROVE  /\ Inside(Home(t)) /\ ~sleepSet[Home(t)]
                      /\ t \in offMap'[Home(t)]
    BY <1>2 DEF AwayInv, Inside
  <2>1. CASE t \in S
    BY <1>1, <1>2, <1>3, <2>1 DEF JointInv, AwakeInv
  <2>2. CASE t \notin S
    <3>1. Home(t) \in Rank
      BY Constants, ConstAssumption DEF Home
    <3> QED
      BY <1>1, <1>2, <2>2, <3>1 DEF JointInv, AwayInv
  <2> QED
    BY <2>1, <2>2
<1>5. BornInv' /\ AwakeInv' /\ ContribInv' /\ SumInv' /\ LeftInv'
  <2>1. \A p \in Rank : /\ cpc'[p] # "top" => cpc[p] # "top"
                        /\ cpc'[p] = "sum" => cpc[p] = "sum"
    BY <1>1, <1>2
  <2> QED
    BY <1>2, <2>1, Kept
<1> QED
  BY <1>4, <1>5 DEF JointInv

(* A result comes back while its home is inside the taskwait.              *)
LEMMA PollJoins ==
  ASSUME TypeOK, JointInv, Growth,
         NEW r \in Rank, NEW B \in SUBSET SendBack(r), NEW M \in SUBSET offers,
         NEW S \in SUBSET OnWire(r), Poll(r, B, M, S)
  PROVE  JointInv'
<1> USE DEF appVars, taskVars, commVars, sendVars, sleepVars, exitVars
<1>1. cpc \in [Rank -> CommPlaces]
  BY DEF TypeOK, CommTypeOK
<1>2. UNCHANGED <<wpc, sleeping, sleepSet, gathers, gathered, exchanged, outSum, offMap>>
  BY DEF Poll
<1>3. \A p \in Rank : /\ cpc'[p] # "top" => cpc[p] # "top"
                      /\ cpc'[p] = "sum" => cpc[p] = "sum"
  BY <1>1 DEF Poll, CommGoto, AtPoll, AtMigrate, AtTest
<1>4. \A t \in Task : loc'[t] \in AwayPlaces => loc[t] \in AwayPlaces
  BY DEF Poll, SendBack, TasksAt, OnWire, AwayPlaces
<1>5. NoEntry
  BY <1>2 DEF NoEntry
<1> QED
  BY <1>2, <1>3, <1>4, <1>5, Kept DEF JointInv

(* Every step keeps the joint invariant.                                   *)
LEMMA StepJoins ==
  ASSUME TypeOK, CountInv, WithOutput = Task, NumCycles = 1, OneThreadEach,
         JointInv, [Next]_vars
  PROVE  JointInv'
<1>1. Growth
  BY StepsGrow
<1>2. ASSUME NEW w \in Worker, WorkerStep(w) PROVE JointInv'
  BY <1>1, <1>2, ThreadJoins
<1>3. ASSUME NEW r \in Rank, TeamStep(r) PROVE JointInv'
  BY <1>1, <1>3, TeamJoins
<1>4. ASSUME NEW r \in Rank, CommStep(r) PROVE JointInv'
  <2>1. CASE CommSleep(r) \/ CommBegin(r)
    BY <1>1, <2>1, SleepJoins
  <2>2. CASE Complete(r)
    BY <1>1, <2>2, CompleteJoins
  <2>3. CASE PostGather(r)
    BY <1>1, <2>3, PostJoins
  <2>4. CASE CollectGather(r)
    BY <1>1, <2>4, CollectJoins
  <2>5. CASE StoreSum(r) \/ CommStay(r)
    BY <1>1, <2>5, StoreJoins
  <2>6. CASE CommExit(r)
    BY <1>1, <2>6, ExitJoins
  <2>7. ASSUME NEW q \in Rank, NEW S \in SUBSET LocalTasks(r), Migrate(r, q, S)
        PROVE  JointInv'
    BY <1>1, <2>7, MigrateJoins
  <2>8. ASSUME NEW B \in SUBSET SendBack(r), NEW M \in SUBSET offers,
               NEW S \in SUBSET OnWire(r), Poll(r, B, M, S)
        PROVE  JointInv'
    BY <1>1, <2>8, PollJoins
  <2> QED
    BY <1>4, <2>1, <2>2, <2>3, <2>4, <2>5, <2>6, <2>7, <2>8 DEF CommStep, Polls
<1>5. CASE UNCHANGED vars
  <2>1. NoEntry
    BY <1>5 DEF vars, appVars, NoEntry
  <2> QED
    BY <1>1, <1>5, <2>1, Kept
    DEF vars, appVars, taskVars, exitVars, sleepVars, sendVars, commVars, JointInv
<1> QED
  BY <1>2, <1>3, <1>4, <1>5 DEF Next, Finished

(* In one taskwait of single threads, it always holds.                     *)
LEMMA JointInvariant ==
  ASSUME WithOutput = Task, NumCycles = 1, OneThreadEach
  PROVE  Spec => []JointInv
<1>1. Init => JointInv
  <2> SUFFICES ASSUME Init PROVE JointInv
    OBVIOUS
  <2>1. \A r \in Rank : ~Inside(r)
    BY ConstAssumption DEF Init, Inside, WorkersOf
  <2>2. BornInv /\ AwakeInv /\ LeftInv /\ AwayInv
    BY <2>1, ConstAssumption
    DEF Init, BornInv, AwakeInv, LeftInv, LeftPlaces, AwayInv, AwayPlaces
  <2>3. ContribInv /\ SumInv
    BY DEF Init, ContribInv, SumInv
  <2> QED
    BY <2>2, <2>3 DEF JointInv
<1>2. TypeOK /\ CountInv /\ JointInv /\ [Next]_vars => JointInv'
  BY StepJoins
<1> QED
  BY <1>1, <1>2, TypeCorrect, CountInvariant, PTL DEF Spec

(* What a thread that left, or is about to, knows.                         *)
LEMMA InsideAll ==
  ASSUME TypeOK, NumCycles = 1, AllInside, AllHomeDone, NEW w \in Worker
  PROVE  /\ \A v \in Worker : cycle[v] = cycle[w] /\ wpc[v] # "work"
         /\ \A t \in Task : loc[t] = "done"
<1>1. \A v \in Worker : cycle[v] = 1
  BY DEF TypeOK, AppTypeOK
<1>2. \A v \in Worker : wpc[v] # "work"
  BY Constants DEF AllInside, Inside, WorkersOf
<1>3. \A t \in Task : loc[t] = "done"
  BY Constants, ConstAssumption DEF AllHomeDone, HomeDone, Home
<1> QED
  BY <1>1, <1>2, <1>3

(* In one taskwait of teams of one thread, with any number of ranks and    *)
(* tasks that migrate as they like, a thread leaves                        *)
(* chameleon_distributed_taskwait only when every thread of every rank     *)
(* entered it and every task is finished, although the zeros it acts on    *)
(* are of different moments on different ranks.                            *)
THEOREM LeavesWhenDone ==
  ASSUME WithOutput = Task, NumCycles = 1, OneThreadEach
  PROVE  Spec => []NoEarlyLeave
<1>1. TypeOK /\ JointInv => NoEarlyLeave
  <2> SUFFICES ASSUME TypeOK, JointInv, NEW w \in Worker, Left(w)
               PROVE  /\ \A v \in Worker : cycle[v] = cycle[w] /\ wpc[v] # "work"
                      /\ \A t \in Task : loc[t] = "done"
    BY DEF NoEarlyLeave
  <2>1. AllInside /\ AllHomeDone
    BY DEF JointInv, LeftInv, Left
  <2> QED
    BY <2>1, InsideAll
<1> QED
  BY <1>1, TypeCorrect, JointInvariant, PTL

(* There too the result of an offloaded task finds its entry in            *)
(* _map_offloaded_tasks_with_outputs: the map is emptied at the start, at  *)
(* the stop and in the sleep of the communication thread's service, never  *)
(* while a task of the rank is away.                                       *)
THEOREM ResultsFindEntry ==
  ASSUME WithOutput = Task, NumCycles = 1, OneThreadEach
  PROVE  Spec => []ResultHasEntry
<1>1. JointInv => ResultHasEntry
  BY DEF JointInv, AwayInv, AwayPlaces, ResultHasEntry
<1> QED
  BY <1>1, JointInvariant, PTL

(* There too the communication thread's service stops only when all global *)
(* work is done.                                                           *)
THEOREM StopsOnlyWhenDone ==
  ASSUME WithOutput = Task, NumCycles = 1, OneThreadEach
  PROVE  Spec => StopsWhenDone
<1>1. ASSUME TypeOK, JointInv, [Next]_vars, NEW r \in Rank, stopped'[r], ~stopped[r]
      PROVE  AllWorkDone
  <2> USE DEF appVars, taskVars, commVars, sendVars, sleepVars
  <2>1. stopped \in [Rank -> BOOLEAN]
    BY <1>1 DEF TypeOK, DtwTypeOK
  <2>2. ASSUME NEW w \in Worker, WorkerStep(w) PROVE FALSE
    <3>1. UNCHANGED stopped \/ SeeStopped(w)
      BY <2>2 DEF WorkerStep, AddTask, EnterTaskwait, LookForStolen, LookForLocal,
                  LookAt, PopStolen, PopLocal, Pop, NoStolen, RunStolen, RunLocal,
                  StopIdling, BeIdle, CheckIdle, CheckRanks, CheckSum,
                  PutCommToSleep, Teardown
    <3> QED
      BY <1>1, <2>1, <3>1 DEF SeeStopped
  <2>3. ASSUME NEW q \in Rank, TeamStep(q) PROVE FALSE
    BY <1>1, <2>3 DEF TeamStep, LeaveBarrier, NextCycle
  <2>4. ASSUME NEW q \in Rank, CommStep(q) PROVE CommExit(q)
    <3>1. UNCHANGED stopped \/ CommExit(q)
      BY <2>4 DEF CommStep, CommSleep, CommBegin, Complete, CompleteSend,
                  CompleteSendBack, CompleteBack, CompleteMeta, CompleteData,
                  PostGather, CollectGather, StoreSum, CommStay, Migrate, Polls, Poll
    <3> QED
      BY <1>1, <3>1
  <2>5. PICK q \in Rank : CommExit(q)
    <3>1. ASSUME UNCHANGED vars PROVE FALSE
      BY <1>1, <3>1 DEF vars
    <3> QED
      BY <1>1, <2>2, <2>3, <2>4, <3>1 DEF Next, Finished
  <2>6. AllInside /\ AllHomeDone
    BY <1>1, <2>5 DEF CommExit, ExitConditionMet, JointInv, SumInv
  <2>7. PICK w \in Worker : TRUE
    BY ConstAssumption DEF WorkersOf
  <2> QED
    BY <1>1, <2>6, <2>7, InsideAll DEF AllWorkDone
<1>2. TypeOK /\ CountInv /\ JointInv /\ [Next]_vars
        => [\A r \in Rank : stopped'[r] /\ ~stopped[r] => AllWorkDone]_vars
  BY <1>1
<1> QED
  BY <1>2, TypeCorrect, CountInvariant, JointInvariant, PTL DEF Spec, StopsWhenDone

-----------------------------------------------------------------------------
(***************************************************************************)
(* The refinement of DistributedTaskwait.                                  *)
(***************************************************************************)
PTask  == [t \in Task |-> IF loc[t] \in {"new", "done"} THEN loc[t] ELSE "open"]
PPlace == [w \in Worker |-> IF wpc[w] = "work" THEN "out"
                            ELSE IF InLoop(w) THEN "in" ELSE "left"]

(* A step the promise does not see: a task stays new, open or done, a      *)
(* thread stays out, in or past the loop.                                  *)
SameTasks   == \A t \in Task : \/ loc'[t] = loc[t]
                               \/ loc[t] \notin {"new", "done"} /\ loc'[t] \notin {"new", "done"}
SameThreads == /\ UNCHANGED cycle
               /\ \A w \in Worker : \/ wpc'[w] = wpc[w]
                                    \/ wpc[w] \in LoopPlaces /\ wpc'[w] \in LoopPlaces
                                    \/ /\ wpc[w] \notin LoopPlaces \cup {"work"}
                                       /\ wpc'[w] \notin LoopPlaces \cup {"work"}

(* What the promise sees of tasks and threads.                             *)
LEMMA Unseen ==
  /\ SameTasks => PTask' = PTask
  /\ SameThreads => PPlace' = PPlace
<1>1. ASSUME SameTasks PROVE PTask' = PTask
  BY <1>1 DEF SameTasks, PTask
<1>2. ASSUME SameThreads PROVE PPlace' = PPlace
  <2>1. \A w \in Worker : PPlace'[w] = PPlace[w]
    BY <1>2 DEF SameThreads, PPlace, InLoop, LoopPlaces
  <2> QED
    BY <2>1 DEF PPlace
<1> QED
  BY <1>1, <1>2

(* A step that changes neither is no step of the promise.                  *)
LEMMA UnseenStep ==
  ASSUME SameTasks, SameThreads
  PROVE  UNCHANGED Promise!tvars
BY Unseen DEF SameThreads, PTask, PPlace, Promise!tvars

(* Steps of threads are steps of the promise.                              *)
LEMMA ThreadPromises ==
  ASSUME TypeOK, CountInv, JointInv, NumCycles = 1, WithOutput = Task,
         NEW w \in Worker, WorkerStep(w)
  PROVE  Promise!ANext \/ UNCHANGED Promise!tvars
<1> USE DEF appVars, taskVars
<1>1. /\ wpc \in [Worker -> WorkerPlaces] /\ loc \in [Task -> Locations]
      /\ cycle[w] = 1
  BY DEF TypeOK, AppTypeOK, TaskTypeOK
<1>2. ASSUME NEW t \in Task, AddTask(w, t) PROVE Promise!ANext
  <2>1. /\ wpc[w] = "work" /\ CycleOf[t] = cycle[w] /\ loc[t] = "new"
        /\ loc' = [loc EXCEPT ![t] = "local"] /\ UNCHANGED <<wpc, cycle>>
    BY <1>2 DEF AddTask
  <2>2. PTask' = [PTask EXCEPT ![t] = "open"] /\ PTask[t] = "new"
    BY <1>1, <2>1 DEF PTask
  <2>3. PPlace' = PPlace /\ PPlace[w] = "out"
    BY <2>1 DEF PPlace, InLoop
  <2>4. Promise!Create(w, t)
    BY <2>1, <2>2, <2>3 DEF Promise!Create, PTask, PPlace
  <2> QED
    BY <2>4 DEF Promise!ANext
<1>3. CASE EnterTaskwait(w)
  <2>1. /\ wpc[w] = "work" /\ wpc' = [wpc EXCEPT ![w] = "stolen"]
        /\ UNCHANGED <<loc, cycle>>
    BY <1>3 DEF EnterTaskwait, Goto
  <2>2. PPlace' = [PPlace EXCEPT ![w] = "in"] /\ PPlace[w] = "out"
    BY <1>1, <2>1 DEF PPlace, InLoop, LoopPlaces
  <2>3. PTask' = PTask
    BY <2>1 DEF PTask
  <2>4. Promise!Enter(w)
    BY <2>1, <2>2, <2>3 DEF Promise!Enter, PTask, PPlace
  <2> QED
    BY <2>4 DEF Promise!ANext
<1>4. CASE \/ LookForStolen(w) \/ LookForLocal(w) \/ NoStolen(w) \/ StopIdling(w)
           \/ BeIdle(w) \/ CheckIdle(w) \/ CheckRanks(w)
  <2>1. SameThreads /\ SameTasks
    BY <1>1, <1>4
    DEF LookForStolen, LookForLocal, LookAt, NoStolen, StopIdling, BeIdle,
        CheckIdle, CheckRanks, Goto, SameThreads, SameTasks, LoopPlaces
  <2> QED
    BY <2>1, UnseenStep
<1>5. CASE PopStolen(w) \/ PopLocal(w)
  <2>1. SameThreads /\ SameTasks
    BY <1>1, <1>5 DEF PopStolen, PopLocal, Pop, StolenTasks, LocalTasks, TasksAt,
                      Goto, SameThreads, SameTasks, LoopPlaces
  <2> QED
    BY <2>1, UnseenStep
<1>6. CASE RunStolen(w)
  <2>1. SameThreads /\ SameTasks
    BY <1>1, <1>6 DEF RunStolen, CountInv, RunInv, RunPlaces, Goto, SameThreads,
                      SameTasks, LoopPlaces
  <2> QED
    BY <2>1, UnseenStep
<1>7. CASE RunLocal(w)
  <2>1. PICK t \in Task : loc[t] = "running" /\ loc' = [loc EXCEPT ![t] = "done"]
    BY <1>7 DEF RunLocal, CountInv, RunInv, RunPlaces
  <2>2. SameThreads
    BY <1>1, <1>7 DEF RunLocal, Goto, SameThreads, LoopPlaces
  <2>3. PTask' = [PTask EXCEPT ![t] = "done"] /\ PTask[t] = "open"
    BY <1>1, <2>1 DEF PTask
  <2>4. Promise!Finish(t)
    BY <2>2, <2>3, Unseen DEF Promise!Finish, PTask, PPlace, SameThreads
  <2> QED
    BY <2>1, <2>4 DEF Promise!ANext
<1>8. CASE PutCommToSleep(w) \/ SeeStopped(w) \/ Teardown(w)
  <2>1. SameThreads /\ SameTasks
    BY <1>1, <1>8 DEF PutCommToSleep, SeeStopped, Teardown, Goto, SameThreads,
                      SameTasks, LoopPlaces
  <2> QED
    BY <2>1, UnseenStep
<1>9. CASE CheckSum(w)
  <2>1. /\ wpc[w] = "checkSum" /\ UNCHANGED <<loc, cycle>>
        /\ \/ wpc' = [wpc EXCEPT ![w] = "stolen"]
           \/ /\ wpc' = [wpc EXCEPT ![w] = "left"]
              /\ exchanged[RankOf(w)] /\ outSum[RankOf(w)] = 0
    BY <1>9 DEF CheckSum, Goto
  <2>2. CASE wpc' = [wpc EXCEPT ![w] = "stolen"]
    <3>1. SameThreads /\ SameTasks
      BY <1>1, <2>1, <2>2 DEF SameThreads, SameTasks, LoopPlaces
    <3> QED
      BY <3>1, UnseenStep
  <2>3. CASE /\ wpc' = [wpc EXCEPT ![w] = "left"]
             /\ exchanged[RankOf(w)] /\ outSum[RankOf(w)] = 0
    <3>1. /\ \A v \in Worker : cycle[v] = cycle[w] /\ wpc[v] # "work"
          /\ \A t \in Task : loc[t] = "done"
      BY <2>3, Constants, InsideAll DEF JointInv, SumInv
    <3>2. PPlace' = [PPlace EXCEPT ![w] = "left"] /\ PPlace[w] = "in"
      BY <1>1, <2>1, <2>3 DEF PPlace, InLoop, LoopPlaces
    <3>3. \A v \in Worker : PPlace[v] # "out"
      BY <3>1 DEF PPlace
    <3>4. PTask' = PTask /\ \A t \in Task : PTask[t] = "done"
      BY <2>1, <3>1 DEF PTask
    <3>5. Promise!AllDone(w)
      BY <3>1, <3>3, <3>4 DEF Promise!AllDone, PTask, PPlace
    <3>6. Promise!Leave(w)
      BY <2>1, <3>2, <3>4, <3>5 DEF Promise!Leave, PTask, PPlace
    <3> QED
      BY <3>6 DEF Promise!ANext
  <2> QED
    BY <2>1, <2>2, <2>3
<1> QED
  BY <1>2, <1>3, <1>4, <1>5, <1>6, <1>7, <1>8, <1>9 DEF WorkerStep

(* So are those of teams and communication threads.                        *)
LEMMA RankPromises ==
  ASSUME TypeOK, CountInv, NumCycles = 1, NEW r \in Rank, TeamStep(r) \/ CommStep(r)
  PROVE  Promise!ANext \/ UNCHANGED Promise!tvars
<1> USE DEF appVars, taskVars
<1>1. wpc \in [Worker -> WorkerPlaces] /\ loc \in [Task -> Locations]
  BY DEF TypeOK, AppTypeOK, TaskTypeOK
<1>2. CASE TeamStep(r)
  <2>1. cycle \in [Worker -> 1 .. 1]
    BY DEF TypeOK, AppTypeOK
  <2>2. SameThreads /\ SameTasks
    BY <1>1, <1>2, <2>1 DEF TeamStep, LeaveBarrier, NextCycle, SameThreads,
                            SameTasks, LoopPlaces, WorkersOf
  <2> QED
    BY <2>2, UnseenStep
<1>3. CASE CommStep(r)
  <2>1. SameThreads
    BY <1>3 DEF CommStep, CommSleep, CommBegin, Complete, CompleteSend,
                CompleteSendBack, CompleteBack, CompleteMeta, CompleteData,
                PostGather, CollectGather, StoreSum, CommExit, CommStay, Migrate,
                Polls, Poll, SameThreads
  <2>2. ASSUME NEW t \in Task, CompleteBack(r, t) PROVE Promise!ANext
    <3>1. loc[t] = "backRecv" /\ loc' = [loc EXCEPT ![t] = "done"]
      BY <2>2 DEF CompleteBack
    <3>2. PTask' = [PTask EXCEPT ![t] = "done"] /\ PTask[t] = "open"
      BY <1>1, <3>1 DEF PTask
    <3>3. Promise!Finish(t)
      BY <2>1, <3>2, Unseen DEF Promise!Finish, PTask, PPlace, SameThreads
    <3> QED
      BY <3>3 DEF Promise!ANext
  <2>3. ASSUME \A t \in Task : ~CompleteBack(r, t) PROVE SameTasks
    <3>1. CASE Complete(r)
      BY <1>1, <2>3, <3>1
      DEF Complete, CompleteSend, CompleteSendBack, CompleteMeta, CompleteData,
          CountInv, OfferInv, SameTasks
    <3>2. ASSUME NEW q \in Rank, NEW S \in SUBSET LocalTasks(r), Migrate(r, q, S)
          PROVE  SameTasks
      BY <1>1, <3>2 DEF Migrate, LocalTasks, TasksAt, SameTasks
    <3>3. CASE Polls(r)
      BY <1>1, <3>3 DEF Polls, Poll, SendBack, TasksAt, OnWire, SameTasks
    <3>4. CASE \/ CommSleep(r) \/ CommBegin(r) \/ PostGather(r) \/ CollectGather(r)
               \/ StoreSum(r) \/ CommExit(r) \/ CommStay(r)
      BY <3>4 DEF CommSleep, CommBegin, PostGather, CollectGather, StoreSum,
                  CommExit, CommStay, SameTasks
    <3> QED
      BY <1>3, <3>1, <3>2, <3>3, <3>4 DEF CommStep
  <2> QED
    BY <2>1, <2>2, <2>3, UnseenStep
<1> QED
  BY <1>2, <1>3

(* There too the runtime implements the promise of DistributedTaskwait:    *)
(* whatever the ranks, threads and messages do is, seen from outside, a    *)
(* task created or finished, or a thread that enters, or leaves when all   *)
(* work is done.                                                           *)
THEOREM ImplementsTaskwait ==
  ASSUME WithOutput = Task, NumCycles = 1, OneThreadEach
  PROVE  Spec => KeepsPromise
<1>1. Init => Promise!AInit
  BY DEF Init, Promise!AInit
<1>2. ASSUME TypeOK, CountInv, JointInv, [Next]_vars
      PROVE  [Promise!ANext]_Promise!tvars
  <2>1. ASSUME NEW w \in Worker, WorkerStep(w)
        PROVE  Promise!ANext \/ UNCHANGED Promise!tvars
    BY <1>2, <2>1, ThreadPromises
  <2>2. ASSUME NEW r \in Rank, TeamStep(r) \/ CommStep(r)
        PROVE  Promise!ANext \/ UNCHANGED Promise!tvars
    BY <1>2, <2>2, RankPromises
  <2>3. CASE UNCHANGED vars
    <3>1. SameTasks /\ SameThreads
      BY <2>3 DEF vars, appVars, taskVars, SameTasks, SameThreads
    <3> QED
      BY <3>1, UnseenStep
  <2> QED
    BY <1>2, <2>1, <2>2, <2>3 DEF Next, Finished
<1>3. TypeOK /\ CountInv /\ JointInv /\ [Next]_vars => [Promise!ANext]_Promise!tvars
  BY <1>2
<1> QED
  BY <1>1, <1>3, TypeCorrect, CountInvariant, JointInvariant, PTL
  DEF Spec, KeepsPromise, Promise!ASpec
=============================================================================
