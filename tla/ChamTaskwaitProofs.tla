------------------------ MODULE ChamTaskwaitProofs ------------------------
(***************************************************************************)
(* Theorems about ChamTaskwait, for every value of its constants.          *)
(***************************************************************************)
EXTENDS ChamTaskwait, FiniteSetTheorems, TLAPS

(* The constants, as the proofs use them.                                  *)
LEMMA Constants ==
  /\ \A w \in Worker : RankOf(w) \in Rank
  /\ NumCycles \in Nat /\ IntMax \in Nat
BY ConstAssumption

(* The sums of a load exchange are naturals.                               *)
LEMMA SumsAreNat ==
  ASSUME NEW s \in [Rank -> Contribution]
  PROVE  BusyRanks(s) \in Nat /\ TotalOut(s) \in Nat
<1>1. IsFiniteSet(Rank) /\ IsFiniteSet(1 .. IntMax)
  BY FS_Interval, ConstAssumption
<1>2. IsFiniteSet(Rank \X (1 .. IntMax))
  BY <1>1, FS_Product
<1>3. IsFiniteSet({x \in Rank \X (1 .. IntMax) : x[2] <= s[x[1]].out})
  BY <1>2, FS_Subset
<1>4. IsFiniteSet({q \in Rank : s[q].busy = 1})
  BY <1>1, FS_Subset
<1> QED
  BY <1>3, <1>4, FS_CardinalityType DEF BusyRanks, TotalOut

(* A group of variables that a step leaves alone keeps its types.          *)
LEMMA Frames ==
  /\ AppTypeOK /\ UNCHANGED appVars => AppTypeOK'
  /\ TaskTypeOK /\ UNCHANGED taskVars => TaskTypeOK'
  /\ DtwTypeOK /\ UNCHANGED <<numIdle, dtwVars, exitVars, sleepVars>> => DtwTypeOK'
  /\ CommTypeOK /\ UNCHANGED commVars => CommTypeOK'
  /\ SendTypeOK /\ UNCHANGED sendVars => SendTypeOK'
BY DEF appVars, taskVars, dtwVars, exitVars, sleepVars, commVars, sendVars,
       AppTypeOK, TaskTypeOK, DtwTypeOK, CommTypeOK, SendTypeOK

(* Every step of a worker preserves the types.                             *)
LEMMA WorkerStepTypes ==
  ASSUME TypeOK, NEW w \in Worker, WorkerStep(w)
  PROVE  TypeOK'
<1> USE DEF appVars, taskVars, dtwVars, exitVars,
           sleepVars, commVars, sendVars
<1>1. ASSUME NEW t \in Task, AddTask(w, t) PROVE TypeOK'
  <2>1. TaskTypeOK'
    BY <1>1, Constants DEF AddTask, TaskTypeOK, TypeOK, Locations
  <2> QED
    BY <2>1, <1>1, Frames DEF AddTask, TypeOK
<1>2. CASE EnterTaskwait(w)
  <2>1. AppTypeOK'
    BY <1>2
    DEF EnterTaskwait, Goto, AppTypeOK, TypeOK, WorkerPlaces, LoopPlaces,
        LeftPlaces
  <2>2. DtwTypeOK'
    <3>1. numIdle' \in [Rank -> Int]
      BY <1>2 DEF EnterTaskwait, DtwTypeOK, TypeOK
    <3>2. dtwActive' \in [Rank -> BOOLEAN]
      BY <1>2 DEF EnterTaskwait, DtwTypeOK, TypeOK
    <3>3. finished' \in [Rank -> Nat]
      BY <1>2 DEF EnterTaskwait, DtwTypeOK, TypeOK
    <3>4. exchanged' \in [Rank -> BOOLEAN]
      BY <1>2 DEF EnterTaskwait, DtwTypeOK, TypeOK
    <3>5. sleeping' \in [Rank -> BOOLEAN]
      BY <1>2 DEF EnterTaskwait, DtwTypeOK, TypeOK
    <3>6. UNCHANGED <<endedCount, ranksBusy, outSum, stopped>>
      BY <1>2 DEF EnterTaskwait, DtwTypeOK, TypeOK
    <3> QED
      BY <3>1, <3>2, <3>3, <3>4, <3>5, <3>6 DEF DtwTypeOK, TypeOK
  <2> QED
    BY <2>1, <2>2, <1>2, Frames DEF EnterTaskwait, TypeOK
<1>3. CASE LookForStolen(w)
  <2>1. AppTypeOK'
    BY <1>3
    DEF LookForStolen, LookAt, Goto, AppTypeOK, TypeOK, WorkerPlaces,
        LoopPlaces, LeftPlaces
  <2> QED
    BY <2>1, <1>3, Frames DEF LookForStolen, LookAt, TypeOK
<1>4. CASE PopStolen(w)
  <2>1. AppTypeOK'
    BY <1>4
    DEF PopStolen, Pop, StolenTasks, TasksAt, Goto, AppTypeOK, TypeOK,
        WorkerPlaces, LoopPlaces, LeftPlaces
  <2>2. TaskTypeOK'
    BY <1>4
    DEF PopStolen, Pop, StolenTasks, TasksAt, TaskTypeOK, TypeOK, Locations
  <2> QED
    BY <2>1, <2>2, <1>4, Frames DEF PopStolen, Pop, StolenTasks, TasksAt, TypeOK
<1>5. CASE NoStolen(w)
  <2>1. AppTypeOK'
    BY <1>5
    DEF NoStolen, Goto, AppTypeOK, TypeOK, WorkerPlaces, LoopPlaces, LeftPlaces
  <2> QED
    BY <2>1, <1>5, Frames DEF NoStolen, TypeOK
<1>6. CASE RunStolen(w)
  <2>1. AppTypeOK'
    BY <1>6
    DEF RunStolen, Goto, AppTypeOK, TypeOK, WorkerPlaces, LoopPlaces, LeftPlaces
  <2>2. TaskTypeOK'
    BY <1>6 DEF RunStolen, TaskTypeOK, TypeOK, Locations
  <2> QED
    BY <2>1, <2>2, <1>6, Frames DEF RunStolen, TypeOK
<1>7. CASE LookForLocal(w)
  <2>1. AppTypeOK'
    BY <1>7
    DEF LookForLocal, LookAt, Goto, AppTypeOK, TypeOK, WorkerPlaces, LoopPlaces,
        LeftPlaces
  <2> QED
    BY <2>1, <1>7, Frames DEF LookForLocal, LookAt, TypeOK
<1>8. CASE PopLocal(w)
  <2>1. AppTypeOK'
    BY <1>8
    DEF PopLocal, Pop, LocalTasks, TasksAt, Goto, AppTypeOK, TypeOK,
        WorkerPlaces, LoopPlaces, LeftPlaces
  <2>2. TaskTypeOK'
    BY <1>8
    DEF PopLocal, Pop, LocalTasks, TasksAt, TaskTypeOK, TypeOK, Locations
  <2> QED
    BY <2>1, <2>2, <1>8, Frames DEF PopLocal, Pop, LocalTasks, TasksAt, TypeOK
<1>9. CASE RunLocal(w)
  <2>1. AppTypeOK'
    BY <1>9
    DEF RunLocal, Goto, AppTypeOK, TypeOK, WorkerPlaces, LoopPlaces, LeftPlaces
  <2>2. TaskTypeOK'
    <3>1. loc' \in [Task -> Locations]
      BY <1>9 DEF RunLocal, TaskTypeOK, TypeOK, Locations
    <3>2. localOut' \in [Rank -> Int]
      BY <1>9, Constants DEF RunLocal, TaskTypeOK, TypeOK
    <3>3. UNCHANGED <<host, remoteOut>>
      BY <1>9 DEF RunLocal
    <3> QED
      BY <3>1, <3>2, <3>3 DEF TaskTypeOK, TypeOK
  <2> QED
    BY <2>1, <2>2, <1>9, Frames DEF RunLocal, TypeOK
<1>10. CASE BeIdle(w)
  <2>1. AppTypeOK'
    BY <1>10
    DEF BeIdle, Goto, AppTypeOK, TypeOK, WorkerPlaces, LoopPlaces, LeftPlaces
  <2>2. DtwTypeOK'
    BY <1>10, Constants DEF BeIdle, DtwTypeOK, TypeOK
  <2> QED
    BY <2>1, <2>2, <1>10, Frames DEF BeIdle, TypeOK
<1>11. CASE CheckIdle(w)
  <2>1. AppTypeOK'
    BY <1>11
    DEF CheckIdle, Goto, AppTypeOK, TypeOK, WorkerPlaces, LoopPlaces, LeftPlaces
  <2> QED
    BY <2>1, <1>11, Frames DEF CheckIdle, TypeOK
<1>12. CASE CheckRanks(w)
  <2>1. AppTypeOK'
    BY <1>12
    DEF CheckRanks, Goto, AppTypeOK, TypeOK, WorkerPlaces, LoopPlaces,
        LeftPlaces
  <2> QED
    BY <2>1, <1>12, Frames DEF CheckRanks, TypeOK
<1>13. CASE CheckSum(w)
  <2>1. AppTypeOK'
    BY <1>13
    DEF CheckSum, Goto, AppTypeOK, TypeOK, WorkerPlaces, LoopPlaces, LeftPlaces
  <2> QED
    BY <2>1, <1>13, Frames DEF CheckSum, TypeOK
<1>14. CASE PutCommToSleep(w)
  <2>1. AppTypeOK'
    BY <1>14
    DEF PutCommToSleep, Goto, AppTypeOK, TypeOK, WorkerPlaces, LoopPlaces,
        LeftPlaces
  <2>2. DtwTypeOK'
    <3>1. endedCount' \in [Rank -> Nat]
      BY <1>14, Constants DEF PutCommToSleep, DtwTypeOK, TypeOK
    <3>2. sleeping' \in [Rank -> BOOLEAN]
      BY <1>14 DEF PutCommToSleep, DtwTypeOK, TypeOK
    <3>3. UNCHANGED <<numIdle, dtwActive, finished, ranksBusy, outSum,
                    exchanged, stopped>>
      BY <1>14 DEF PutCommToSleep, DtwTypeOK, TypeOK
    <3> QED
      BY <3>1, <3>2, <3>3 DEF DtwTypeOK, TypeOK
  <2> QED
    BY <2>1, <2>2, <1>14, Frames DEF PutCommToSleep, TypeOK
<1>15. CASE SeeStopped(w)
  <2>1. AppTypeOK'
    BY <1>15
    DEF SeeStopped, Goto, AppTypeOK, TypeOK, WorkerPlaces, LoopPlaces,
        LeftPlaces
  <2>2. DtwTypeOK'
    BY <1>15 DEF SeeStopped, DtwTypeOK, TypeOK
  <2> QED
    BY <2>1, <2>2, <1>15, Frames DEF SeeStopped, TypeOK
<1>16. CASE Teardown(w)
  <2>1. AppTypeOK'
    BY <1>16
    DEF Teardown, Goto, AppTypeOK, TypeOK, WorkerPlaces, LoopPlaces, LeftPlaces
  <2>2. DtwTypeOK'
    <3>1. numIdle' \in [Rank -> Int]
      BY <1>16 DEF Teardown, DtwTypeOK, TypeOK
    <3>2. dtwActive' \in [Rank -> BOOLEAN]
      BY <1>16 DEF Teardown, DtwTypeOK, TypeOK
    <3>3. finished' \in [Rank -> Nat]
      BY <1>16, Constants DEF Teardown, DtwTypeOK, TypeOK
    <3>4. ranksBusy' \in [Rank -> Nat]
      BY <1>16, Constants DEF Teardown, DtwTypeOK, TypeOK
    <3>5. exchanged' \in [Rank -> BOOLEAN]
      BY <1>16 DEF Teardown, DtwTypeOK, TypeOK
    <3>6. UNCHANGED <<endedCount, outSum, sleeping, stopped>>
      BY <1>16 DEF Teardown, DtwTypeOK, TypeOK
    <3> QED
      BY <3>1, <3>2, <3>3, <3>4, <3>5, <3>6 DEF DtwTypeOK, TypeOK
  <2> QED
    BY <2>1, <2>2, <1>16, Frames DEF Teardown, TypeOK
<1>17. CASE StopIdling(w)
  <2>1. AppTypeOK'
    BY <1>17
    DEF StopIdling, Goto, AppTypeOK, TypeOK, WorkerPlaces, LoopPlaces,
        LeftPlaces
  <2>2. DtwTypeOK'
    BY <1>17, Constants DEF StopIdling, DtwTypeOK, TypeOK
  <2> QED
    BY <2>1, <2>2, <1>17, Frames DEF StopIdling, TypeOK
<1> QED
  BY <1>1, <1>2, <1>3, <1>4, <1>5, <1>6, <1>7, <1>8, <1>9, <1>10, <1>11, <1>12,
     <1>13, <1>14, <1>15, <1>16, <1>17 DEF WorkerStep

(* Every step of a team or of a communication thread preserves the types.  *)
LEMMA RankStepTypes ==
  ASSUME TypeOK, NEW r \in Rank, TeamStep(r) \/ CommStep(r)
  PROVE  TypeOK'
<1> USE DEF appVars, taskVars, dtwVars, exitVars,
           sleepVars, commVars, sendVars
<1>1. CASE LeaveBarrier(r)
  <2>1. AppTypeOK'
    BY <1>1
    DEF LeaveBarrier, Goto, AppTypeOK, TypeOK, WorkerPlaces, LoopPlaces,
        LeftPlaces
  <2> QED
    BY <2>1, <1>1, Frames DEF LeaveBarrier, TypeOK
<1>2. CASE NextCycle(r)
  <2>1. AppTypeOK'
    BY <1>2, Constants
    DEF NextCycle, Goto, AppTypeOK, TypeOK, WorkerPlaces, LoopPlaces, LeftPlaces
  <2> QED
    BY <2>1, <1>2, Frames DEF NextCycle, TypeOK
<1>3. CASE CommSleep(r)
  <2>1. CommTypeOK'
    BY <1>3 DEF CommSleep, CommGoto, CommTypeOK, TypeOK, CommPlaces
  <2>2. SendTypeOK'
    BY <1>3 DEF CommSleep, SendTypeOK, TypeOK
  <2> QED
    BY <2>1, <2>2, <1>3, Frames DEF CommSleep, TypeOK
<1>4. CASE CommBegin(r)
  <2>1. CommTypeOK'
    <3>1. cpc' \in [Rank -> CommPlaces]
      BY <1>4 DEF CommBegin, CommGoto, CommTypeOK, TypeOK, CommPlaces
    <3>2. sleepSet' \in [Rank -> BOOLEAN]
      BY <1>4 DEF CommBegin, CommGoto, CommTypeOK, TypeOK, CommPlaces
    <3>3. lastTag' \in [Rank -> [Rank -> Nat \cup {-1}]]
      <4>1. [q \in Rank |-> -1] \in [Rank -> Nat \cup {-1}]
        OBVIOUS
      <4>2. \/ lastTag' = lastTag
            \/ lastTag' = [lastTag EXCEPT ![r] = [q \in Rank |-> -1]]
        BY <1>4 DEF CommBegin
      <4> QED
        BY <4>1, <4>2 DEF CommTypeOK, TypeOK
    <3>4. UNCHANGED <<gatherReq, gathered, backReqs, gathers>>
      BY <1>4 DEF CommBegin, CommGoto, CommTypeOK, TypeOK, CommPlaces
    <3> QED
      BY <3>1, <3>2, <3>3, <3>4 DEF CommTypeOK, TypeOK
  <2>2. SendTypeOK'
    BY <1>4 DEF CommBegin, SendTypeOK, TypeOK
  <2> QED
    BY <2>1, <2>2, <1>4, Frames DEF CommBegin, TypeOK
<1>5. ASSUME NEW q \in Rank, CompleteSend(r, q) PROVE TypeOK'
  <2>1. SendTypeOK'
    BY <1>5 DEF CompleteSend, SendTypeOK, TypeOK
  <2> QED
    BY <2>1, <1>5, Frames DEF CompleteSend, TypeOK
<1>6. ASSUME NEW t \in Task, CompleteSendBack(r, t) PROVE TypeOK'
  <2>1. TaskTypeOK'
    BY <1>6 DEF CompleteSendBack, TaskTypeOK, TypeOK, Locations
  <2>2. CommTypeOK'
    BY <1>6 DEF CompleteSendBack, CommGoto, CommTypeOK, TypeOK, CommPlaces
  <2> QED
    BY <2>1, <2>2, <1>6, Frames DEF CompleteSendBack, TypeOK
<1>7. ASSUME NEW t \in Task, CompleteBack(r, t) PROVE TypeOK'
  <2>1. TaskTypeOK'
    BY <1>7 DEF CompleteBack, TaskTypeOK, TypeOK, Locations
  <2> QED
    BY <2>1, <1>7, Frames DEF CompleteBack, TypeOK
<1>8. ASSUME NEW m \in offers, CompleteMeta(r, m) PROVE TypeOK'
  <2>1. m \in Offer /\ Cardinality(m.tasks) \in Nat
    BY ConstAssumption, FS_Subset, FS_CardinalityType
    DEF Offer, SendTypeOK, TypeOK
  <2>2. TaskTypeOK'
    BY <1>8, <2>1 DEF CompleteMeta, TaskTypeOK, TypeOK
  <2>3. [m EXCEPT !.stage = "data"] \in Offer
    BY <2>1 DEF Offer
  <2>4. SendTypeOK'
    BY <1>8, <2>3 DEF CompleteMeta, SendTypeOK, TypeOK
  <2> QED
    BY <2>2, <2>4, <1>8, Frames DEF CompleteMeta, TypeOK
<1>9. ASSUME NEW m \in offers, CompleteData(r, m) PROVE TypeOK'
  <2>1. TaskTypeOK'
    BY <1>9 DEF CompleteData, TaskTypeOK, TypeOK, Locations
  <2>2. SendTypeOK'
    BY <1>9 DEF CompleteData, SendTypeOK, TypeOK
  <2> QED
    BY <2>1, <2>2, <1>9, Frames DEF CompleteData, TypeOK
<1>10. CASE PostGather(r)
  <2>1. CommTypeOK'
    <3>1. cpc' \in [Rank -> CommPlaces]
      BY <1>10 DEF PostGather, CommGoto, CommTypeOK, TypeOK, CommPlaces
    <3>2. gatherReq' \in [Rank -> BOOLEAN]
      BY <1>10 DEF PostGather, CommGoto, CommTypeOK, TypeOK, CommPlaces
    <3>3. gathers' \in [Rank -> [Rank -> Seq(Contribution)]]
      <4>1. Sample(r) \in Contribution
        BY DEF Sample, Contribution, TaskTypeOK, TypeOK
      <4>2. \A q \in Rank : Append(gathers[q][r], Sample(r)) \in
      Seq(Contribution)
        BY <4>1 DEF CommTypeOK, TypeOK
      <4> QED
        BY <1>10, <4>2 DEF PostGather, CommTypeOK, TypeOK
    <3>4. UNCHANGED <<sleepSet, gathered, lastTag, backReqs>>
      BY <1>10 DEF PostGather, CommGoto, CommTypeOK, TypeOK, CommPlaces
    <3> QED
      BY <3>1, <3>2, <3>3, <3>4 DEF CommTypeOK, TypeOK
  <2> QED
    BY <2>1, <1>10, Frames DEF PostGather, TypeOK
<1>11. CASE CollectGather(r)
  <2> DEFINE s == [q \in Rank |-> Head(gathers[r][q])]
  <2>0. BusyRanks(s) \in Nat /\ TotalOut(s) \in Nat
    <3>1. \A q \in Rank : Head(gathers[r][q]) \in Contribution
      BY <1>11 DEF CollectGather, CommTypeOK, TypeOK
    <3> HIDE DEF BusyRanks, TotalOut
    <3> QED
      BY <3>1, SumsAreNat
  <2>1. DtwTypeOK'
    <3>1. ranksBusy' \in [Rank -> Nat]
      BY <1>11, <2>0 DEF CollectGather, DtwTypeOK, TypeOK
    <3>2. UNCHANGED <<numIdle, dtwActive, endedCount, finished, outSum,
                    exchanged, sleeping, stopped>>
      BY <1>11 DEF CollectGather, DtwTypeOK, TypeOK
    <3> QED
      BY <3>1, <3>2 DEF DtwTypeOK, TypeOK
  <2>2. CommTypeOK'
    <3>1. cpc' \in [Rank -> CommPlaces]
      BY <1>11 DEF CollectGather, CommGoto, CommTypeOK, TypeOK, CommPlaces
    <3>2. gathered' \in [Rank -> Nat]
      BY <1>11, <2>0 DEF CollectGather, CommTypeOK, TypeOK
    <3>3. gathers' \in [Rank -> [Rank -> Seq(Contribution)]]
      BY <1>11 DEF CollectGather, CommGoto, CommTypeOK, TypeOK, CommPlaces
    <3>4. UNCHANGED <<sleepSet, gatherReq, lastTag, backReqs>>
      BY <1>11 DEF CollectGather, CommGoto, CommTypeOK, TypeOK, CommPlaces
    <3> QED
      BY <3>1, <3>2, <3>3, <3>4 DEF CommTypeOK, TypeOK
  <2> QED
    BY <2>1, <2>2, <1>11, Frames DEF CollectGather, TypeOK
<1>12. CASE StoreSum(r)
  <2>1. DtwTypeOK'
    <3>1. outSum' \in [Rank -> Nat]
      BY <1>12 DEF StoreSum, DtwTypeOK, CommTypeOK, TypeOK
    <3>2. exchanged' \in [Rank -> BOOLEAN]
      BY <1>12 DEF StoreSum, DtwTypeOK, TypeOK
    <3>3. UNCHANGED <<numIdle, dtwActive, endedCount, finished, ranksBusy,
                    sleeping, stopped>>
      BY <1>12 DEF StoreSum, DtwTypeOK, TypeOK
    <3> QED
      BY <3>1, <3>2, <3>3 DEF DtwTypeOK, TypeOK
  <2>2. CommTypeOK'
    BY <1>12 DEF StoreSum, CommGoto, CommTypeOK, TypeOK, CommPlaces
  <2>3. SendTypeOK'
    BY <1>12 DEF StoreSum, SendTypeOK, TypeOK
  <2> QED
    BY <2>1, <2>2, <2>3, <1>12, Frames DEF StoreSum, TypeOK
<1>13. CASE CommExit(r)
  <2>1. DtwTypeOK'
    BY <1>13 DEF CommExit, DtwTypeOK, TypeOK
  <2>2. CommTypeOK'
    BY <1>13 DEF CommExit, CommGoto, CommTypeOK, TypeOK, CommPlaces
  <2>3. SendTypeOK'
    BY <1>13 DEF CommExit, SendTypeOK, TypeOK
  <2> QED
    BY <2>1, <2>2, <2>3, <1>13, Frames DEF CommExit, TypeOK
<1>14. CASE CommStay(r)
  <2>1. CommTypeOK'
    BY <1>14 DEF CommStay, CommGoto, CommTypeOK, TypeOK, CommPlaces
  <2> QED
    BY <2>1, <1>14, Frames DEF CommStay, TypeOK
<1>15. ASSUME NEW q \in Rank, NEW S \in SUBSET LocalTasks(r), Migrate(r, q, S)
       PROVE  TypeOK'
  <2>1. TaskTypeOK'
    BY <1>15 DEF Migrate, TaskTypeOK, TypeOK, Locations
  <2>2. CommTypeOK'
    BY <1>15 DEF Migrate, CommGoto, CommTypeOK, TypeOK, CommPlaces
  <2>3. SendTypeOK'
    <3>1. OfferOf(r, q, S) \in Offer
      BY DEF OfferOf, Offer, LocalTasks, TasksAt, SendTypeOK, TypeOK
    <3>2. offers' \subseteq Offer
      BY <1>15, <3>1 DEF Migrate, SendTypeOK, TypeOK
    <3>3. active' \in [Rank -> [Rank -> Nat]] /\ tagCount' \in [Rank -> Nat]
      BY <1>15 DEF Migrate, SendTypeOK, TypeOK
    <3>4. offMap' \in [Rank -> SUBSET Task] /\ offloaded' \in [Rank -> BOOLEAN]
      BY <1>15 DEF Migrate, SendTypeOK, TypeOK, LocalTasks, TasksAt
    <3> QED
      BY <3>2, <3>3, <3>4 DEF SendTypeOK
  <2> QED
    BY <2>1, <2>2, <2>3, <1>15, Frames DEF Migrate, TypeOK
<1>16. ASSUME NEW B \in SUBSET SendBack(r), NEW M \in SUBSET offers,
             NEW S \in SUBSET OnWire(r), Poll(r, B, M, S)
      PROVE  TypeOK'
  <2>1. TaskTypeOK'
    BY <1>16 DEF Poll, TaskTypeOK, TypeOK, Locations
  <2>2. CommTypeOK'
    <3>1. cpc' \in [Rank -> CommPlaces]
      BY <1>16 DEF Poll, CommGoto, CommTypeOK, TypeOK, CommPlaces
    <3>2. lastTag' \in [Rank -> [Rank -> Nat \cup {-1}]]
      <4>1. \A q \in Rank, m \in M : m.tag \in Nat
        BY DEF Offer, SendTypeOK, TypeOK
      <4>2. \A q \in Rank : (IF \E m \in M : m.from = q
                             THEN (CHOOSE m \in M : m.from = q).tag
                             ELSE lastTag[r][q]) \in Nat \cup {-1}
        BY <4>1 DEF CommTypeOK, TypeOK
      <4> QED
        BY <1>16, <4>2 DEF Poll, CommTypeOK, TypeOK
    <3>3. backReqs' \in [Rank -> SUBSET Task]
      BY <1>16 DEF Poll, SendBack, TasksAt, CommTypeOK, TypeOK
    <3>4. UNCHANGED <<sleepSet, gatherReq, gathered, gathers>>
      BY <1>16 DEF Poll, CommGoto, CommTypeOK, TypeOK, CommPlaces
    <3> QED
      BY <3>1, <3>2, <3>3, <3>4 DEF CommTypeOK, TypeOK
  <2>3. SendTypeOK'
    <3>1. \A m \in M : [m EXCEPT !.stage = "meta"] \in Offer
      BY SMTT(30) DEF Offer, SendTypeOK, TypeOK
    <3>2. offers' \subseteq Offer
      BY <1>16, <3>1 DEF Poll, SendTypeOK, TypeOK
    <3> QED
      BY <1>16, <3>2 DEF Poll, SendTypeOK, TypeOK
  <2> QED
    BY <2>1, <2>2, <2>3, <1>16, Frames DEF Poll, TypeOK
<1> QED
  BY <1>1, <1>2, <1>3, <1>4, <1>5, <1>6, <1>7, <1>8, <1>9, <1>10, <1>11, <1>12,
     <1>13, <1>14, <1>15, <1>16
  DEF TeamStep, CommStep, Complete, Polls

(* Every variable keeps its type.                                          *)
THEOREM TypeCorrect == Spec => []TypeOK
<1>1. Init => TypeOK
  BY ConstAssumption
  DEF Init, TypeOK, AppTypeOK, TaskTypeOK, DtwTypeOK, CommTypeOK, SendTypeOK,
      WorkerPlaces, LoopPlaces, LeftPlaces, Locations, CommPlaces, Home, Offer
<1>2. TypeOK /\ [Next]_vars => TypeOK'
  <2> SUFFICES ASSUME TypeOK, [Next]_vars PROVE TypeOK'
    OBVIOUS
  <2>1. ASSUME NEW w \in Worker, WorkerStep(w) PROVE TypeOK'
    BY <2>1, WorkerStepTypes
  <2>2. ASSUME NEW r \in Rank, TeamStep(r) \/ CommStep(r) PROVE TypeOK'
    BY <2>2, RankStepTypes
  <2>3. CASE UNCHANGED vars
    BY <2>3, Frames DEF vars, TypeOK, appVars, taskVars, dtwVars, exitVars,
       sleepVars, commVars, sendVars
  <2> QED
    BY <2>1, <2>2, <2>3 DEF Next, Finished
<1> QED
  BY <1>1, <1>2, PTL DEF Spec

-----------------------------------------------------------------------------
(* The idle counter is exact, and a team outside a taskwait has a sleeping *)
(* communication thread, for every team.                                  *)
(* The threads of a team go through a taskwait together: before, in and at *)
(* the end of the loop; after the barrier that follows it; at the end.     *)
Before == {"work", "left"} \cup LoopPlaces
After  == {"sleep", "spin", "teardown", "done"}
Phase(w) == IF wpc[w] \in Before THEN 1 ELSE IF wpc[w] \in After THEN 2 ELSE 3
Done(r) == {w \in WorkersOf(r) : wpc[w] = "done"}

PhaseInv == \A v, w \in Worker : RankOf(v) = RankOf(w) => Phase(v) = Phase(w)

(* The team's size is known exactly while a thread is in the taskwait, and *)
(* the threads that tore it down are counted.                              *)
ActiveInv ==
  /\ \A w \in Worker : wpc[w] \notin {"work", "done", "end"} => dtwActive[RankOf(w)]
  /\ \A r \in Rank : dtwActive[r] =>
       /\ \E w \in WorkersOf(r) : wpc[w] \notin {"work", "done", "end"}
       /\ finished[r] = Cardinality(Done(r))

(* A thread is idle when it stops idling, and not when it takes a task.    *)
ThreadInv == \A w \in Worker :
  /\ wpc[w] \in {"wakeStolen", "wakeLocal"} => thisIdle[w]
  /\ wpc[w] \in {"popStolen", "popLocal", "runStolen", "runLocal"} => ~thisIdle[w]
  /\ cur[w] # NoTask => wpc[w] \in {"runStolen", "runLocal"}

IdleInv == PhaseInv /\ ActiveInv /\ ThreadInv /\ IdleCount

-----------------------------------------------------------------------------
(* A team is finite, and smaller than INT_MAX.                             *)
LEMMA TeamFinite ==
  ASSUME NEW r \in Rank
  PROVE  /\ IsFiniteSet(WorkersOf(r)) /\ IsFiniteSet(Done(r))
         /\ IsFiniteSet(IdleWorkers(r))
         /\ NumThreads(r) \in Nat /\ NumThreads(r) < IntMax
<1>1. /\ WorkersOf(r) \subseteq Worker
      /\ Done(r) \subseteq Worker /\ IdleWorkers(r) \subseteq Worker
  BY DEF WorkersOf, Done, IdleWorkers
<1>2. IsFiniteSet(WorkersOf(r)) /\ IsFiniteSet(Done(r)) /\ IsFiniteSet(IdleWorkers(r))
  BY <1>1, FS_Subset, ConstAssumption
<1> QED
  BY <1>2, FS_CardinalityType, ConstAssumption DEF NumThreads

(* A step that leaves all of this alone.                                   *)
LEMMA Untouched ==
  ASSUME IdleInv, UNCHANGED <<wpc, thisIdle, cur, numIdle, dtwActive, finished>>
  PROVE  IdleInv'
BY DEF IdleInv, PhaseInv, Phase, ActiveInv, Done, ThreadInv, IdleCount, IdleWorkers

(* A thread in the loop moves within it, or leaves it.                     *)
LEMMA MoveInLoop ==
  ASSUME TypeOK, PhaseInv, ActiveInv, NEW w \in Worker, wpc[w] \in LoopPlaces,
         NEW p \in LoopPlaces \cup {"left"}, wpc' = [wpc EXCEPT ![w] = p],
         UNCHANGED <<dtwActive, finished>>
  PROVE  PhaseInv' /\ ActiveInv' /\ dtwActive[RankOf(w)]
<1>1. \A v \in Worker : wpc'[v] = IF v = w THEN p ELSE wpc[v]
  BY DEF TypeOK, AppTypeOK
<1>2. /\ \A v \in Worker : Phase(v)' = Phase(v)
      /\ p \notin {"work", "done", "end"} /\ wpc[w] \notin {"work", "done", "end"}
  BY <1>1 DEF Phase, Before, After, LoopPlaces
<1>3. \A r \in Rank : Done(r)' = Done(r)
  BY <1>1, <1>2 DEF Done
<1>4. ActiveInv'
  BY <1>1, <1>2, <1>3 DEF ActiveInv, WorkersOf
<1> QED
  BY <1>2, <1>4 DEF PhaseInv, ActiveInv

(* ... and is as idle as before.                                           *)
LEMMA LoopStep ==
  ASSUME TypeOK, IdleInv, NEW w \in Worker, wpc[w] \in LoopPlaces,
         NEW p \in LoopPlaces \cup {"left"}, wpc' = [wpc EXCEPT ![w] = p],
         UNCHANGED <<thisIdle, numIdle, dtwActive, finished>>,
         NEW c \in Task \cup {NoTask}, cur' = [cur EXCEPT ![w] = c],
         c # NoTask => p \in {"runStolen", "runLocal"},
         p \in {"wakeStolen", "wakeLocal"} => thisIdle[w],
         p \in {"popStolen", "popLocal", "runStolen", "runLocal"} => ~thisIdle[w]
  PROVE  IdleInv'
<1>1. PhaseInv' /\ ActiveInv' /\ dtwActive[RankOf(w)]
  BY MoveInLoop DEF IdleInv
<1>2. /\ \A v \in Worker : wpc'[v] = IF v = w THEN p ELSE wpc[v]
      /\ \A v \in Worker : cur'[v] = IF v = w THEN c ELSE cur[v]
      /\ wpc[w] # "work" /\ p # "work"
  BY DEF TypeOK, AppTypeOK, LoopPlaces
<1>3. ThreadInv'
  BY <1>2 DEF IdleInv, ThreadInv
<1>4. \A r \in Rank : IdleWorkers(r)' = IdleWorkers(r)
  BY <1>2 DEF IdleWorkers, WorkersOf
<1>5. IdleCount'
  BY <1>2, <1>3, <1>4 DEF IdleInv, IdleCount, ThreadInv, WorkersOf
<1> QED
  BY <1>1, <1>3, <1>5 DEF IdleInv

(* Steps inside the loop that neither take nor give back the idle mark.    *)
LEMMA LoopSteps ==
  ASSUME TypeOK, IdleInv, NEW w \in Worker,
         \/ LookForStolen(w) \/ PopStolen(w) \/ NoStolen(w) \/ RunStolen(w)
         \/ LookForLocal(w) \/ PopLocal(w) \/ RunLocal(w)
         \/ CheckIdle(w) \/ CheckRanks(w) \/ CheckSum(w)
  PROVE  IdleInv'
<1> USE DEF appVars, dtwVars
<1>1. /\ cur \in [Worker -> Task \cup {NoTask}]
      /\ NoTask \in Task \cup {NoTask}
      /\ cur[w] \in Task \cup {NoTask} /\ cur = [cur EXCEPT ![w] = cur[w]]
  BY DEF TypeOK, AppTypeOK
<1>2. wpc[w] \notin {"runStolen", "runLocal"} => cur[w] = NoTask
  BY DEF IdleInv, ThreadInv
<1>3. CASE LookForStolen(w)
  <2>1. PICK p \in {"wakeStolen", "popStolen"} :
          /\ wpc[w] = "stolen" /\ wpc' = [wpc EXCEPT ![w] = p]
          /\ p = "wakeStolen" <=> thisIdle[w]
          /\ UNCHANGED <<thisIdle, numIdle, dtwActive, finished, cur>>
    BY <1>3 DEF LookForStolen, LookAt, Goto
  <2> QED
    BY <1>1, <1>2, <2>1, LoopStep DEF LoopPlaces
<1>4. CASE LookForLocal(w)
  <2>1. PICK p \in {"wakeLocal", "popLocal"} :
          /\ wpc[w] = "local" /\ wpc' = [wpc EXCEPT ![w] = p]
          /\ p = "wakeLocal" <=> thisIdle[w]
          /\ UNCHANGED <<thisIdle, numIdle, dtwActive, finished, cur>>
    BY <1>4 DEF LookForLocal, LookAt, Goto
  <2> QED
    BY <1>1, <1>2, <2>1, LoopStep DEF LoopPlaces
<1>5. CASE PopStolen(w) \/ PopLocal(w)
  <2>1. PICK p \in {"runStolen", "runLocal"}, c \in Task :
          /\ wpc[w] \in {"popStolen", "popLocal"}
          /\ wpc' = [wpc EXCEPT ![w] = p] /\ cur' = [cur EXCEPT ![w] = c]
          /\ UNCHANGED <<thisIdle, numIdle, dtwActive, finished>>
    BY <1>5
    DEF PopStolen, PopLocal, Pop, StolenTasks, LocalTasks, TasksAt, Goto
  <2>2. ~thisIdle[w]
    BY <2>1 DEF IdleInv, ThreadInv
  <2> QED
    BY <2>1, <2>2, LoopStep DEF LoopPlaces
<1>6. CASE RunStolen(w) \/ RunLocal(w)
  <2>1. PICK p \in {"stolen"}, c \in {NoTask} :
          /\ wpc[w] \in {"runStolen", "runLocal"}
          /\ wpc' = [wpc EXCEPT ![w] = p] /\ cur' = [cur EXCEPT ![w] = c]
          /\ UNCHANGED <<thisIdle, numIdle, dtwActive, finished>>
    BY <1>6 DEF RunStolen, RunLocal, Goto
  <2> QED
    BY <1>1, <2>1, LoopStep DEF LoopPlaces
<1>7. CASE NoStolen(w) \/ CheckIdle(w) \/ CheckRanks(w) \/ CheckSum(w)
  <2>1. PICK p \in {"local", "checkRanks", "checkSum", "stolen", "left"} :
          /\ wpc[w] \in {"stolen", "popStolen", "check", "checkRanks", "checkSum"}
          /\ wpc' = [wpc EXCEPT ![w] = p]
          /\ UNCHANGED <<thisIdle, numIdle, dtwActive, finished, cur>>
    BY <1>7 DEF NoStolen, CheckIdle, CheckRanks, CheckSum, Goto
  <2> QED
    BY <1>1, <1>2, <2>1, LoopStep DEF LoopPlaces
<1> QED
  BY <1>3, <1>4, <1>5, <1>6, <1>7

(* The decrement that ends idling.                                         *)
LEMMA StopIdlingStep ==
  ASSUME TypeOK, IdleInv, NEW w \in Worker, StopIdling(w)
  PROVE  IdleInv'
<1> USE DEF dtwVars
<1> DEFINE r == RankOf(w)
<1>1. PICK p \in {"popStolen", "popLocal"} :
        /\ wpc[w] \in {"wakeStolen", "wakeLocal"}
        /\ wpc' = [wpc EXCEPT ![w] = p]
        /\ thisIdle' = [thisIdle EXCEPT ![w] = FALSE]
        /\ numIdle' = [numIdle EXCEPT ![r] = @ - 1]
        /\ UNCHANGED <<cur, dtwActive, finished>>
  BY DEF StopIdling, Goto
<1>2. PhaseInv' /\ ActiveInv' /\ dtwActive[r]
  BY <1>1, MoveInLoop DEF IdleInv, LoopPlaces
<1>3. /\ \A v \in Worker : wpc'[v] = IF v = w THEN p ELSE wpc[v]
      /\ \A v \in Worker : thisIdle'[v] = IF v = w THEN FALSE ELSE thisIdle[v]
      /\ r \in Rank /\ w \in WorkersOf(r) /\ numIdle \in [Rank -> Int]
  BY <1>1, Constants DEF TypeOK, AppTypeOK, DtwTypeOK, WorkersOf
<1>4. ThreadInv'
  BY <1>1, <1>3 DEF IdleInv, ThreadInv
<1>5. w \in IdleWorkers(r)
  BY <1>1, <1>3 DEF IdleInv, ThreadInv, IdleWorkers
<1>6. \A q \in Rank :
        IdleWorkers(q)' = IF q = r THEN IdleWorkers(q) \ {w} ELSE IdleWorkers(q)
  BY <1>1, <1>3, ZenonT(30) DEF IdleWorkers, WorkersOf
<1>7. Cardinality(IdleWorkers(r) \ {w}) = Cardinality(IdleWorkers(r)) - 1
  BY <1>3, <1>5, TeamFinite, FS_RemoveElement
<1>8. IdleCount'
  <2>1. \A q \in Rank : dtwActive'[q] => numIdle'[q] = Cardinality(IdleWorkers(q)')
    BY <1>1, <1>2, <1>3, <1>6, <1>7 DEF IdleInv, IdleCount
  <2>2. \A v \in Worker : thisIdle'[v] => cur'[v] = NoTask
    BY <1>1, <1>3, <1>4 DEF IdleInv, ThreadInv
  <2> QED
    BY <2>1, <2>2 DEF IdleCount, WorkersOf
<1> QED
  BY <1>2, <1>4, <1>8 DEF IdleInv

(* The increment that begins idling.                                       *)
LEMMA BeIdleStep ==
  ASSUME TypeOK, IdleInv, NEW w \in Worker, BeIdle(w)
  PROVE  IdleInv'
<1> USE DEF dtwVars
<1> DEFINE r == RankOf(w)
<1>1. PICK p \in {"check", "checkRanks"} :
        /\ wpc[w] \in {"local", "popLocal"}
        /\ wpc' = [wpc EXCEPT ![w] = p]
        /\ thisIdle' = [thisIdle EXCEPT ![w] = TRUE]
        /\ numIdle' = [numIdle EXCEPT ![r] = IF thisIdle[w] THEN @ ELSE @ + 1]
        /\ UNCHANGED <<cur, dtwActive, finished>>
  BY DEF BeIdle, Goto
<1>2. PhaseInv' /\ ActiveInv' /\ dtwActive[r]
  BY <1>1, MoveInLoop DEF IdleInv, LoopPlaces
<1>3. /\ \A v \in Worker : wpc'[v] = IF v = w THEN p ELSE wpc[v]
      /\ \A v \in Worker : thisIdle'[v] = IF v = w THEN TRUE ELSE thisIdle[v]
      /\ r \in Rank /\ w \in WorkersOf(r) /\ numIdle \in [Rank -> Int]
  BY <1>1, Constants DEF TypeOK, AppTypeOK, DtwTypeOK, WorkersOf
<1>4. ThreadInv' /\ cur[w] = NoTask
  BY <1>1, <1>3 DEF IdleInv, ThreadInv
<1>5. w \in IdleWorkers(r) <=> thisIdle[w]
  BY <1>1, <1>3 DEF IdleWorkers
<1>6. \A q \in Rank :
        IdleWorkers(q)' = IF q = r THEN IdleWorkers(q) \cup {w} ELSE IdleWorkers(q)
  BY <1>1, <1>3, ZenonT(30) DEF IdleWorkers, WorkersOf
<1>7. Cardinality(IdleWorkers(r) \cup {w}) =
        IF thisIdle[w] THEN Cardinality(IdleWorkers(r))
        ELSE Cardinality(IdleWorkers(r)) + 1
  BY <1>3, <1>5, TeamFinite, FS_AddElement
<1>8. IdleCount'
  <2>1. \A q \in Rank : dtwActive'[q] => numIdle'[q] = Cardinality(IdleWorkers(q)')
    BY <1>1, <1>2, <1>3, <1>6, <1>7 DEF IdleInv, IdleCount
  <2>2. \A v \in Worker : thisIdle'[v] => cur'[v] = NoTask
    BY <1>1, <1>2, <1>3, <1>4 DEF IdleInv, ThreadInv
  <2> QED
    BY <2>1, <2>2 DEF IdleCount, WorkersOf
<1> QED
  BY <1>2, <1>4, <1>8 DEF IdleInv

(* The first thread of a team to enter sets the counter.                   *)
LEMMA EnterStep ==
  ASSUME TypeOK, IdleInv, NEW w \in Worker, EnterTaskwait(w)
  PROVE  IdleInv'
<1> USE DEF dtwVars
<1> DEFINE r == RankOf(w)
<1>1. /\ wpc[w] = "work" /\ wpc' = [wpc EXCEPT ![w] = "stolen"]
      /\ thisIdle' = [thisIdle EXCEPT ![w] = FALSE]
      /\ dtwActive' = [dtwActive EXCEPT ![r] = TRUE]
      /\ IF dtwActive[r] THEN UNCHANGED <<numIdle, finished>>
         ELSE /\ numIdle' = [numIdle EXCEPT ![r] = 0]
              /\ finished' = [finished EXCEPT ![r] = 0]
      /\ UNCHANGED cur
  BY Constants DEF EnterTaskwait, Goto, TypeOK, DtwTypeOK
<1>2. /\ \A v \in Worker : wpc'[v] = IF v = w THEN "stolen" ELSE wpc[v]
      /\ \A v \in Worker : thisIdle'[v] = IF v = w THEN FALSE ELSE thisIdle[v]
      /\ \A q \in Rank : dtwActive'[q] = IF q = r THEN TRUE ELSE dtwActive[q]
      /\ r \in Rank /\ w \in WorkersOf(r)
      /\ numIdle \in [Rank -> Int] /\ finished \in [Rank -> Nat]
  BY <1>1, Constants DEF TypeOK, AppTypeOK, DtwTypeOK, WorkersOf
<1>3. PhaseInv'
  <2>1. \A v \in Worker : Phase(v)' = Phase(v)
    BY <1>1, <1>2 DEF Phase, Before, After, LoopPlaces
  <2> QED
    BY <2>1 DEF IdleInv, PhaseInv
<1>4. \A v \in WorkersOf(r) : wpc[v] \notin {"done", "end"}
  BY <1>1 DEF IdleInv, PhaseInv, Phase, Before, After, LoopPlaces, WorkersOf
<1>5. ~dtwActive[r] => \A v \in WorkersOf(r) : wpc[v] = "work"
  BY <1>4 DEF IdleInv, ActiveInv, WorkersOf
<1>6. \A q \in Rank : q # r => Done(q)' = Done(q) /\ IdleWorkers(q)' = IdleWorkers(q)
  BY <1>2 DEF Done, IdleWorkers, WorkersOf
<1>7. Done(r) = {} /\ Done(r)' = {}
  BY <1>2, <1>4 DEF Done, WorkersOf
<1>8. IdleWorkers(r)' = IF dtwActive[r] THEN IdleWorkers(r) ELSE {}
  <2>1. w \notin IdleWorkers(r) /\ w \notin IdleWorkers(r)'
    BY <1>1, <1>2 DEF IdleWorkers
  <2>2. \A v \in WorkersOf(r) : v # w => thisIdle'[v] = thisIdle[v] /\ wpc'[v] = wpc[v]
    BY <1>2 DEF WorkersOf
  <2>3. \A v \in WorkersOf(r) : v \in IdleWorkers(r)' <=> v \in IdleWorkers(r)
    BY <2>1, <2>2 DEF IdleWorkers
  <2>4. WorkersOf(r)' = WorkersOf(r)
    BY DEF WorkersOf
  <2>5. IdleWorkers(r)' = IdleWorkers(r)
    BY <2>3, <2>4 DEF IdleWorkers
  <2>6. ~dtwActive[r] => IdleWorkers(r) = {}
    BY <1>5 DEF IdleWorkers
  <2> QED
    BY <2>5, <2>6
<1>9. ActiveInv'
  <2>1. \A v \in Worker : wpc'[v] \notin {"work", "done", "end"}
                            => dtwActive'[RankOf(v)]
    BY <1>2, Constants DEF IdleInv, ActiveInv
  <2>2. \A q \in Rank : dtwActive'[q] =>
          \E v \in WorkersOf(q) : wpc'[v] \notin {"work", "done", "end"}
    BY <1>1, <1>2 DEF IdleInv, ActiveInv, WorkersOf
  <2>3. \A q \in Rank : dtwActive'[q] => finished'[q] = Cardinality(Done(q)')
    BY <1>1, <1>2, <1>6, <1>7, FS_EmptySet, ZenonT(30) DEF IdleInv, ActiveInv
  <2> QED
    BY <2>1, <2>2, <2>3 DEF ActiveInv, WorkersOf
<1>10. ThreadInv'
  BY <1>1, <1>2 DEF IdleInv, ThreadInv
<1>11. IdleCount'
  <2>1. \A q \in Rank : dtwActive'[q] => numIdle'[q] = Cardinality(IdleWorkers(q)')
    BY <1>1, <1>2, <1>6, <1>8, FS_EmptySet, ZenonT(30) DEF IdleInv, IdleCount
  <2>2. \A v \in Worker : thisIdle'[v] /\ dtwActive'[RankOf(v)] => cur'[v] = NoTask
    <3>1. ASSUME NEW v \in WorkersOf(r), ~dtwActive[r] PROVE cur[v] = NoTask
      BY <3>1, <1>5 DEF IdleInv, ThreadInv, WorkersOf
    <3> QED
      BY <1>1, <1>2, <3>1, Constants DEF IdleInv, IdleCount, WorkersOf
  <2> QED
    BY <2>1, <2>2 DEF IdleCount, WorkersOf
<1> QED
  BY <1>3, <1>9, <1>10, <1>11 DEF IdleInv

(* The barrier is left by the whole team.                                  *)
LEMMA BarrierStep ==
  ASSUME TypeOK, IdleInv, NEW r \in Rank, LeaveBarrier(r)
  PROVE  IdleInv'
<1> USE DEF dtwVars
<1>1. /\ \A w \in WorkersOf(r) : wpc[w] = "left"
      /\ \A w \in Worker : wpc'[w] = IF RankOf(w) = r THEN "sleep" ELSE wpc[w]
      /\ UNCHANGED <<thisIdle, cur, numIdle, dtwActive, finished>>
  BY DEF LeaveBarrier
<1>2. PhaseInv'
  BY <1>1 DEF IdleInv, PhaseInv, Phase
<1>3. \A q \in Rank : Done(q)' = Done(q) /\ IdleWorkers(q)' = IdleWorkers(q)
  BY <1>1 DEF Done, IdleWorkers, WorkersOf
<1>4. ActiveInv'
  BY <1>1, <1>3 DEF IdleInv, ActiveInv, WorkersOf
<1>5. ThreadInv'
  BY <1>1 DEF IdleInv, ThreadInv, WorkersOf
<1>6. IdleCount'
  BY <1>1, <1>3 DEF IdleInv, IdleCount, WorkersOf
<1> QED
  BY <1>2, <1>4, <1>5, <1>6 DEF IdleInv

(* Waiting for the communication thread takes no idle mark.                *)
LEMMA SleepStep ==
  ASSUME TypeOK, IdleInv, NEW w \in Worker, PutCommToSleep(w) \/ SeeStopped(w)
  PROVE  IdleInv'
<1>1. PICK p \in {"spin", "teardown"} :
        /\ wpc[w] \in {"sleep", "spin"} /\ wpc' = [wpc EXCEPT ![w] = p]
        /\ UNCHANGED <<thisIdle, cur, numIdle, dtwActive, finished>>
  BY DEF PutCommToSleep, SeeStopped, Goto
<1>2. \A v \in Worker : wpc'[v] = IF v = w THEN p ELSE wpc[v]
  BY <1>1 DEF TypeOK, AppTypeOK
<1>3. PhaseInv'
  <2>1. \A v \in Worker : Phase(v)' = Phase(v)
    BY <1>1, <1>2 DEF Phase, Before, After, LoopPlaces
  <2> QED
    BY <2>1 DEF IdleInv, PhaseInv
<1>4. \A q \in Rank : Done(q)' = Done(q) /\ IdleWorkers(q)' = IdleWorkers(q)
  BY <1>1, <1>2 DEF Done, IdleWorkers, WorkersOf
<1>5. ActiveInv'
  BY <1>1, <1>2, <1>4 DEF IdleInv, ActiveInv, WorkersOf
<1>6. ThreadInv'
  BY <1>1, <1>2 DEF IdleInv, ThreadInv
<1>7. IdleCount'
  BY <1>1, <1>4 DEF IdleInv, IdleCount, WorkersOf
<1> QED
  BY <1>3, <1>5, <1>6, <1>7 DEF IdleInv

(* The last thread to tear down resets the counter.                        *)
LEMMA TeardownStep ==
  ASSUME TypeOK, IdleInv, NEW w \in Worker, Teardown(w)
  PROVE  IdleInv'
<1> USE DEF dtwVars
<1> DEFINE r == RankOf(w)
<1>1. wpc[w] = "teardown" /\ r \in Rank /\ w \in WorkersOf(r) /\ dtwActive[r]
  BY Constants DEF Teardown, IdleInv, ActiveInv, WorkersOf
<1>2. /\ wpc' = [wpc EXCEPT ![w] = "done"]
      /\ finished' = [finished EXCEPT ![r] = @ + 1]
      /\ IF finished[r] + 1 < NumThreads(r) THEN UNCHANGED <<numIdle, dtwActive>>
         ELSE /\ numIdle' = [numIdle EXCEPT ![r] = 0]
              /\ dtwActive' = [dtwActive EXCEPT ![r] = FALSE]
      /\ UNCHANGED <<thisIdle, cur>>
  <2>1. finished[r] \in Nat /\ NumThreads(r) \in Nat
    BY <1>1, TeamFinite DEF TypeOK, DtwTypeOK
  <2> QED
    BY <1>1, <2>1 DEF Teardown, Involved, Goto
<1>3. /\ \A v \in Worker : wpc'[v] = IF v = w THEN "done" ELSE wpc[v]
      /\ numIdle \in [Rank -> Int] /\ finished \in [Rank -> Nat]
      /\ dtwActive \in [Rank -> BOOLEAN]
  BY <1>2 DEF TypeOK, AppTypeOK, DtwTypeOK
<1>4. PhaseInv'
  <2>1. \A v \in Worker : Phase(v)' = Phase(v)
    BY <1>1, <1>3 DEF Phase, Before, After, LoopPlaces
  <2> QED
    BY <2>1 DEF IdleInv, PhaseInv
<1>5. \A q \in Rank : IdleWorkers(q)' = IdleWorkers(q)
  BY <1>1, <1>2, <1>3 DEF IdleWorkers, WorkersOf
<1>6. \A q \in Rank : Done(q)' = IF q = r THEN Done(q) \cup {w} ELSE Done(q)
  BY <1>1, <1>3 DEF Done, WorkersOf
<1>7. Cardinality(Done(r) \cup {w}) = finished[r] + 1
  <2>1. w \notin Done(r) /\ finished[r] = Cardinality(Done(r))
    BY <1>1 DEF Done, IdleInv, ActiveInv
  <2> QED
    BY <1>1, <2>1, TeamFinite, FS_AddElement, ZenonT(30)
<1>8. Done(r) \cup {w} = WorkersOf(r) <=> finished[r] + 1 >= NumThreads(r)
  <2>1. Done(r) \cup {w} \subseteq WorkersOf(r)
    BY <1>1 DEF Done
  <2>2. /\ Cardinality(Done(r) \cup {w}) <= NumThreads(r)
        /\ NumThreads(r) = Cardinality(Done(r) \cup {w})
             => WorkersOf(r) = Done(r) \cup {w}
    BY <1>1, <2>1, TeamFinite, FS_Subset DEF NumThreads
  <2>3. finished[r] \in Nat /\ NumThreads(r) \in Nat
    BY <1>1, <1>3, TeamFinite
  <2> QED
    BY <1>7, <2>2, <2>3 DEF NumThreads
<1>9. ActiveInv'
  <2>1. ASSUME NEW v \in Worker, wpc'[v] \notin {"work", "done", "end"}
        PROVE  dtwActive'[RankOf(v)]
    <3>1. v \notin Done(r) \cup {w} /\ dtwActive[RankOf(v)]
      BY <1>3, <2>1 DEF Done, IdleInv, ActiveInv
    <3>2. RankOf(v) = r => finished[r] + 1 < NumThreads(r)
      <4>1. finished[r] \in Nat /\ NumThreads(r) \in Nat
        BY <1>1, <1>3, TeamFinite
      <4> QED
        BY <1>8, <3>1, <4>1 DEF WorkersOf
    <3> QED
      BY <1>2, <1>3, <3>1, <3>2, Constants
  <2>2. ASSUME NEW q \in Rank, dtwActive'[q]
        PROVE  \E v \in WorkersOf(q) : wpc'[v] \notin {"work", "done", "end"}
    <3>1. CASE q # r
      BY <1>1, <1>2, <1>3, <2>2, <3>1 DEF IdleInv, ActiveInv, WorkersOf
    <3>2. CASE q = r
      <4>1. finished[r] + 1 < NumThreads(r)
        BY <1>1, <1>2, <1>3, <2>2, <3>2
      <4>2. PICK v \in WorkersOf(r) : v \notin Done(r) \cup {w}
        <5>1. finished[r] \in Nat /\ NumThreads(r) \in Nat
          BY <1>1, <1>3, TeamFinite
        <5>2. Done(r) \cup {w} \subseteq WorkersOf(r)
          BY <1>1 DEF Done
        <5> QED
          BY <1>8, <4>1, <5>1, <5>2
      <4>3. Phase(v) = 2 /\ wpc[v] # "done"
        BY <1>1, <4>2
        DEF IdleInv, PhaseInv, Phase, WorkersOf, Done, Before, After, LoopPlaces
      <4> QED
        BY <1>3, <3>2, <4>2, <4>3 DEF Phase, Before, After, WorkersOf
    <3> QED
      BY <3>1, <3>2
  <2>3. \A q \in Rank : dtwActive'[q] => finished'[q] = Cardinality(Done(q)')
    BY <1>1, <1>2, <1>3, <1>6, <1>7 DEF IdleInv, ActiveInv
  <2> QED
    BY <2>1, <2>2, <2>3 DEF ActiveInv, WorkersOf
<1>10. ThreadInv'
  BY <1>1, <1>2, <1>3 DEF IdleInv, ThreadInv
<1>11. IdleCount'
  BY <1>1, <1>2, <1>3, <1>5 DEF IdleInv, IdleCount, WorkersOf
<1> QED
  BY <1>4, <1>9, <1>10, <1>11 DEF IdleInv

(* A team begins its next taskwait together.                               *)
LEMMA NextCycleStep ==
  ASSUME TypeOK, IdleInv, NEW r \in Rank, NextCycle(r)
  PROVE  IdleInv'
<1> USE DEF dtwVars
<1>1. PICK p \in {"work", "end"} :
        /\ \A w \in WorkersOf(r) : wpc[w] = "done"
        /\ \A w \in Worker : wpc'[w] = IF RankOf(w) = r THEN p ELSE wpc[w]
        /\ UNCHANGED <<thisIdle, cur, numIdle, dtwActive, finished>>
  BY DEF NextCycle
<1>2. ~dtwActive[r]
  BY <1>1 DEF IdleInv, ActiveInv
<1>3. PhaseInv'
  BY <1>1 DEF IdleInv, PhaseInv, Phase
<1>4. \A q \in Rank :
        q # r => Done(q)' = Done(q) /\ IdleWorkers(q)' = IdleWorkers(q)
  BY <1>1 DEF Done, IdleWorkers, WorkersOf
<1>5. ActiveInv'
  <2>1. \A w \in Worker : wpc'[w] \notin {"work", "done", "end"}
                            => dtwActive'[RankOf(w)]
    BY <1>1 DEF IdleInv, ActiveInv
  <2>2. \A q \in Rank : dtwActive'[q] =>
          \E w \in WorkersOf(q) : wpc'[w] \notin {"work", "done", "end"}
    BY <1>1, <1>2 DEF IdleInv, ActiveInv, WorkersOf
  <2>3. \A q \in Rank : dtwActive'[q] => finished'[q] = Cardinality(Done(q)')
    BY <1>1, <1>2, <1>4 DEF IdleInv, ActiveInv
  <2> QED
    BY <2>1, <2>2, <2>3 DEF ActiveInv, WorkersOf
<1>6. ThreadInv'
  BY <1>1 DEF IdleInv, ThreadInv, WorkersOf
<1>7. IdleCount'
  BY <1>1, <1>2, <1>4 DEF IdleInv, IdleCount, WorkersOf
<1> QED
  BY <1>3, <1>5, <1>6, <1>7 DEF IdleInv

-----------------------------------------------------------------------------
(* The phases, the team and the idle counter fit in every state.           *)
LEMMA IdleInvariant == Spec => []IdleInv
<1>1. Init => IdleInv
  <2> SUFFICES ASSUME Init PROVE IdleInv
    OBVIOUS
  <2>1. PhaseInv /\ ActiveInv /\ ThreadInv
    BY Constants
    DEF Init, PhaseInv, Phase, Before, ActiveInv, ThreadInv
  <2>2. IdleCount
    BY DEF Init, IdleCount
  <2> QED
    BY <2>1, <2>2 DEF IdleInv
<1>2. TypeOK /\ IdleInv /\ [Next]_vars => IdleInv'
  <2> SUFFICES ASSUME TypeOK, IdleInv, [Next]_vars PROVE IdleInv'
    OBVIOUS
  <2> USE DEF vars, appVars, dtwVars
  <2>1. ASSUME NEW w \in Worker, NEW t \in Task, AddTask(w, t) PROVE IdleInv'
    BY <2>1, Untouched DEF AddTask
  <2>2. ASSUME NEW w \in Worker, WorkerStep(w) PROVE IdleInv'
    BY <2>1, <2>2, EnterStep, LoopSteps, StopIdlingStep, BeIdleStep, SleepStep,
       TeardownStep DEF WorkerStep
  <2>3. ASSUME NEW r \in Rank, TeamStep(r) PROVE IdleInv'
    BY <2>3, BarrierStep, NextCycleStep DEF TeamStep
  <2>4. ASSUME NEW r \in Rank, CommStep(r) PROVE IdleInv'
    <3>1. UNCHANGED <<wpc, thisIdle, cur, numIdle, dtwActive, finished>>
      BY <2>4
      DEF CommStep, CommSleep, CommBegin, Complete, CompleteSend,
          CompleteSendBack, CompleteBack, CompleteMeta, CompleteData, PostGather,
          CollectGather, StoreSum, CommExit, CommStay, Migrate, Polls, Poll
    <3> QED
      BY <3>1, Untouched
  <2>5. CASE UNCHANGED vars
    BY <2>5, Untouched
  <2> QED
    BY <2>2, <2>3, <2>4, <2>5 DEF Next, Finished
<1> QED
  BY <1>1, <1>2, TypeCorrect, PTL DEF Spec

(* In every team the counter of idle threads is the number of threads that *)
(* are idle, and an idle thread executes no task, however the threads race *)
(* for the lists; the load exchange and both exit tests rely on it.        *)
THEOREM IdleCountExact == Spec => []IdleCount
<1>1. IdleInv => IdleCount
  BY DEF IdleInv
<1> QED
  BY <1>1, IdleInvariant, PTL

-----------------------------------------------------------------------------
(* The communication thread sleeps when its team is outside.               *)
Asleep(r) == cpc[r] = "top" /\ sleeping[r]
Waiting(r) == {w \in WorkersOf(r) : wpc[w] \in {"sleep", "spin"}}
Ended(r) == {w \in WorkersOf(r) : wpc[w] \in {"spin", "teardown", "done"}}

(* The last thread to end waits for the communication thread to stop, and  *)
(* the others count up to it; once stopped, it sleeps until a thread of    *)
(* the next taskwait wakes it.                                             *)
SleepInv(r) ==
  /\ ~dtwActive[r] => Asleep(r) /\ ~stopped[r]
  /\ stopped[r] => Asleep(r) /\ \A w \in WorkersOf(r) : wpc[w] # "work"
  /\ Waiting(r) = {} /\ (\E w \in WorkersOf(r) : wpc[w] \in {"teardown", "done"})
       => Asleep(r) /\ ~stopped[r]
  /\ endedCount[r] = IF Waiting(r) = {} THEN 0 ELSE Cardinality(Ended(r))
  /\ \A v, w \in WorkersOf(r) : wpc[w] = "spin" /\ v # w => wpc[v] \in {"teardown", "done"}

(* The variables of a rank that this speaks of.                            *)
SleepVars(r) == <<dtwActive[r], endedCount[r], cpc[r], sleeping[r], stopped[r]>>

(* Threads that come near neither end of the taskwait leave it alone.      *)
LEMMA SleepSame ==
  ASSUME NEW r \in Rank, SleepInv(r), UNCHANGED SleepVars(r),
         \A w \in WorkersOf(r) :
           wpc'[w] = wpc[w] \/ {wpc[w], wpc'[w]} \subseteq LoopPlaces \cup {"left"}
  PROVE  SleepInv(r)'
<1>1. \A w \in WorkersOf(r) : /\ wpc'[w] = "work" <=> wpc[w] = "work"
                              /\ wpc'[w] = "sleep" <=> wpc[w] = "sleep"
                              /\ wpc'[w] = "spin" <=> wpc[w] = "spin"
                              /\ wpc'[w] = "teardown" <=> wpc[w] = "teardown"
                              /\ wpc'[w] = "done" <=> wpc[w] = "done"
  BY DEF LoopPlaces
<1>2. Waiting(r)' = Waiting(r) /\ Ended(r)' = Ended(r)
  BY <1>1 DEF Waiting, Ended, WorkersOf
<1>3. Asleep(r)' = Asleep(r)
  BY DEF Asleep, SleepVars
<1> QED
  BY <1>1, <1>2, <1>3 DEF SleepInv, SleepVars, WorkersOf

(* Steps inside the loop leave the handshake alone.                        *)
LEMMA LoopSleeps ==
  ASSUME TypeOK, NEW r \in Rank, SleepInv(r), NEW w \in Worker,
         \/ LookForStolen(w) \/ PopStolen(w) \/ NoStolen(w) \/ RunStolen(w)
         \/ LookForLocal(w) \/ PopLocal(w) \/ RunLocal(w) \/ StopIdling(w)
         \/ BeIdle(w) \/ CheckIdle(w) \/ CheckRanks(w) \/ CheckSum(w)
         \/ \E t \in Task : AddTask(w, t)
  PROVE  SleepInv(r)'
<1>1. UNCHANGED <<dtwActive, endedCount, cpc, sleeping, stopped>>
  BY DEF LookForStolen, LookForLocal, LookAt, PopStolen, PopLocal, Pop, NoStolen,
         RunStolen, RunLocal, StopIdling, BeIdle, CheckIdle, CheckRanks, CheckSum,
         AddTask, dtwVars, sleepVars, commVars
<1>2. \/ UNCHANGED wpc
      \/ /\ wpc[w] \in LoopPlaces
         /\ \E p \in LoopPlaces \cup {"left"} : wpc' = [wpc EXCEPT ![w] = p]
  BY DEF LookForStolen, LookForLocal, LookAt, PopStolen, PopLocal, Pop, NoStolen,
         RunStolen, RunLocal, StopIdling, BeIdle, CheckIdle, CheckRanks, CheckSum,
         AddTask, appVars, Goto, LoopPlaces
<1>3. \A v \in WorkersOf(r) :
        wpc'[v] = wpc[v] \/ {wpc[v], wpc'[v]} \subseteq LoopPlaces \cup {"left"}
  BY <1>2 DEF TypeOK, AppTypeOK, WorkersOf
<1> QED
  BY <1>1, <1>3, SleepSame DEF SleepVars

(* A step of another rank's team.                                          *)
LEMMA SleepElsewhere ==
  ASSUME TypeOK, NEW r \in Rank, SleepInv(r), NEW w \in Worker, RankOf(w) # r,
         EnterTaskwait(w) \/ PutCommToSleep(w) \/ SeeStopped(w) \/ Teardown(w)
  PROVE  SleepInv(r)'
<1>1. UNCHANGED SleepVars(r)
  BY Constants
  DEF EnterTaskwait, PutCommToSleep, SeeStopped, Teardown, SleepVars, TypeOK,
      DtwTypeOK, CommTypeOK, dtwVars, sleepVars, commVars
<1>2. \A v \in WorkersOf(r) : wpc'[v] = wpc[v]
  BY DEF EnterTaskwait, PutCommToSleep, SeeStopped, Teardown, Goto, TypeOK,
         AppTypeOK, WorkersOf
<1> QED
  BY <1>1, <1>2, SleepSame

(* A thread that enters wakes the communication thread.                    *)
LEMMA EnterWakes ==
  ASSUME TypeOK, IdleInv, NEW w \in Worker, EnterTaskwait(w), SleepInv(RankOf(w))
  PROVE  SleepInv(RankOf(w))'
<1> PICK r \in Rank : r = RankOf(w)
  BY Constants
<1>1. /\ wpc[w] = "work" /\ wpc' = [wpc EXCEPT ![w] = "stolen"]
      /\ dtwActive'[r] /\ endedCount' = endedCount /\ stopped' = stopped
  BY DEF EnterTaskwait, Goto, dtwVars, TypeOK, DtwTypeOK
<1>2. w \in WorkersOf(r) /\ ~stopped[r]
  BY <1>1 DEF SleepInv, WorkersOf
<1>3. \A v \in WorkersOf(r) : wpc[v] \in Before
  BY <1>1 DEF IdleInv, PhaseInv, Phase, Before, LoopPlaces, WorkersOf
<1>4. \A v \in WorkersOf(r) : wpc'[v] \in Before
  BY <1>1, <1>3 DEF TypeOK, AppTypeOK, WorkersOf, Before, LoopPlaces
<1>5. /\ \A v \in WorkersOf(r) : wpc[v] \notin After
      /\ \A v \in WorkersOf(r) : wpc'[v] \notin After
  BY <1>3, <1>4 DEF Before, After, LoopPlaces
<1>6. Waiting(r) = {} /\ Waiting(r)' = {}
  BY <1>5 DEF Waiting, WorkersOf, After
<1> QED
  BY <1>1, <1>2, <1>5, <1>6 DEF SleepInv, WorkersOf, After

(* The last thread to end asks the communication thread to sleep.          *)
LEMMA SleepBegins ==
  ASSUME TypeOK, IdleInv, NEW w \in Worker, PutCommToSleep(w), SleepInv(RankOf(w))
  PROVE  SleepInv(RankOf(w))'
<1> PICK r \in Rank : r = RankOf(w)
  BY Constants
<1>1. /\ wpc[w] = "sleep" /\ endedCount' = [endedCount EXCEPT ![r] = @ + 1]
      /\ \/ /\ endedCount[r] + 1 < Involved(r)
            /\ wpc' = [wpc EXCEPT ![w] = "teardown"] /\ sleeping' = sleeping
         \/ /\ endedCount[r] + 1 >= Involved(r)
            /\ wpc' = [wpc EXCEPT ![w] = "spin"]
            /\ sleeping' = [sleeping EXCEPT ![r] = TRUE]
      /\ UNCHANGED <<dtwActive, stopped, cpc>>
  BY DEF PutCommToSleep, Goto, commVars
<1>2. w \in WorkersOf(r) /\ dtwActive[r] /\ Involved(r) = NumThreads(r)
  BY <1>1 DEF IdleInv, ActiveInv, WorkersOf, Involved
<1>3. w \in Waiting(r) /\ w \notin Ended(r)
  BY <1>1, <1>2 DEF Waiting, Ended
<1>4. PICK p \in {"teardown", "spin"} :
        /\ wpc' = [wpc EXCEPT ![w] = p]
        /\ p = "teardown" => endedCount[r] + 1 < NumThreads(r)
        /\ p = "spin" => endedCount[r] + 1 >= NumThreads(r)
  BY <1>1, <1>2
<1>5. /\ wpc'[w] = p /\ \A v \in WorkersOf(r) : v # w => wpc'[v] = wpc[v]
      /\ endedCount'[r] = endedCount[r] + 1 /\ (Asleep(r) => Asleep(r)')
  BY <1>1, <1>4 DEF TypeOK, AppTypeOK, DtwTypeOK, WorkersOf, Asleep
<1>6. Ended(r)' = Ended(r) \cup {w} /\ Ended(r) \subseteq WorkersOf(r)
  BY <1>2, <1>5 DEF Ended, WorkersOf
<1>7. /\ IsFiniteSet(Ended(r)) /\ IsFiniteSet(Ended(r)')
      /\ Cardinality(Ended(r)') = Cardinality(Ended(r)) + 1
      /\ Cardinality(Ended(r)) \in Nat
  BY <1>3, <1>6, TeamFinite, FS_Subset, FS_AddElement, FS_CardinalityType, ZenonT(30)
<1>8. endedCount[r] = Cardinality(Ended(r))
  BY <1>3 DEF SleepInv
<1>9. \A v \in WorkersOf(r) : wpc[v] \in After
  BY <1>1, <1>2 DEF IdleInv, PhaseInv, Phase, Before, After, LoopPlaces, WorkersOf
<1>10. WorkersOf(r)' = WorkersOf(r)
  BY DEF WorkersOf
<1>11. \A v \in WorkersOf(r) : wpc[v] # "spin"
  BY <1>1, <1>2 DEF SleepInv
<1>12. CASE p = "teardown"
  <2>1. Ended(r)' # WorkersOf(r)
    BY <1>4, <1>7, <1>8, <1>12, TeamFinite DEF NumThreads
  <2>2. PICK v \in WorkersOf(r) : v \notin Ended(r)'
    BY <1>2, <1>6, <2>1
  <2>3. v # w /\ wpc[v] = "sleep"
    BY <1>6, <1>9, <2>2 DEF Ended, After
  <2>4. v \in Waiting(r)'
    BY <1>5, <1>10, <2>3 DEF Waiting
  <2>5. \A u \in WorkersOf(r) : wpc'[u] # "spin"
    BY <1>5, <1>11, <1>12
  <2>6. endedCount'[r] = Cardinality(Ended(r)')
    BY <1>5, <1>7, <1>8
  <2> QED
    BY <1>1, <1>2, <1>5, <1>10, <1>12, <2>4, <2>5, <2>6 DEF SleepInv
<1>13. CASE p = "spin"
  <2>1. Cardinality(Ended(r)') >= Cardinality(WorkersOf(r)) /\ Ended(r)' \subseteq WorkersOf(r)
    BY <1>2, <1>4, <1>6, <1>7, <1>8, <1>13 DEF NumThreads
  <2>2. Ended(r)' = WorkersOf(r)
    <3>1. IsFiniteSet(WorkersOf(r)) /\ Cardinality(WorkersOf(r)) \in Nat
          /\ Cardinality(Ended(r)') \in Nat
      BY <1>7, TeamFinite, FS_CardinalityType
    <3>2. Cardinality(Ended(r)') <= Cardinality(WorkersOf(r))
          /\ (Cardinality(Ended(r)') = Cardinality(WorkersOf(r))
                => Ended(r)' = WorkersOf(r))
      BY <2>1, <3>1, FS_Subset
    <3> QED
      BY <2>1, <3>1, <3>2
  <2>3. \A v \in WorkersOf(r) : v # w => wpc'[v] \in {"teardown", "done"}
    BY <1>5, <1>10, <1>11, <2>2 DEF Ended
  <2>4. w \in Waiting(r)'
    BY <1>2, <1>5, <1>10, <1>13 DEF Waiting
  <2>5. endedCount'[r] = Cardinality(Ended(r)')
    BY <1>5, <1>7, <1>8
  <2>6. \A v, u \in WorkersOf(r) :
          wpc'[u] = "spin" /\ v # u => wpc'[v] \in {"teardown", "done"}
    BY <2>3
  <2> QED
    BY <1>1, <1>2, <1>5, <1>10, <1>13, <2>4, <2>5, <2>6 DEF SleepInv
<1> QED
  BY <1>12, <1>13

(* It goes on only after the communication thread has stopped.             *)
LEMMA SleepEnds ==
  ASSUME TypeOK, IdleInv, NEW w \in Worker, SeeStopped(w), SleepInv(RankOf(w))
  PROVE  SleepInv(RankOf(w))'
<1> PICK r \in Rank : r = RankOf(w)
  BY Constants
<1>1. /\ wpc[w] = "spin" /\ stopped[r] /\ wpc' = [wpc EXCEPT ![w] = "teardown"]
      /\ endedCount' = [endedCount EXCEPT ![r] = 0]
      /\ stopped' = [stopped EXCEPT ![r] = FALSE]
      /\ UNCHANGED <<dtwActive, sleeping, cpc>>
  BY DEF SeeStopped, Goto, commVars
<1>2. w \in WorkersOf(r) /\ dtwActive[r] /\ WorkersOf(r)' = WorkersOf(r)
  BY <1>1 DEF IdleInv, ActiveInv, WorkersOf
<1>3. \A v \in WorkersOf(r) : wpc'[v] \in {"teardown", "done"}
  BY <1>1, <1>2 DEF SleepInv, WorkersOf, TypeOK, AppTypeOK
<1>4. Waiting(r)' = {} /\ endedCount'[r] = 0 /\ stopped'[r] = FALSE
  BY <1>1, <1>2, <1>3 DEF Waiting, TypeOK, DtwTypeOK
<1>5. Asleep(r)'
  BY <1>1 DEF SleepInv, Asleep
<1> QED
  BY <1>1, <1>2, <1>3, <1>4, <1>5 DEF SleepInv

(* The tear-down leaves a sleeping communication thread asleep.            *)
LEMMA TeardownSleeps ==
  ASSUME TypeOK, IdleInv, NEW w \in Worker, Teardown(w), SleepInv(RankOf(w))
  PROVE  SleepInv(RankOf(w))'
<1> PICK r \in Rank : r = RankOf(w)
  BY Constants
<1>1. /\ wpc[w] = "teardown" /\ wpc' = [wpc EXCEPT ![w] = "done"]
      /\ \/ /\ finished[r] + 1 < Involved(r) /\ dtwActive' = dtwActive
         \/ /\ finished[r] + 1 >= Involved(r)
            /\ dtwActive' = [dtwActive EXCEPT ![r] = FALSE]
      /\ UNCHANGED <<endedCount, sleeping, stopped, cpc>>
  BY DEF Teardown, Goto, sleepVars, commVars
<1>2. w \in WorkersOf(r) /\ dtwActive[r] /\ WorkersOf(r)' = WorkersOf(r)
      /\ Involved(r) = NumThreads(r) /\ finished[r] = Cardinality(Done(r))
  BY <1>1 DEF IdleInv, ActiveInv, WorkersOf, Involved
<1>3. \A v \in WorkersOf(r) : wpc'[v] = IF v = w THEN "done" ELSE wpc[v]
  BY <1>1 DEF TypeOK, AppTypeOK, WorkersOf
<1>4. Waiting(r)' = Waiting(r) /\ Ended(r)' = Ended(r) /\ Asleep(r)' = Asleep(r)
  BY <1>1, <1>2, <1>3 DEF Waiting, Ended, Asleep
<1>5. ~dtwActive'[r] => Waiting(r) = {}
  <2>1. SUFFICES ASSUME ~dtwActive'[r]
                 PROVE  Waiting(r) = {}
    OBVIOUS
  <2>2. finished[r] + 1 >= NumThreads(r)
    BY <1>1, <1>2, <2>1
  <2>3. w \notin Done(r) /\ Done(r) \subseteq WorkersOf(r)
    BY <1>1 DEF Done
  <2> DEFINE S == Done(r) \cup {w}
  <2>4. S \subseteq WorkersOf(r) /\ Cardinality(S) = Cardinality(Done(r)) + 1
    BY <1>2, <2>3, TeamFinite, FS_AddElement
  <2>5. Cardinality(S) >= Cardinality(WorkersOf(r))
    BY <1>2, <2>2, <2>4 DEF NumThreads
  <2> HIDE DEF S
  <2>6. S = WorkersOf(r)
    <3>1. IsFiniteSet(WorkersOf(r)) /\ Cardinality(WorkersOf(r)) \in Nat
      BY TeamFinite, FS_CardinalityType
    <3>2. IsFiniteSet(S) /\ Cardinality(S) <= Cardinality(WorkersOf(r))
          /\ (Cardinality(S) = Cardinality(WorkersOf(r)) => S = WorkersOf(r))
      BY <2>4, <3>1, FS_Subset
    <3>3. Cardinality(S) \in Nat
      BY <3>2, FS_CardinalityType
    <3> QED
      BY <2>5, <3>1, <3>2, <3>3
  <2>7. \A v \in WorkersOf(r) : wpc[v] \in {"done", "teardown"}
    BY <1>1, <2>6 DEF S, Done
  <2> QED
    BY <2>7 DEF Waiting
<1>6. Waiting(r) = {} => Asleep(r) /\ ~stopped[r]
  BY <1>1, <1>2 DEF SleepInv
<1> QED
  BY <1>1, <1>2, <1>3, <1>4, <1>5, <1>6 DEF SleepInv

(* So do the steps a team takes together.                                  *)
LEMMA TeamSleeps ==
  ASSUME TypeOK, IdleInv, NEW r \in Rank, SleepInv(r), NEW q \in Rank, TeamStep(q)
  PROVE  SleepInv(r)'
<1>1. UNCHANGED SleepVars(r) /\ WorkersOf(r)' = WorkersOf(r)
  BY DEF TeamStep, LeaveBarrier, NextCycle, SleepVars, dtwVars, sleepVars, commVars,
         WorkersOf
<1>2. CASE q # r
  <2>1. \A w \in WorkersOf(r) : wpc'[w] = wpc[w]
    BY <1>2 DEF TeamStep, LeaveBarrier, NextCycle, WorkersOf
  <2> QED
    BY <1>1, <2>1, SleepSame
<1>3. CASE q = r /\ LeaveBarrier(r)
  <2>1. /\ \A w \in WorkersOf(r) : wpc[w] = "left"
        /\ \A w \in WorkersOf(r) : wpc'[w] = "sleep"
    BY <1>3 DEF LeaveBarrier, WorkersOf
  <2>2. PICK w \in WorkersOf(r) : TRUE
    BY ConstAssumption
  <2>3. Waiting(r) = {} /\ w \in Waiting(r)' /\ Ended(r)' = {}
    BY <1>1, <2>1 DEF Waiting, Ended
  <2>4. dtwActive[r] /\ Cardinality(Ended(r)') = 0
    BY <2>1, <2>3, FS_EmptySet DEF IdleInv, ActiveInv, WorkersOf
  <2> QED
    BY <1>1, <2>1, <2>3, <2>4 DEF SleepInv, SleepVars, Asleep
<1>4. CASE q = r /\ NextCycle(r)
  <2>1. PICK p \in {"work", "end"} :
          /\ \A w \in WorkersOf(r) : wpc[w] = "done"
          /\ \A w \in WorkersOf(r) : wpc'[w] = p
    BY <1>4 DEF NextCycle, WorkersOf
  <2>2. ~dtwActive[r]
    BY <2>1 DEF IdleInv, ActiveInv
  <2>3. Waiting(r) = {} /\ Waiting(r)' = {}
    BY <1>1, <2>1 DEF Waiting
  <2> QED
    BY <1>1, <2>1, <2>2, <2>3 DEF SleepInv, SleepVars, Asleep
<1> QED
  BY <1>2, <1>3, <1>4 DEF TeamStep

(* The steps of the communication threads keep the handshake too.          *)
LEMMA CommSleeps ==
  ASSUME TypeOK, IdleInv, NEW r \in Rank, SleepInv(r), NEW q \in Rank, CommStep(q)
  PROVE  SleepInv(r)'
<1>1. UNCHANGED <<wpc, dtwActive, endedCount>>
  BY DEF CommStep, CommSleep, CommBegin, Complete, CompleteSend, CompleteSendBack,
         CompleteBack, CompleteMeta, CompleteData, PostGather, CollectGather,
         StoreSum, CommExit, CommStay, Migrate, Polls, Poll, appVars, dtwVars
<1>2. WorkersOf(r)' = WorkersOf(r) /\ Waiting(r)' = Waiting(r) /\ Ended(r)' = Ended(r)
  BY <1>1 DEF WorkersOf, Waiting, Ended
<1>3. CASE CommExit(q)
  <2>1. /\ cpc[q] = "exit" /\ numIdle[q] >= Involved(q)
        /\ cpc' = [cpc EXCEPT ![q] = "top"] /\ sleeping' = [sleeping EXCEPT ![q] = TRUE]
        /\ stopped' = [stopped EXCEPT ![q] = TRUE]
    BY <1>3 DEF CommExit, ExitConditionMet, CommGoto
  <2>2. CASE q # r
    BY <1>1, <1>2, <2>1, <2>2 DEF SleepInv, Asleep, TypeOK, DtwTypeOK, CommTypeOK
  <2>3. CASE q = r
    <3>1. dtwActive[r] /\ ~Asleep(r)
      BY <2>1, <2>3 DEF SleepInv, Asleep
    <3>2. Cardinality(IdleWorkers(r)) >= Cardinality(WorkersOf(r))
      BY <2>1, <2>3, <3>1 DEF IdleInv, IdleCount, Involved, NumThreads
    <3>3. IdleWorkers(r) = WorkersOf(r)
      <4>1. IdleWorkers(r) \subseteq WorkersOf(r) /\ IsFiniteSet(WorkersOf(r))
        BY TeamFinite DEF IdleWorkers
      <4>2. Cardinality(IdleWorkers(r)) <= Cardinality(WorkersOf(r))
            /\ (Cardinality(IdleWorkers(r)) = Cardinality(WorkersOf(r))
                  => IdleWorkers(r) = WorkersOf(r))
        BY <4>1, FS_Subset
      <4>3. Cardinality(IdleWorkers(r)) \in Nat /\ Cardinality(WorkersOf(r)) \in Nat
        BY TeamFinite, FS_CardinalityType
      <4> QED
        BY <3>2, <4>2, <4>3
    <3>4. \A w \in WorkersOf(r) : wpc[w] # "work"
      BY <3>3 DEF IdleWorkers
    <3>5. ~(Waiting(r) = {} /\ \E w \in WorkersOf(r) : wpc[w] \in {"teardown", "done"})
      BY <3>1 DEF SleepInv
    <3>6. Asleep(r)'
      BY <2>1, <2>3 DEF Asleep, TypeOK, DtwTypeOK, CommTypeOK
    <3> QED
      BY <1>1, <1>2, <3>1, <3>4, <3>5, <3>6 DEF SleepInv
  <2> QED
    BY <2>2, <2>3
<1>4. CASE ~CommExit(q)
  <2>1. UNCHANGED <<sleeping, stopped>>
    BY <1>4
    DEF CommStep, CommSleep, CommBegin, Complete, CompleteSend, CompleteSendBack,
        CompleteBack, CompleteMeta, CompleteData, PostGather, CollectGather,
        StoreSum, CommStay, Migrate, Polls, Poll, sleepVars
  <2>2. Asleep(r) => cpc'[r] = "top"
    <3>1. CASE q = r
      <4>1. SUFFICES ASSUME Asleep(r)
                     PROVE  cpc'[r] = "top"
        OBVIOUS
      <4>2. CommSleep(r)
        BY <1>4, <3>1, <4>1
        DEF Asleep, CommStep, CommBegin, Complete, CompleteSend,
            CompleteSendBack, CompleteBack, CompleteMeta, CompleteData, PostGather,
            CollectGather, StoreSum, CommStay, Migrate, Polls, Poll, AtTest, AtMigrate,
            AtPoll
      <4> QED
        BY <4>1, <4>2 DEF CommSleep, Asleep
    <3>2. CASE q # r
      <4>1. cpc'[r] = cpc[r]
        BY <1>4, <3>2
        DEF CommStep, CommSleep, CommBegin, Complete, CompleteSend, CompleteSendBack,
            CompleteBack, CompleteMeta, CompleteData, PostGather, CollectGather,
            StoreSum, CommStay, Migrate, Polls, Poll, CommGoto, commVars, TypeOK,
            CommTypeOK
      <4> QED
        BY <4>1 DEF Asleep
    <3> QED
      BY <3>1, <3>2
  <2>3. Asleep(r) => Asleep(r)'
    BY <2>1, <2>2 DEF Asleep
  <2> QED
    BY <1>1, <1>2, <2>1, <2>3 DEF SleepInv
<1> QED
  BY <1>3, <1>4

(* The handshake of put_comm_threads_to_sleep is kept in every state.      *)
LEMMA SleepInvariant == Spec => [](\A r \in Rank : SleepInv(r))
<1>1. Init => \A r \in Rank : SleepInv(r)
  <2> SUFFICES ASSUME Init, NEW r \in Rank
               PROVE  SleepInv(r)
    OBVIOUS
  <2>1. Waiting(r) = {} /\ \A w \in WorkersOf(r) : wpc[w] = "work"
    BY DEF Init, Waiting, WorkersOf
  <2> QED
    BY <2>1 DEF Init, SleepInv, Asleep
<1>2. TypeOK /\ IdleInv /\ (\A r \in Rank : SleepInv(r)) /\ [Next]_vars
        => (\A r \in Rank : SleepInv(r))'
  <2> SUFFICES ASSUME TypeOK, IdleInv, \A r \in Rank : SleepInv(r), [Next]_vars,
                      NEW r \in Rank
               PROVE  SleepInv(r)'
    OBVIOUS
  <2>1. ASSUME NEW w \in Worker, WorkerStep(w)
        PROVE  SleepInv(r)'
    <3>1. CASE EnterTaskwait(w)
      BY <3>1, EnterWakes, SleepElsewhere
    <3>2. CASE PutCommToSleep(w) \/ SeeStopped(w) \/ Teardown(w)
      BY <3>2, SleepBegins, SleepEnds, TeardownSleeps, SleepElsewhere
    <3> QED
      BY <2>1, <3>1, <3>2, LoopSleeps DEF WorkerStep
  <2>2. ASSUME NEW q \in Rank, TeamStep(q) \/ CommStep(q)
        PROVE  SleepInv(r)'
    BY <2>2, TeamSleeps, CommSleeps
  <2>3. CASE UNCHANGED vars
    BY <2>3, SleepSame DEF vars, appVars, dtwVars, sleepVars, commVars, SleepVars
  <2> QED
    BY <2>1, <2>2, <2>3 DEF Next, Finished
<1> QED
  BY <1>1, <1>2, TypeCorrect, IdleInvariant, PTL DEF Spec

(* While a team is outside the taskwait its communication thread is at the *)
(* top of its loop and sleeps: it touches none of what the application     *)
(* changes there, although it is woken by the first thread that enters and *)
(* put to sleep by itself or by the last thread that leaves.               *)
THEOREM QuietWhileOutside == Spec => []QuietOutside
<1>1. (\A r \in Rank : SleepInv(r)) => QuietOutside
  BY DEF SleepInv, QuietOutside, Asleep
<1> QED
  BY <1>1, SleepInvariant, PTL
=============================================================================
