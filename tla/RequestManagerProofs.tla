------------------------ MODULE RequestManagerProofs ------------------------
(***************************************************************************)
(* The request manager keeps every request in one place, counts those that *)
(* wait exactly, and implements RequestGroups, for every number of         *)
(* threads, groups and requests and in every communication mode.           *)
(***************************************************************************)
EXTENDS RequestManager, FiniteSetTheorems, SequenceTheorems, TLAPS

(* A request that waits, and those of a group.                             *)
InQueue(r) == \E i \in 1 .. Len(queue) : queue[i] = r
InBatch(r, t) == \E i \in Held(t) : batch[t][i] = r
ToPush(r, t) == \E i \in Unpushed(t) : Members[arg[t]][i] = r
Waiting(r) == InQueue(r) \/ \E t \in Thread : InBatch(r, t) \/ ToPush(r, t)
Wait(g) == {r \in Range(Members[g]) : Waiting(r)}

(* The variables as the proofs need them.                                  *)
Typed ==
  /\ mode \in Modes /\ arrived \subseteq Request /\ posted \subseteq Group
  /\ queue \in Seq(Request) /\ batch \in [Thread -> Seq(Request)]
  /\ outstanding \in [Group -> Nat]
  /\ pc \in [Thread -> {"idle", "testall", "push", "handle", "grab", "testsome",
                        "next", "erase"}]
  /\ arg \in [Thread -> Group \cup {NoGroup}] /\ cur \in [Thread -> Group \cup {NoGroup}]
  /\ left \in [Thread -> Nat] /\ hits \in [Thread -> SUBSET Nat] /\ ran \in [Group -> Nat]

(* Where a thread is says what it holds.                                   *)
Control(t) ==
  /\ arg[t] # NoGroup <=> pc[t] \in {"testall", "push", "handle"}
  /\ pc[t] \in {"idle", "grab", "testsome", "next"} => cur[t] = NoGroup
  /\ pc[t] = "erase" => cur[t] # NoGroup
  /\ pc[t] \in {"idle", "testsome", "testall", "handle", "erase"} => left[t] = 0
  /\ pc[t] = "push" => left[t] < Len(Members[arg[t]])
  /\ pc[t] = "next" /\ left[t] # 0 =>
       hits[t] = {} /\ mode = 3 /\ t # Comm /\ left[t] <= Len(batch[t])
  /\ hits[t] # {} => pc[t] = "next" \/ cur[t] # NoGroup
  /\ \A i \in hits[t] : i \in 1 .. Len(batch[t]) /\ batch[t][i] \in arrived
  /\ pc[t] = "grab" => left[t] <= Cardinality(Request) + 1

(* No request is in two places.                                            *)
Apart ==
  /\ \A t \in Thread : \A i, j \in 1 .. Len(batch[t]) : batch[t][i] = batch[t][j] => i = j
  /\ \A i, j \in 1 .. Len(queue) : queue[i] = queue[j] => i = j
  /\ \A t, u \in Thread : \A i \in Held(t), j \in Held(u) :
       batch[t][i] = batch[u][j] => t = u /\ i = j
  /\ \A r \in Request, t \in Thread : ~(InQueue(r) /\ InBatch(r, t))
  /\ \A r \in Request, t \in Thread : ToPush(r, t) =>
       ~InQueue(r) /\ \A u \in Thread : ~InBatch(r, u)

(* What a thread knows of the group it posts or handles, or of the group   *)
(* whose handler it runs inside progressRequests.                          *)
ArgKnown ==
  /\ \A t, u \in Thread : arg[t] = arg[u] /\ arg[t] # NoGroup => t = u
  /\ \A t \in Thread : arg[t] # NoGroup => arg[t] \in posted /\ ran[arg[t]] = 0
  /\ \A t \in Thread : pc[t] \in {"testall", "handle"} => Wait(arg[t]) = {}
  /\ \A t \in Thread : pc[t] = "handle" => Range(Members[arg[t]]) \subseteq arrived
CurKnown ==
  \A t \in Thread : cur[t] # NoGroup =>
    /\ cur[t] \in posted /\ Wait(cur[t]) = {}
    /\ \A u \in Thread : arg[u] = cur[t] => pc[u] = "handle"

(* A group is posted once, and until its handler has run each of its       *)
(* requests waits or has arrived.                                          *)
GroupKnown(g) ==
  /\ Wait(g) # {} \/ ran[g] # 0 => g \in posted
  /\ Wait(g) = {} \/ ran[g] = 0
  /\ ran[g] \in {0, 1}
  /\ g \in posted => IsFirst(g) \/ \E h \in Group : Follow[h] = g /\ ran[h] # 0
  /\ g \in posted =>
       \/ \A r \in Range(Members[g]) : Waiting(r) \/ r \in arrived
       \/ \E t \in Thread : pc[t] = "testall" /\ arg[t] = g

(* Only requests of groups complete.                                       *)
Origin == \A r \in arrived : \E g \in Group : r \in Range(Members[g])

Counted == \A g \in Group : outstanding[g] = Cardinality(Wait(g))

Inv == /\ Typed /\ (\A t \in Thread : Control(t)) /\ Apart /\ ArgKnown /\ CurKnown
       /\ (\A g \in Group : GroupKnown(g)) /\ Origin /\ Counted
-----------------------------------------------------------------------------
(* A group has at least one request; each has a position.                  *)
LEMMA GroupFacts ==
  ASSUME NEW g \in Group
  PROVE  /\ Members[g] \in Seq(Request) /\ Len(Members[g]) \in Nat \ {0}
         /\ \A i \in 1 .. Len(Members[g]) :
              Members[g][i] \in Request /\ Members[g][i] \in Range(Members[g])
         /\ \A r \in Range(Members[g]) :
              r \in Request /\ \E i \in 1 .. Len(Members[g]) : Members[g][i] = r
         /\ g # NoGroup
<1>1. Members[g] \in Seq(Request) /\ Members[g] # <<>> /\ g # NoGroup
  BY ManagerAssumption
<1>2. Len(Members[g]) \in Nat \ {0} /\ DOMAIN Members[g] = 1 .. Len(Members[g])
  BY <1>1, EmptySeq, LenProperties
<1>3. \A i \in 1 .. Len(Members[g]) : Members[g][i] \in Request
  BY <1>1, ElementOfSeq
<1> QED
  BY <1>1, <1>2, <1>3 DEF Range

(* A request is in one group.                                              *)
LEMMA OneGroup ==
  ASSUME NEW g \in Group, NEW h \in Group, NEW r,
         r \in Range(Members[g]), r \in Range(Members[h])
  PROVE  g = h
BY ManagerAssumption DEF Range

(* A request is at one position of its group.                              *)
LEMMA OnePosition ==
  ASSUME NEW g \in Group, NEW i \in 1 .. Len(Members[g]), NEW j \in 1 .. Len(Members[g]),
         Members[g][i] = Members[g][j]
  PROVE  i = j
<1>1. DOMAIN Members[g] = 1 .. Len(Members[g])
  BY GroupFacts, LenProperties
<1> QED
  BY <1>1, ManagerAssumption

(* GroupOf finds the group of a request.                                   *)
LEMMA GroupOfRequest ==
  ASSUME NEW g \in Group, NEW r \in Range(Members[g])
  PROVE  GroupOf(r) = g
BY OneGroup DEF GroupOf

(* A sequence of distinct requests is no longer than there are requests.   *)
LEMMA DistinctIsShort ==
  ASSUME NEW s \in Seq(Request),
         \A i, j \in 1 .. Len(s) : s[i] = s[j] => i = j
  PROVE  Len(s) \in Nat /\ Len(s) <= Cardinality(Request)
<1>1. Len(s) \in Nat /\ s \in [1 .. Len(s) -> Request]
  BY LenProperties
<1>2. s \in Injection(1 .. Len(s), Request)
  BY <1>1 DEF Injection, IsInjective
<1>3. Cardinality(1 .. Len(s)) <= Cardinality(Request)
  BY <1>2, FS_Injection, ManagerAssumption
<1>4. Cardinality(1 .. Len(s)) = Len(s)
  BY <1>1, FS_Interval, SMTT(30)
<1> QED
  BY <1>1, <1>3, <1>4

(* A group has as many requests as positions.                              *)
LEMMA GroupSize ==
  ASSUME NEW g \in Group
  PROVE  /\ Cardinality(Range(Members[g])) = Len(Members[g])
         /\ IsFiniteSet(Range(Members[g]))
         /\ Len(Members[g]) <= Cardinality(Request)
<1> DEFINE m == Members[g]
<1>1. m \in [1 .. Len(m) -> Range(m)] /\ Len(m) \in Nat
  BY GroupFacts, LenProperties DEF Range
<1>2. m \in Bijection(1 .. Len(m), Range(m))
  <2>1. \A i, j \in 1 .. Len(m) : m[i] = m[j] => i = j
    BY OnePosition
  <2>2. \A r \in Range(m) : \E i \in 1 .. Len(m) : m[i] = r
    BY GroupFacts
  <2> HIDE DEF m
  <2>3. m \in Injection(1 .. Len(m), Range(m))
    BY <1>1, <2>1 DEF Injection, IsInjective
  <2>4. m \in Surjection(1 .. Len(m), Range(m))
    BY <1>1, <2>2 DEF Surjection
  <2> QED
    BY <2>3, <2>4 DEF Bijection
<1>3. IsFiniteSet(1 .. Len(m)) /\ Cardinality(1 .. Len(m)) = Len(m)
  <2> HIDE DEF m
  <2>1. 1 \in Int /\ Len(m) \in Int
    BY <1>1
  <2>2. /\ IsFiniteSet(1 .. Len(m))
        /\ Cardinality(1 .. Len(m)) = IF 1 > Len(m) THEN 0 ELSE Len(m) - 1 + 1
    BY <2>1, FS_Interval
  <2> QED
    BY <1>1, <2>2
<1>4. ExistsBijection(1 .. Len(m), Range(m))
  BY <1>2 DEF ExistsBijection
<1>5. IsFiniteSet(Range(m)) /\ Cardinality(Range(m)) = Len(m)
  BY <1>3, <1>4, FS_Bijection
<1>6. Len(m) <= Cardinality(Request)
  BY DistinctIsShort, GroupFacts, OnePosition
<1> QED
  BY <1>5, <1>6

(* The requests that wait are counted; none wait when the count is 0.      *)
LEMMA WaitFinite ==
  ASSUME NEW g \in Group
  PROVE  /\ IsFiniteSet(Wait(g)) /\ Cardinality(Wait(g)) \in Nat
         /\ Cardinality(Wait(g)) = 0 <=> Wait(g) = {}
<1>1. IsFiniteSet(Wait(g))
  BY GroupSize, FS_Subset DEF Wait
<1> QED
  BY <1>1, FS_CardinalityType, FS_EmptySet

(* Taking out one element of a sequence.                                   *)
LEMMA RemoveAtFacts ==
  ASSUME NEW s \in Seq(Request), NEW i \in 1 .. Len(s)
  PROVE  /\ RemoveAt(s, i) \in Seq(Request)
         /\ Len(RemoveAt(s, i)) = Len(s) - 1
         /\ \A k \in 1 .. Len(s) - 1 :
              RemoveAt(s, i)[k] = IF k < i THEN s[k] ELSE s[k + 1]
<1> DEFINE a == SubSeq(s, 1, i - 1)
           b == SubSeq(s, i + 1, Len(s))
<1>1. Len(s) \in Nat /\ \A k \in 1 .. Len(s) : s[k] \in Request
  BY LenProperties, ElementOfSeq
<1>2. /\ a \in Seq(Request) /\ Len(a) = i - 1
      /\ \A k \in 1 .. i - 1 : a[k] = s[k]
  <2>1. 1 \in Int /\ i - 1 \in Int /\ \A k \in 1 .. i - 1 : s[k] \in Request
    BY <1>1
  <2>2. /\ a \in Seq(Request) /\ Len(a) = IF 1 <= i - 1 THEN (i - 1) - 1 + 1 ELSE 0
        /\ \A k \in 1 .. (i - 1) - 1 + 1 : a[k] = s[1 + k - 1]
    BY <2>1, SubSeqProperties
  <2> QED
    BY <2>2, <1>1
<1>3. /\ b \in Seq(Request) /\ Len(b) = Len(s) - i
      /\ \A k \in 1 .. Len(s) - i : b[k] = s[i + k]
  <2>1. i + 1 \in Int /\ Len(s) \in Int /\ \A k \in i + 1 .. Len(s) : s[k] \in Request
    BY <1>1
  <2>2. /\ b \in Seq(Request)
        /\ Len(b) = IF i + 1 <= Len(s) THEN Len(s) - (i + 1) + 1 ELSE 0
        /\ \A k \in 1 .. Len(s) - (i + 1) + 1 : b[k] = s[(i + 1) + k - 1]
    BY <2>1, SubSeqProperties
  <2> QED
    BY <2>2, <1>1
<1>4. /\ a \o b \in Seq(Request) /\ Len(a \o b) = Len(a) + Len(b)
      /\ \A k \in 1 .. Len(a) + Len(b) :
           (a \o b)[k] = IF k <= Len(a) THEN a[k] ELSE b[k - Len(a)]
  BY <1>2, <1>3, ConcatProperties
<1>5. RemoveAt(s, i) = a \o b
  BY DEF RemoveAt
<1> HIDE DEF a, b
<1>6. ASSUME NEW k \in 1 .. Len(s) - 1
      PROVE  (a \o b)[k] = IF k < i THEN s[k] ELSE s[k + 1]
  <2>1. (a \o b)[k] = IF k <= Len(a) THEN a[k] ELSE b[k - Len(a)]
    BY <1>1, <1>2, <1>3, <1>4
  <2>2. CASE k < i
    BY <2>1, <2>2, <1>2
  <2>3. CASE ~(k < i)
    <3>1. k - Len(a) \in 1 .. Len(s) - i /\ i + (k - Len(a)) = k + 1
      BY <2>3, <1>1, <1>2
    <3>2. b[k - Len(a)] = s[i + (k - Len(a))]
      BY <3>1, <1>3
    <3> QED
      BY <2>1, <2>3, <3>1, <3>2, <1>2
  <2> QED
    BY <2>2, <2>3
<1> QED
  BY <1>1, <1>2, <1>3, <1>4, <1>5, <1>6

(* A set of naturals has a least element.                                  *)
LEMMA LeastOf ==
  ASSUME NEW S \in SUBSET Nat, S # {}
  PROVE  \E k \in S : \A l \in S : k <= l
<1>1. PICK k \in S : \A l \in S : ~ (<<l, k>> \in OpToRel(<, Nat))
  BY NatLessThanWellFounded, WFMin
<1>2. \A l \in S : ~ (l < k)
  BY <1>1 DEF OpToRel
<1> QED
  BY <1>2

(* A bounded set of naturals has a greatest element.                       *)
LEMMA Highest ==
  ASSUME NEW S \in SUBSET Nat, S # {}, NEW n \in Nat, \A k \in S : k <= n
  PROVE  \E k \in S : \A l \in S : k >= l
<1> DEFINE D == {d \in Nat : \E k \in S : d = n - k}
<1>1. \A l \in S : n - l \in D
  OBVIOUS
<1>2. D \in SUBSET Nat /\ D # {}
  BY <1>1
<1>3. PICK d \in D : \A e \in D : d <= e
  BY <1>2, LeastOf
<1>4. PICK k \in S : d = n - k
  BY <1>3
<1>5. \A l \in S : k >= l
  <2> TAKE l \in S
  <2>1. d <= n - l /\ l \in Nat /\ k \in Nat
    BY <1>1, <1>3
  <2> QED
    BY <2>1, <1>4
<1> QED
  BY <1>5

-----------------------------------------------------------------------------
(* Who waits does not change.                                              *)
Still == \A g \in Group : Wait(g)' = Wait(g)

(* A step that leaves what threads hold where it is.                       *)
LeavesPlaces ==
  /\ queue' = queue
  /\ \A t \in Thread :
       /\ Held(t)' = Held(t) /\ \A i \in Held(t) : batch'[t][i] = batch[t][i]
       /\ \/ batch'[t] = batch[t]
          \/ batch'[t] = <<>>
       /\ Unpushed(t)' = Unpushed(t)
       /\ Unpushed(t) # {} => arg'[t] = arg[t]

(* If nothing else waits, every group's waiting requests stay.             *)
LEMMA StillIfSame ==
  ASSUME \A r \in Request : Waiting(r)' <=> Waiting(r)
  PROVE  Still
<1> SUFFICES ASSUME NEW g \in Group
             PROVE  Wait(g)' = Wait(g)
  BY DEF Still
<1>1. \A r \in Range(Members[g]) : Waiting(r)' <=> Waiting(r)
  BY GroupFacts
<1> QED
  BY <1>1 DEF Wait

(* A step that only leaves places keeps requests apart.                    *)
LEMMA PlacesKept ==
  ASSUME Apart, LeavesPlaces
  PROVE  Apart' /\ Still
<1>1. \A r : InQueue(r)' <=> InQueue(r)
  BY DEF LeavesPlaces, InQueue
<1>2. \A r : \A t \in Thread : InBatch(r, t)' <=> InBatch(r, t)
  BY DEF LeavesPlaces, InBatch
<1>3. \A r : \A t \in Thread : ToPush(r, t)' <=> ToPush(r, t)
  BY DEF LeavesPlaces, ToPush
<1>4. Still
  <2>1. \A r \in Request : Waiting(r)' <=> Waiting(r)
    BY <1>1, <1>2, <1>3 DEF Waiting
  <2> QED
    BY <2>1, StillIfSame
<1>5. \A t \in Thread : \A i, j \in 1 .. Len(batch'[t]) :
        batch'[t][i] = batch'[t][j] => i = j
  <2>1. Len(<<>>) = 0
    OBVIOUS
  <2> QED
    BY <2>1 DEF LeavesPlaces, Apart
<1>6. \A i, j \in 1 .. Len(queue') : queue'[i] = queue'[j] => i = j
  BY DEF LeavesPlaces, Apart
<1>7. \A t, u \in Thread : \A i \in Held(t)', j \in Held(u)' :
        batch'[t][i] = batch'[u][j] => t = u /\ i = j
  BY DEF LeavesPlaces, Apart
<1>8. Apart'
  BY <1>1, <1>2, <1>3, <1>5, <1>6, <1>7 DEF Apart
<1> QED
  BY <1>4, <1>8

(* A step that neither posts nor completes: what is known of the groups    *)
(* stays true.                                                             *)
Quiet ==
  /\ Still /\ posted' = posted /\ ran' = ran
  /\ arrived \subseteq arrived'
  /\ \A u \in Thread :
       /\ \/ arg'[u] = arg[u] /\ (pc[u] = "testall" <=> pc'[u] = "testall")
             /\ (pc[u] = "handle" <=> pc'[u] = "handle")
          \/ arg'[u] = NoGroup /\ pc[u] = "push" /\ pc'[u] \notin {"testall", "handle"}
       /\ cur'[u] \in {cur[u], NoGroup}
  /\ \/ outstanding' = outstanding
     \/ \E t \in Thread : /\ cur[t] # NoGroup
                          /\ outstanding' = [outstanding EXCEPT ![cur[t]] = 0]

(* A step that completes nothing keeps what is known and counted.          *)
LEMMA QuietKeeps ==
  ASSUME Inv, Quiet
  PROVE  ArgKnown' /\ CurKnown' /\ (\A g \in Group : GroupKnown(g)') /\ Counted'
<1>0. /\ \A u \in Thread : arg[u] \in Group \cup {NoGroup} /\ cur[u] \in Group \cup {NoGroup}
      /\ \A u \in Thread : pc[u] \in {"testall", "handle"} => arg[u] \in Group
  BY DEF Inv, Typed, Control
<1>1. ArgKnown'
  <2>1. \A t, u \in Thread : arg'[t] = arg'[u] /\ arg'[t] # NoGroup => t = u
    BY DEF Inv, ArgKnown, Quiet
  <2>2. \A t \in Thread : arg'[t] # NoGroup => arg'[t] \in posted' /\ ran'[arg'[t]] = 0
    BY DEF Inv, ArgKnown, Quiet
  <2>3. \A t \in Thread : pc'[t] \in {"testall", "handle"} =>
          arg'[t] = arg[t] /\ pc'[t] = pc[t]
    BY DEF Quiet
  <2>4. ASSUME NEW t \in Thread, pc'[t] \in {"testall", "handle"}
        PROVE  Wait(arg[t])' = {}
    <3>1. PICK g \in Group : g = arg[t] /\ g = arg'[t] /\ Wait(g) = {}
      BY <2>3, <2>4, <1>0 DEF Inv, ArgKnown
    <3>2. Wait(g)' = {}
      BY <3>1 DEF Quiet, Still
    <3> QED
      BY <3>1, <3>2
  <2>5. \A t \in Thread : pc'[t] = "handle" => Range(Members[arg'[t]]) \subseteq arrived'
    BY <2>3, <1>0 DEF Inv, ArgKnown, Quiet
  <2> QED
    BY <2>1, <2>2, <2>4, <2>5 DEF ArgKnown
<1>2. CurKnown'
  <2> SUFFICES ASSUME NEW t \in Thread, cur'[t] # NoGroup
               PROVE  /\ cur'[t] \in posted' /\ Wait(cur[t])' = {}
                      /\ \A u \in Thread : arg'[u] = cur'[t] => pc'[u] = "handle"
    BY DEF CurKnown
  <2>1. PICK g \in Group : g = cur[t] /\ g = cur'[t]
    BY <1>0 DEF Quiet
  <2>2. g \in posted /\ Wait(g) = {} /\ \A u \in Thread : arg[u] = g => pc[u] = "handle"
    BY <2>1, GroupFacts, ZenonT(30) DEF Inv, CurKnown
  <2>3. Wait(g)' = {} /\ g \in posted' /\ \A u \in Thread : arg'[u] = g => pc'[u] = "handle"
    BY <2>2, GroupFacts DEF Quiet, Still
  <2> QED
    BY <2>1, <2>3
<1>3. ASSUME NEW g \in Group
      PROVE  GroupKnown(g)'
  <2>1. Wait(g)' = Wait(g) /\ posted' = posted /\ ran' = ran /\ arrived \subseteq arrived'
    BY DEF Quiet, Still
  <2>2. \A t \in Thread : pc[t] = "testall" /\ arg[t] = g => pc'[t] = "testall" /\ arg'[t] = g
    BY DEF Quiet
  <2>3. GroupKnown(g)
    BY DEF Inv
  <2>4. \A r \in Range(Members[g]) : Waiting(r) => Waiting(r)'
    BY <2>1 DEF Wait
  <2> QED
    BY <2>1, <2>2, <2>3, <2>4 DEF GroupKnown
<1>4. Counted'
  <2>1. CASE outstanding' = outstanding
    BY <2>1 DEF Inv, Counted, Quiet, Still
  <2>2. ASSUME NEW t \in Thread, cur[t] # NoGroup,
               outstanding' = [outstanding EXCEPT ![cur[t]] = 0]
        PROVE  Counted'
    <3>1. PICK g \in Group : g = cur[t] /\ Wait(g) = {}
      BY <1>0, <2>2 DEF Inv, CurKnown
    <3>2. Cardinality(Wait(g)') = 0
      BY <3>1, FS_EmptySet DEF Quiet, Still
    <3>3. outstanding' = [outstanding EXCEPT ![g] = 0]
      BY <2>2, <3>1
    <3>4. ASSUME NEW h \in Group
          PROVE  outstanding'[h] = Cardinality(Wait(h)')
      <4>1. outstanding[h] = Cardinality(Wait(h)) /\ Wait(h)' = Wait(h)
        BY DEF Inv, Counted, Quiet, Still
      <4>2. outstanding'[h] = IF h = g THEN 0 ELSE outstanding[h]
        BY <3>3 DEF Inv, Typed
      <4> QED
        BY <3>2, <4>1, <4>2
    <3> QED
      BY <3>4 DEF Counted
  <2> QED
    BY <2>1, <2>2 DEF Quiet
<1> QED
  BY <1>1, <1>2, <1>3, <1>4

(* A step that completes nothing and keeps the places keeps the invariant. *)
LEMMA QuietStep ==
  ASSUME Inv, Typed', \A t \in Thread : Control(t)', Apart', Quiet, Origin'
  PROVE  Inv'
BY QuietKeeps DEF Inv

(* A request completes in the library.                                     *)
LEMMA ArriveKeeps ==
  ASSUME Inv, NEW r \in Request, Arrive(r)
  PROVE  Inv'
<1>1. Typed'
  BY DEF Inv, Typed, Arrive
<1>2. \A t \in Thread : Control(t)'
  BY DEF Inv, Control, Arrive
<1>3. LeavesPlaces
  BY DEF LeavesPlaces, Arrive, Held, Unpushed
<1>4. Apart' /\ Still
  BY <1>3, PlacesKept DEF Inv
<1>5. Quiet
  BY <1>4 DEF Quiet, Arrive
<1>6. Origin'
  BY DEF Inv, Typed, Origin, Arrive
<1> QED
  BY <1>1, <1>2, <1>4, <1>5, <1>6, QuietStep

(* MPI_Testsome marks completed requests.                                  *)
LEMMA TestSomeKeeps ==
  ASSUME Inv, NEW t \in Thread, TestSome(t)
  PROVE  Inv'
<1>1. DOMAIN batch[t] = 1 .. Len(batch[t]) /\ Len(batch[t]) \in Nat
  BY LenProperties DEF Inv, Typed
<1>2. Typed'
  BY <1>1 DEF Inv, Typed, TestSome, Goto
<1>3. ASSUME NEW u \in Thread
      PROVE  Control(u)'
  <2>1. Control(u)
    BY DEF Inv
  <2> QED
    BY <1>1, <2>1 DEF Inv, Typed, Control, TestSome, Goto
<1>4. LeavesPlaces
  <2>1. \A u \in Thread : Held(u)' = Held(u) /\ Unpushed(u)' = Unpushed(u)
    <3> TAKE u \in Thread
    <3>1. Control(u)
      BY DEF Inv
    <3> QED
      BY <3>1, <1>1 DEF Inv, Typed, Control, TestSome, Goto, Held, Unpushed
  <2> QED
    BY <2>1 DEF LeavesPlaces, TestSome
<1>5. Apart' /\ Still
  BY <1>4, PlacesKept DEF Inv
<1>6. Quiet
  BY <1>5 DEF Quiet, TestSome, Inv, Typed, Goto
<1>7. Origin'
  BY DEF Inv, Origin, TestSome
<1> QED
  BY <1>2, <1>3, <1>5, <1>6, <1>7, QuietStep

(* The entry of a group whose handler has run is erased.                   *)
LEMMA EraseKeeps ==
  ASSUME Inv, NEW t \in Thread, Erase(t)
  PROVE  Inv'
<1>0. cur[t] \in Group /\ cur[t] # NoGroup /\ Control(t)
  BY DEF Inv, Typed, Control, Erase
<1>1. Typed'
  BY <1>0 DEF Inv, Typed, Erase, Goto
<1>2. ASSUME NEW u \in Thread
      PROVE  Control(u)'
  <2>1. Control(u)
    BY DEF Inv
  <2> QED
    BY <1>0, <2>1 DEF Inv, Typed, Control, Erase, Goto
<1>3. LeavesPlaces
  <2>1. \A u \in Thread : Held(u)' = Held(u) /\ Unpushed(u)' = Unpushed(u)
    BY <1>0 DEF Inv, Typed, Control, Erase, Goto, Held, Unpushed
  <2> QED
    BY <2>1 DEF LeavesPlaces, Erase
<1>4. Apart' /\ Still
  BY <1>3, PlacesKept DEF Inv
<1>5. Quiet
  <2>1. \E u \in Thread : /\ cur[u] # NoGroup
                          /\ outstanding' = [outstanding EXCEPT ![cur[u]] = 0]
    BY <1>0 DEF Erase
  <2> QED
    BY <1>4, <2>1 DEF Quiet, Erase, Inv, Typed, Goto
<1>6. Origin'
  BY DEF Inv, Origin, Erase
<1> QED
  BY <1>1, <1>2, <1>4, <1>5, <1>6, QuietStep

(* A grab takes at most one request more than there are.                   *)
LEMMA ToGrabBound ==
  ASSUME Inv, NEW t \in Thread, batch[t] = <<>>, queue # <<>>
  PROVE  ToGrab(t) \in Nat /\ ToGrab(t) <= Cardinality(Request) + 1
<1>1. Len(queue) \in Nat \ {0} /\ Len(queue) <= Cardinality(Request)
  BY DistinctIsShort, EmptySeq DEF Inv, Typed, Apart
<1>2. Cardinality(Request) \in Nat /\ Cardinality(Thread) \in Nat \ {0}
  BY ManagerAssumption, FS_CardinalityType, FS_EmptySet
<1>3. Len(queue) \div Cardinality(Thread) \in 0 .. Len(queue)
  <2>1. \A n, k \in Nat : k # 0 => n \div k \in 0 .. n
    OBVIOUS
  <2> QED
    BY <1>1, <1>2, <2>1
<1>4. Len(queue) \div 2 \in 0 .. Len(queue)
  BY <1>1
<1> QED
  BY <1>1, <1>2, <1>3, <1>4 DEF ToGrab, AtLeast2

(* A thread begins to progress requests.                                   *)
LEMMA ProgressKeeps ==
  ASSUME Inv, NEW t \in Thread, Progress(t)
  PROVE  Inv'
<1>0. batch[t] = <<>> => ToGrab(t) \in Nat /\ ToGrab(t) <= Cardinality(Request) + 1
  BY ToGrabBound DEF Progress
<1>1. Typed'
  BY <1>0, ZenonT(30) DEF Inv, Typed, Progress, Goto
<1>2. ASSUME NEW u \in Thread
      PROVE  Control(u)'
  <2>1. Control(u)
    BY DEF Inv
  <2> QED
    BY <1>0, <2>1 DEF Inv, Typed, Control, Progress, Goto
<1>3. LeavesPlaces
  <2>1. \A u \in Thread : Held(u)' = Held(u) /\ Unpushed(u)' = Unpushed(u)
    BY DEF Inv, Typed, Progress, Goto, Held, Unpushed
  <2> QED
    BY <2>1 DEF LeavesPlaces, Progress
<1>4. Apart' /\ Still
  BY <1>3, PlacesKept DEF Inv
<1>5. Quiet
  BY <1>4 DEF Quiet, Progress, Inv, Typed, Goto
<1>6. Origin'
  BY DEF Inv, Origin, Progress
<1> QED
  BY <1>1, <1>2, <1>4, <1>5, <1>6, QuietStep

-----------------------------------------------------------------------------
(* A request moves from the head of the queue to the end of a batch.       *)
LEMMA GrabMoves ==
  ASSUME Inv, NEW t \in Thread, Grab(t), left[t] > 0, queue # <<>>
  PROVE  Apart' /\ Still
<1> DEFINE n == Len(batch[t])
           m == Len(queue)
<1>0. /\ queue \in Seq(Request) /\ batch[t] \in Seq(Request)
      /\ n \in Nat /\ m \in Nat \ {0}
  BY EmptySeq, LenProperties DEF Inv, Typed
<1>1. PICK x \in Request : x = queue[1] /\ x = Head(queue)
  BY <1>0, ElementOfSeq
<1>2. /\ queue' \in Seq(Request) /\ Len(queue') = m - 1
      /\ \A i \in 1 .. m - 1 : queue'[i] = queue[i + 1]
  BY <1>0, <1>1, HeadTailProperties, ZenonT(30) DEF Grab
<1>3. /\ batch'[t] = Append(batch[t], x) /\ Len(batch'[t]) = n + 1
      /\ \A i \in 1 .. n : batch'[t][i] = batch[t][i]
      /\ batch'[t][n + 1] = x
      /\ \A u \in Thread \ {t} : batch'[u] = batch[u]
  <2>1. batch'[t] = Append(batch[t], x) /\ \A u \in Thread \ {t} : batch'[u] = batch[u]
    BY <1>0, <1>1 DEF Grab, Inv, Typed
  <2> QED
    BY <1>0, <1>1, <2>1, AppendProperties
<1>4. /\ Held(t) = 1 .. n /\ Held(t)' = 1 .. n + 1
      /\ \A u \in Thread \ {t} : Held(u)' = Held(u)
      /\ \A u \in Thread : Unpushed(u)' = Unpushed(u) /\ arg'[u] = arg[u]
  BY <1>3 DEF Grab, Inv, Typed, Held, Unpushed
<1> HIDE DEF n, m
<1>5. \A r : InQueue(r) <=> r = x \/ InQueue(r)'
  <2> TAKE r
  <2>1. InQueue(r) <=> \E i \in 1 .. m : queue[i] = r
    BY DEF InQueue, m
  <2>2. InQueue(r)' <=> \E i \in 1 .. m - 1 : queue[i + 1] = r
    BY <1>2 DEF InQueue
  <2>3. \A i \in 1 .. m : i = 1 \/ (i - 1 \in 1 .. m - 1 /\ i = (i - 1) + 1)
    BY <1>0
  <2>4. \A i \in 1 .. m - 1 : i + 1 \in 1 .. m
    BY <1>0
  <2>5. 1 \in 1 .. m /\ queue[1] = x
    BY <1>0, <1>1
  <2> QED
    BY <2>1, <2>2, <2>3, <2>4, <2>5
<1>6. ~InQueue(x)'
  <2>1. \A i \in 1 .. m - 1 : i + 1 \in 1 .. m /\ i + 1 # 1 /\ 1 \in 1 .. m
    BY <1>0
  <2>2. \A i \in 1 .. m - 1 : queue[i + 1] # queue[1]
    BY <2>1 DEF Inv, Apart, m
  <2> QED
    BY <1>0, <1>1, <1>2, <2>2 DEF InQueue
<1>7. \A r : /\ InBatch(r, t)' <=> r = x \/ InBatch(r, t)
             /\ \A u \in Thread \ {t} : InBatch(r, u)' <=> InBatch(r, u)
  <2>1. \A i \in 1 .. n + 1 : i = n + 1 \/ i \in 1 .. n
    BY <1>0
  <2>2. n + 1 \in 1 .. n + 1 /\ 1 .. n \subseteq 1 .. n + 1
    BY <1>0
  <2> QED
    BY <1>3, <1>4, <2>1, <2>2 DEF InBatch
<1>8. \A r : \A u \in Thread : ToPush(r, u)' <=> ToPush(r, u)
  BY <1>4 DEF ToPush
<1>9. \A u \in Thread : ~InBatch(x, u) /\ ~ToPush(x, u)
  <2>1. InQueue(x) /\ x \in Request
    BY <1>0, <1>1, <1>5
  <2> QED
    BY <2>1 DEF Inv, Apart
<1>10. Still
  <2>1. \A r \in Request : Waiting(r)' <=> Waiting(r)
    BY <1>5, <1>7, <1>8 DEF Waiting
  <2> QED
    BY <2>1, StillIfSame
<1>11. \A u \in Thread : \A i, j \in 1 .. Len(batch'[u]) : batch'[u][i] = batch'[u][j] => i = j
  <2>1. \A i \in 1 .. n : batch[t][i] # x
    BY <1>4, <1>9 DEF InBatch
  <2>2. \A i \in 1 .. n + 1 : i = n + 1 \/ i \in 1 .. n
    BY <1>0
  <2>3. \A i, j \in 1 .. n : batch[t][i] = batch[t][j] => i = j
    BY DEF Inv, Apart, n
  <2>4. \A i, j \in 1 .. Len(batch'[t]) : batch'[t][i] = batch'[t][j] => i = j
    BY <1>3, <2>1, <2>2, <2>3
  <2> QED
    BY <1>3, <2>4 DEF Inv, Apart
<1>12. \A i, j \in 1 .. Len(queue') : queue'[i] = queue'[j] => i = j
  <2>1. \A i \in 1 .. m - 1 : i + 1 \in 1 .. m
    BY <1>0
  <2>2. \A i, j \in 1 .. m - 1 : queue[i + 1] = queue[j + 1] => i + 1 = j + 1
    BY <2>1 DEF Inv, Apart, m
  <2>3. \A i, j \in 1 .. m - 1 : i + 1 = j + 1 => i = j
    BY <1>0
  <2> QED
    BY <1>2, <2>2, <2>3
<1>13. \A u, v \in Thread : \A i \in Held(u)', j \in Held(v)' :
         batch'[u][i] = batch'[v][j] => u = v /\ i = j
  <2>1. \A u \in Thread : \A i \in Held(u) : i \in Held(u)' /\ batch'[u][i] = batch[u][i]
    <3>1. \A i \in 1 .. n : i \in 1 .. n + 1
      BY <1>0
    <3> QED
      BY <1>3, <1>4, <3>1
  <2>2. \A u \in Thread : \A i \in Held(u)' :
          i \in Held(u) \/ (u = t /\ i = n + 1 /\ batch'[u][i] = x)
    BY <1>0, <1>1, <1>3, <1>4
  <2>3. \A u \in Thread : \A i \in Held(u) : batch[u][i] # x
    BY <1>9 DEF InBatch
  <2>4. \A u, v \in Thread : \A i \in Held(u), j \in Held(v) :
          batch[u][i] = batch[v][j] => u = v /\ i = j
    BY DEF Inv, Apart
  <2> QED
    BY <2>1, <2>2, <2>3, <2>4
<1>14. Apart'
  <2>1. \A r \in Request, u \in Thread : ~(InQueue(r)' /\ InBatch(r, u)')
    <3> SUFFICES ASSUME NEW r \in Request, NEW u \in Thread, InQueue(r)', InBatch(r, u)'
                 PROVE  FALSE
      OBVIOUS
    <3>1. InQueue(r) /\ r # x
      BY <1>5, <1>6
    <3>2. InBatch(r, u)
      BY <3>1, <1>7
    <3> QED
      BY <3>1, <3>2 DEF Inv, Apart
  <2>2. \A r \in Request, u \in Thread : ToPush(r, u)' =>
          ~InQueue(r)' /\ \A v \in Thread : ~InBatch(r, v)'
    BY <1>5, <1>7, <1>8, <1>9 DEF Inv, Apart
  <2> QED
    BY <1>11, <1>12, <1>13, <2>1, <2>2 DEF Apart
<1> QED
  BY <1>10, <1>14

(* Requests move from the queue to a thread's batch.                       *)
LEMMA GrabKeeps ==
  ASSUME Inv, NEW t \in Thread, Grab(t)
  PROVE  Inv'
<1>1. queue # <<>> => Head(queue) \in Request /\ Tail(queue) \in Seq(Request)
  BY HeadTailProperties DEF Inv, Typed
<1>2. Typed'
  <2>1. queue # <<>> => Append(batch[t], Head(queue)) \in Seq(Request)
    BY <1>1, AppendProperties DEF Inv, Typed
  <2>2. CASE left[t] > 0 /\ queue # <<>>
    <3>1. /\ batch' = [batch EXCEPT ![t] = Append(batch[t], Head(queue))]
          /\ queue' = Tail(queue) /\ left' = [left EXCEPT ![t] = @ - 1] /\ pc' = pc
      BY <2>2 DEF Grab
    <3>2. left[t] - 1 \in Nat
      BY <2>2 DEF Inv, Typed
    <3> QED
      BY <1>1, <2>1, <2>2, <3>1, <3>2 DEF Inv, Typed, Grab
  <2>3. CASE ~(left[t] > 0 /\ queue # <<>>)
    <3>1. \E l \in {"idle", "testsome"} : pc' = [pc EXCEPT ![t] = l]
      BY <2>3 DEF Grab, Goto
    <3>2. left' = [left EXCEPT ![t] = 0] /\ batch' = batch /\ queue' = queue
      BY <2>3 DEF Grab
    <3> QED
      BY <3>1, <3>2 DEF Inv, Typed, Grab
  <2> QED
    BY <2>2, <2>3
<1>3. ASSUME NEW u \in Thread
      PROVE  Control(u)'
  <2>1. Control(u)
    BY DEF Inv
  <2>2. hits[t] = {} /\ arg[t] = NoGroup
    BY DEF Inv, Control, Grab
  <2>3. u # t => batch'[u] = batch[u] /\ pc'[u] = pc[u] /\ left'[u] = left[u]
    BY DEF Inv, Typed, Grab, Goto
  <2>4. CASE u = t
    <3>1. /\ pc'[t] \in {"grab", "idle", "testsome"} /\ left'[t] \in Nat /\ left'[t] <= left[t]
          /\ pc'[t] # "grab" => left'[t] = 0
      <4>1. CASE left[t] > 0 /\ queue # <<>>
        BY <4>1 DEF Inv, Typed, Grab
      <4>2. CASE ~(left[t] > 0 /\ queue # <<>>)
        BY <4>2 DEF Inv, Typed, Grab, Goto
      <4> QED
        BY <4>1, <4>2
    <3>2. Cardinality(Request) \in Nat
      BY ManagerAssumption, FS_CardinalityType
    <3>3. pc[t] = "grab" /\ arg' = arg /\ cur' = cur /\ hits' = hits /\ mode' = mode
      BY DEF Grab
    <3>4. arg'[t] = NoGroup /\ cur'[t] = NoGroup /\ hits'[t] = {} /\ left[t] <= Cardinality(Request) + 1
      BY <2>1, <2>2, <2>4, <3>3 DEF Control
    <3> QED
      BY <2>4, <3>1, <3>2, <3>4 DEF Control, Inv, Typed
  <2>5. CASE u # t
    BY <2>1, <2>3, <2>5 DEF Control, Grab
  <2> QED
    BY <2>4, <2>5
<1>4. Apart' /\ Still
  <2>1. CASE left[t] > 0 /\ queue # <<>>
    BY <2>1, GrabMoves
  <2>2. CASE ~(left[t] > 0 /\ queue # <<>>)
    <3>1. hits[t] = {} /\ left'[t] = 0 /\ batch' = batch /\ queue' = queue
      BY <2>2 DEF Inv, Typed, Control, Grab
    <3>2. \A u \in Thread : Held(u)' = Held(u) /\ Unpushed(u)' = Unpushed(u)
      BY <2>2, <3>1, ZenonT(30) DEF Inv, Typed, Grab, Goto, Held, Unpushed
    <3>3. LeavesPlaces
      BY <3>1, <3>2 DEF LeavesPlaces, Grab
    <3> QED
      BY <3>3, PlacesKept DEF Inv
  <2> QED
    BY <2>1, <2>2
<1>5. Quiet
  BY <1>4 DEF Quiet, Grab, Inv, Typed, Goto
<1>6. Origin'
  BY DEF Inv, Origin, Grab
<1> QED
  BY <1>2, <1>3, <1>4, <1>5, <1>6, QuietStep

-----------------------------------------------------------------------------
(* A request a thread holds, or has to push, moves to the end of the queue. *)
MovesToQueue(x) ==
  /\ queue' = Append(queue, x)
  /\ ~InQueue(x) /\ \E u \in Thread : InBatch(x, u) \/ ToPush(x, u)
  /\ \A u \in Thread : \A r :
       /\ InBatch(r, u)' <=> InBatch(r, u) /\ r # x
       /\ ToPush(r, u)' <=> ToPush(r, u) /\ r # x
  /\ batch' = batch
  /\ \A u \in Thread : \A i \in Held(u)' : i \in Held(u)

(* A request that moves to the queue stays in one place.                   *)
LEMMA ToQueueMoves ==
  ASSUME Inv, NEW x \in Request, MovesToQueue(x)
  PROVE  Apart' /\ Still
<1> DEFINE m == Len(queue)
<1>1. /\ queue \in Seq(Request) /\ m \in Nat
      /\ queue' = Append(queue, x)
  BY LenProperties DEF Inv, Typed, MovesToQueue
<1>2. /\ Len(queue') = m + 1 /\ queue'[m + 1] = x
      /\ \A i \in 1 .. m : queue'[i] = queue[i]
  BY <1>1, AppendProperties
<1> HIDE DEF m
<1>3. \A i \in 1 .. m + 1 : i = m + 1 \/ i \in 1 .. m
  BY <1>1
<1>4. m + 1 \in 1 .. m + 1 /\ 1 .. m \subseteq 1 .. m + 1
  BY <1>1
<1>5. \A r : InQueue(r)' <=> r = x \/ InQueue(r)
  BY <1>2, <1>3, <1>4 DEF InQueue, m
<1>6. \A u \in Thread : \A r :
       /\ InBatch(r, u)' <=> InBatch(r, u) /\ r # x
       /\ ToPush(r, u)' <=> ToPush(r, u) /\ r # x
  BY DEF MovesToQueue
<1>7. Still
  <2>1. \A r \in Request : Waiting(r)' <=> Waiting(r)
    BY <1>5, <1>6 DEF Waiting, MovesToQueue
  <2> QED
    BY <2>1, StillIfSame
<1>8. \A i, j \in 1 .. Len(queue') : queue'[i] = queue'[j] => i = j
  <2>1. \A i \in 1 .. m : queue[i] # x
    BY DEF MovesToQueue, InQueue, m
  <2>2. \A i, j \in 1 .. m : queue[i] = queue[j] => i = j
    BY DEF Inv, Apart, m
  <2> QED
    BY <1>2, <1>3, <2>1, <2>2
<1>9. /\ \A u \in Thread : \A i, j \in 1 .. Len(batch'[u]) : batch'[u][i] = batch'[u][j] => i = j
      /\ \A u, v \in Thread : \A i \in Held(u)', j \in Held(v)' :
           batch'[u][i] = batch'[v][j] => u = v /\ i = j
  BY DEF Inv, Apart, MovesToQueue
<1>10. \A r \in Request, u \in Thread : ~(InQueue(r)' /\ InBatch(r, u)')
  BY <1>5, <1>6 DEF Inv, Apart
<1>11. \A r \in Request, u \in Thread : ToPush(r, u)' =>
         ~InQueue(r)' /\ \A v \in Thread : ~InBatch(r, v)'
  BY <1>5, <1>6 DEF Inv, Apart
<1> QED
  BY <1>7, <1>8, <1>9, <1>10, <1>11 DEF Apart

(* A request of a new group is pushed.                                     *)
LEMMA PushKeeps ==
  ASSUME Inv, NEW t \in Thread, Push(t)
  PROVE  Inv'
<1>1. PICK g \in Group : g = arg[t]
  BY DEF Inv, Typed, Control, Push
<1> DEFINE n == Len(Members[g])
           i == left[t] + 1
<1>2. /\ i \in 1 .. n /\ n \in Nat \ {0} /\ left[t] \in Nat
      /\ pc[t] = "push" /\ Control(t)
      /\ queue' = Append(queue, Members[g][i])
      /\ left' = [left EXCEPT ![t] = IF i = n THEN 0 ELSE i]
  <2>1. pc[t] = "push" /\ Control(t) /\ left[t] \in Nat
    BY DEF Inv, Typed, Push
  <2>2. n \in Nat \ {0}
    BY GroupFacts
  <2>3. left[t] < n
    BY <1>1, <2>1 DEF Control
  <2>4. i \in 1 .. n
    BY <2>1, <2>2, <2>3
  <2>5. queue' = Append(queue, Members[g][i])
    BY <1>1 DEF Push
  <2>6. left' = [left EXCEPT ![t] = IF i = n THEN 0 ELSE i]
    BY <1>1 DEF Push
  <2> QED
    BY <2>1, <2>2, <2>4, <2>5, <2>6
<1>3. PICK x \in Request : x = Members[g][i] /\ x \in Range(Members[g])
  BY <1>2, GroupFacts
<1>4. PICK b \in {"idle", "erase"} :
        /\ i = n => /\ pc' = [pc EXCEPT ![t] = b]
                    /\ arg' = [arg EXCEPT ![t] = NoGroup]
        /\ i # n => pc' = pc /\ arg' = arg
        /\ b = "idle" <=> cur[t] = NoGroup
  BY <1>1 DEF Push, Goto, Back
<1>5. Typed'
  <2>1. Append(queue, x) \in Seq(Request)
    BY AppendProperties DEF Inv, Typed
  <2>2. queue' \in Seq(Request)
    BY <1>2, <1>3, <2>1
  <2>3. left' \in [Thread -> Nat]
    BY <1>2 DEF Inv, Typed
  <2>4. arg' \in [Thread -> Group \cup {NoGroup}]
    BY <1>4 DEF Inv, Typed
  <2>5. pc' \in [Thread -> {"idle", "testall", "push", "handle", "grab", "testsome",
                            "next", "erase"}]
    BY <1>4 DEF Inv, Typed
  <2> QED
    BY <2>2, <2>3, <2>4, <2>5 DEF Inv, Typed, Push
<1>6. ASSUME NEW u \in Thread
      PROVE  Control(u)'
  <2>1. Control(u)
    BY DEF Inv
  <2>2. batch' = batch /\ cur' = cur /\ hits' = hits /\ mode' = mode /\ arrived' = arrived
    BY DEF Push
  <2>3. CASE i = n
    <3>1. pc'[t] = b /\ arg'[t] = NoGroup /\ left'[t] = 0
      BY <1>2, <1>4, <2>3 DEF Inv, Typed
    <3>2. u # t => pc'[u] = pc[u] /\ arg'[u] = arg[u] /\ left'[u] = left[u]
      BY <1>2, <1>4, <2>3 DEF Inv, Typed
    <3>3. CASE u = t
      BY <1>2, <1>4, <2>1, <2>2, <3>1, <3>3 DEF Control
    <3>4. CASE u # t
      BY <2>1, <2>2, <3>2, <3>4 DEF Control
    <3> QED
      BY <3>3, <3>4
  <2>4. CASE i # n
    <3>1. i < n
      BY <1>2, <2>4
    <3> QED
      BY <1>1, <1>2, <1>4, <2>1, <2>2, <2>4, <3>1 DEF Inv, Typed, Control
  <2> QED
    BY <2>3, <2>4
<1>7. \A u \in Thread : Held(u)' = Held(u)
  BY <1>2, <1>4 DEF Inv, Typed, Held, Push
<1>8. /\ Unpushed(t) = i .. n /\ Unpushed(t)' = i + 1 .. n
      /\ \A u \in Thread \ {t} : Unpushed(u)' = Unpushed(u) /\ arg'[u] = arg[u]
  <2>1. Unpushed(t) = i .. n
    BY <1>1, <1>2 DEF Unpushed
  <2>2. Unpushed(t)' = i + 1 .. n
    <3>1. CASE i = n
      <4>1. pc'[t] # "push"
        BY <1>4, <3>1 DEF Inv, Typed
      <4> QED
        BY <1>2, <3>1, <4>1 DEF Unpushed
    <3>2. CASE i # n
      <4>1. pc'[t] = "push" /\ arg'[t] = g /\ left'[t] = i
        BY <1>1, <1>2, <1>4, <3>2 DEF Inv, Typed
      <4> QED
        BY <4>1 DEF Unpushed
    <3> QED
      BY <3>1, <3>2
  <2>3. \A u \in Thread \ {t} : /\ pc'[u] = pc[u] /\ left'[u] = left[u] /\ arg'[u] = arg[u]
    BY <1>2, <1>4 DEF Inv, Typed
  <2>4. \A u \in Thread \ {t} : Unpushed(u)' = Unpushed(u)
    BY <2>3 DEF Unpushed
  <2> QED
    BY <2>1, <2>2, <2>3, <2>4
<1>9. MovesToQueue(x)
  <2>1. ToPush(x, t)
    BY <1>1, <1>2, <1>3, <1>8 DEF ToPush
  <2>2. ~InQueue(x) /\ \A u \in Thread : ~InBatch(x, u)
    BY <2>1 DEF Inv, Apart
  <2>3. \A u \in Thread \ {t} : ~ToPush(x, u)
    <3> SUFFICES ASSUME NEW u \in Thread, ToPush(x, u)
                 PROVE  u = t
      OBVIOUS
    <3>1. pc[u] = "push" /\ Control(u)
      BY DEF ToPush, Unpushed, Inv
    <3>2. PICK h \in Group : h = arg[u]
      BY <3>1 DEF Inv, Typed, Control
    <3>3. left[u] \in Nat /\ \E k \in left[u] + 1 .. Len(Members[h]) : Members[h][k] = x
      BY <3>1, <3>2 DEF ToPush, Unpushed, Inv, Typed
    <3>4. x \in Range(Members[h])
      BY <3>3, GroupFacts
    <3>5. h = g
      BY <1>3, <3>4, OneGroup
    <3> QED
      BY <1>1, <3>2, <3>5, GroupFacts DEF Inv, ArgKnown
  <2>4. \A r : ToPush(r, t)' <=> ToPush(r, t) /\ r # x
    <3> TAKE r
    <3>1. ToPush(r, t) <=> \E k \in i .. n : Members[g][k] = r
      BY <1>1, <1>8 DEF ToPush
    <3>2. ToPush(r, t)' <=> \E k \in i + 1 .. n : Members[g][k] = r
      <4>1. CASE i = n
        BY <1>2, <1>8, <4>1 DEF ToPush
      <4>2. CASE i # n
        <5>1. arg'[t] = g
          BY <1>1, <1>4, <4>2
        <5> QED
          BY <1>8, <5>1 DEF ToPush
      <4> QED
        BY <4>1, <4>2
    <3>3. \A k \in i .. n : k = i \/ k \in i + 1 .. n
      BY <1>2
    <3>4. \A k \in i + 1 .. n : k \in i .. n /\ k \in 1 .. n /\ k # i
      BY <1>2
    <3>5. \A k \in i + 1 .. n : Members[g][k] # x
      BY <1>2, <1>3, <3>4, OnePosition
    <3> QED
      BY <1>3, <3>1, <3>2, <3>3, <3>4, <3>5
  <2>5. \A u \in Thread \ {t} : \A r : ToPush(r, u)' <=> ToPush(r, u)
    BY <1>8 DEF ToPush
  <2>6. \A u \in Thread : \A r : InBatch(r, u)' <=> InBatch(r, u)
    BY <1>7 DEF InBatch, Push
  <2> QED
    BY <1>2, <1>3, <1>7, <2>1, <2>2, <2>3, <2>4, <2>5, <2>6 DEF MovesToQueue, Push
<1>10. Apart' /\ Still
  BY <1>9, ToQueueMoves
<1>11. Quiet
  <2>1. ASSUME NEW u \in Thread
        PROVE  \/ arg'[u] = arg[u] /\ pc'[u] = pc[u]
               \/ arg'[u] = NoGroup /\ pc[u] = "push" /\ pc'[u] \notin {"testall", "handle"}
    BY <1>2, <1>4 DEF Inv, Typed
  <2> QED
    BY <1>10, <2>1 DEF Quiet, Push
<1>12. Origin'
  BY DEF Inv, Origin, Push
<1> QED
  BY <1>5, <1>6, <1>10, <1>11, <1>12, QuietStep

(* Requests that did not complete stay, or are pushed back.                *)
LEMMA FinishKeepsAll ==
  ASSUME Inv, NEW t \in Thread, Finish(t)
  PROVE  Inv'
<1> DEFINE n == Len(batch[t])
           i == left[t] + 1
           back == mode = 3 /\ t # Comm /\ left[t] < Len(batch[t])
<1>0. /\ pc[t] = "next" /\ hits[t] = {} /\ Control(t) /\ n \in Nat /\ left[t] \in Nat
      /\ arg[t] = NoGroup /\ cur[t] = NoGroup
  BY LenProperties DEF Inv, Typed, Control, Finish
<1>1. CASE back
  <2>1. /\ queue' = Append(queue, batch[t][i]) /\ left' = [left EXCEPT ![t] = i]
        /\ pc' = pc /\ batch' = batch
    BY <1>1 DEF Finish
  <2>2. i \in 1 .. n
    BY <1>0, <1>1
  <2>3. PICK x \in Request : x = batch[t][i]
    BY <2>2, ElementOfSeq DEF Inv, Typed
  <2>4. Append(queue, x) \in Seq(Request)
    BY AppendProperties DEF Inv, Typed
  <2>5. Typed'
    <3>1. queue' \in Seq(Request) /\ left' \in [Thread -> Nat]
      BY <1>0, <2>1, <2>3, <2>4 DEF Inv, Typed
    <3> QED
      BY <2>1, <3>1 DEF Inv, Typed, Finish
  <2>6. ASSUME NEW u \in Thread
        PROVE  Control(u)'
    <3>1. Control(u)
      BY DEF Inv
    <3>2. u # t => left'[u] = left[u]
      BY <2>1 DEF Inv, Typed
    <3>3. left'[t] = i
      BY <2>1 DEF Inv, Typed
    <3>4. UNCHANGED <<mode, arrived, arg, cur, hits, pc, batch>>
      BY <2>1 DEF Finish
    <3>5. CASE u = t
      BY <1>0, <1>1, <2>2, <3>1, <3>3, <3>4, <3>5 DEF Control
    <3>6. CASE u # t
      BY <3>1, <3>2, <3>4, <3>6 DEF Control
    <3> QED
      BY <3>5, <3>6
  <2>7. /\ Held(t) = i .. n /\ Held(t)' = i + 1 .. n
        /\ \A u \in Thread \ {t} : Held(u)' = Held(u)
        /\ \A u \in Thread : Unpushed(u)' = Unpushed(u) /\ arg'[u] = arg[u]
    <3>1. Held(t) = i .. n /\ Held(t)' = i + 1 .. n
      BY <1>0, <2>1 DEF Held, Finish, Inv, Typed
    <3>2. \A u \in Thread \ {t} : left'[u] = left[u]
      BY <2>1 DEF Inv, Typed
    <3>3. \A u \in Thread \ {t} : Held(u)' = Held(u)
      BY <2>1, <3>2 DEF Held, Finish
    <3>4. \A u \in Thread : Unpushed(u)' = Unpushed(u)
      BY <1>0, <2>1, <3>2 DEF Unpushed, Finish
    <3> QED
      BY <3>1, <3>3, <3>4 DEF Finish
  <2>8. MovesToQueue(x)
    <3>1. InBatch(x, t)
      BY <2>2, <2>3, <2>7, <1>0 DEF InBatch
    <3>2. ~InQueue(x) /\ \A u \in Thread : ~ToPush(x, u)
      BY <3>1 DEF Inv, Apart
    <3>3. \A u \in Thread \ {t} : ~InBatch(x, u)
      BY <3>1 DEF Inv, Apart, InBatch
    <3>4. \A r : InBatch(r, t)' <=> InBatch(r, t) /\ r # x
      <4> TAKE r
      <4>1. InBatch(r, t) <=> \E k \in i .. n : batch[t][k] = r
        BY <2>7 DEF InBatch
      <4>2. InBatch(r, t)' <=> \E k \in i + 1 .. n : batch[t][k] = r
        BY <2>1, <2>7 DEF InBatch
      <4>3. \A k \in i .. n : k = i \/ k \in i + 1 .. n
        BY <1>0
      <4>4. \A k \in i + 1 .. n : k \in i .. n /\ k \in 1 .. n /\ k # i
        BY <1>0
      <4>5. \A k \in i + 1 .. n : batch[t][k] # x
        BY <2>2, <2>3, <4>4 DEF Inv, Apart
      <4> QED
        BY <2>3, <4>1, <4>2, <4>3, <4>4, <4>5
    <3>5. \A u \in Thread \ {t} : \A r : InBatch(r, u)' <=> InBatch(r, u)
      BY <2>1, <2>7 DEF InBatch
    <3>6. \A u \in Thread : \A r : ToPush(r, u)' <=> ToPush(r, u)
      BY <2>7 DEF ToPush
    <3>7. \A u \in Thread : \A k \in Held(u)' : k \in Held(u)
      <4>1. \A k \in i + 1 .. n : k \in i .. n
        BY <1>0
      <4> QED
        BY <2>7, <4>1
    <3> QED
      BY <2>1, <2>3, <3>1, <3>2, <3>3, <3>4, <3>5, <3>6, <3>7 DEF MovesToQueue
  <2>9. Apart' /\ Still
    BY <2>8, ToQueueMoves
  <2>10. Quiet /\ Origin'
    BY <2>1, <2>9 DEF Quiet, Finish, Inv, Origin
  <2> QED
    BY <2>5, <2>6, <2>9, <2>10, QuietStep
<1>2. CASE ~back
  <2>1. /\ left' = [left EXCEPT ![t] = 0] /\ pc' = [pc EXCEPT ![t] = "idle"]
        /\ queue' = queue
        /\ batch' = batch \/ (mode = 3 /\ t # Comm /\ batch' = [batch EXCEPT ![t] = <<>>])
    BY <1>2 DEF Finish, Goto
  <2>2. Typed'
    <3>1. batch' \in [Thread -> Seq(Request)]
      <4>1. batch \in [Thread -> Seq(Request)] /\ <<>> \in Seq(Request)
        BY EmptySeq DEF Inv, Typed
      <4> QED
        BY <2>1, <4>1
    <3> QED
      BY <2>1, <3>1 DEF Inv, Typed, Finish
  <2>3. \A u \in Thread \ {t} : /\ left'[u] = left[u] /\ pc'[u] = pc[u]
                                /\ batch'[u] = batch[u]
    BY <2>1 DEF Inv, Typed
  <2>4. pc'[t] = "idle" /\ left'[t] = 0
    BY <2>1 DEF Inv, Typed
  <2>5. ASSUME NEW u \in Thread
        PROVE  Control(u)'
    <3>1. Control(u)
      BY DEF Inv
    <3>2. UNCHANGED <<mode, arrived, arg, cur, hits>>
      BY DEF Finish
    <3>3. CASE u = t
      BY <1>0, <2>4, <3>2, <3>3 DEF Control
    <3>4. CASE u # t
      BY <2>3, <3>1, <3>2, <3>4 DEF Control
    <3> QED
      BY <3>3, <3>4
  <2>6. Held(t)' = Held(t) /\ (batch'[t] = batch[t] \/ batch'[t] = <<>>)
        /\ \A k \in Held(t) : batch'[t][k] = batch[t][k]
    <3>1. CASE mode = 3 /\ t # Comm
      <4>1. Held(t) = {} /\ left[t] >= n
        BY <1>0, <1>2, <3>1 DEF Held
      <4>2. batch'[t] = <<>> \/ batch'[t] = batch[t]
        BY <2>1 DEF Inv, Typed
      <4>3. n = 0 \/ batch'[t] = <<>>
        <5>1. batch' = [batch EXCEPT ![t] = <<>>]
          BY <1>2, <3>1 DEF Finish
        <5> QED
          BY <5>1 DEF Inv, Typed
      <4>4. Len(batch'[t]) = 0
        BY <4>2, <4>3, EmptySeq
      <4>5. Held(t)' = {}
        BY <2>4, <4>4 DEF Held
      <4> QED
        BY <4>1, <4>2, <4>5
    <3>2. CASE ~(mode = 3 /\ t # Comm)
      <4>1. left[t] = 0 /\ batch' = batch
        BY <1>0, <2>1, <3>2 DEF Control
      <4> QED
        BY <1>0, <2>4, <4>1 DEF Held
    <3> QED
      BY <3>1, <3>2
  <2>7. LeavesPlaces
    <3>1. \A u \in Thread \ {t} : Held(u)' = Held(u)
      BY <2>3 DEF Held, Finish
    <3>2. \A u \in Thread : Unpushed(u)' = Unpushed(u)
      BY <1>0, <2>3, <2>4 DEF Unpushed, Finish
    <3> QED
      BY <2>1, <2>3, <2>6, <3>1, <3>2 DEF LeavesPlaces, Finish
  <2>8. Apart' /\ Still
    BY <2>7, PlacesKept DEF Inv
  <2>9. Quiet /\ Origin'
    <3>1. ASSUME NEW u \in Thread
          PROVE  /\ pc[u] = "testall" <=> pc'[u] = "testall"
                 /\ pc[u] = "handle" <=> pc'[u] = "handle"
      BY <1>0, <2>3, <2>4
    <3> QED
      BY <2>8, <3>1 DEF Quiet, Finish, Inv, Origin
  <2> QED
    BY <2>2, <2>5, <2>8, <2>9, QuietStep
<1> QED
  BY <1>1, <1>2

-----------------------------------------------------------------------------
(* Thread t goes on with the group it posts, if any; before, it was idle   *)
(* or ran the handler of arg[t].                                           *)
GoesOn(t, g) ==
  /\ Still /\ arrived' = arrived /\ cur' = cur /\ outstanding' = outstanding
  /\ \A u \in Thread \ {t} : arg'[u] = arg[u] /\ pc'[u] = pc[u]
  /\ arg'[t] = g
  /\ \/ g = NoGroup /\ posted' = posted /\ pc'[t] \notin {"testall", "handle"}
     \/ /\ g \in Group \ posted /\ posted' = posted \cup {g} /\ pc'[t] = "testall"
        /\ IsFirst(g) \/ \E h \in Group : Follow[h] = g /\ ran'[h] # 0
  /\ \/ arg[t] = NoGroup /\ pc[t] = "idle" /\ ran' = ran
     \/ /\ arg[t] \in Group /\ pc[t] = "handle"
        /\ ran' = [ran EXCEPT ![arg[t]] = 1]

(* Nobody knows a group that was not posted.                               *)
LEMMA Unknown ==
  ASSUME Inv, NEW h \in Group, h \notin posted
  PROVE  /\ Wait(h) = {} /\ ran[h] = 0
         /\ \A u \in Thread : arg[u] # h /\ cur[u] # h
<1>1. h # NoGroup /\ GroupKnown(h)
  BY GroupFacts DEF Inv
<1> QED
  BY <1>1 DEF Inv, GroupKnown, ArgKnown, CurKnown

(* A thread that goes on knows the group it goes on with.                  *)
LEMMA GoesOnKeeps ==
  ASSUME Inv, NEW t \in Thread, NEW g, GoesOn(t, g)
  PROVE  ArgKnown' /\ CurKnown' /\ (\A h \in Group : GroupKnown(h)') /\ Counted'
<1>0. /\ g \in Group => /\ Wait(g) = {} /\ ran[g] = 0 /\ g # NoGroup /\ g \notin posted
                        /\ \A u \in Thread : arg[u] # g /\ cur[u] # g
      /\ g = NoGroup \/ g \in Group
  BY Unknown, GroupFacts DEF GoesOn
<1>1. /\ \A h \in Group : ran'[h] = IF h = arg[t] THEN 1 ELSE ran[h]
      /\ posted \subseteq posted' /\ posted' \subseteq posted \cup {g}
      /\ g \in Group => g \in posted' /\ ran'[g] = 0
  <2>1. \A h \in Group : ran'[h] = IF h = arg[t] THEN 1 ELSE ran[h]
    BY GroupFacts DEF GoesOn, Inv, Typed
  <2>2. posted \subseteq posted' /\ posted' \subseteq posted \cup {g}
    BY DEF GoesOn
  <2>3. g \in Group => g \in posted' /\ ran'[g] = 0
    BY <1>0, <2>1, ManagerAssumption DEF GoesOn
  <2> QED
    BY <2>1, <2>2, <2>3
<1>2. ArgKnown'
  <2>1. \A u, v \in Thread : arg'[u] = arg'[v] /\ arg'[u] # NoGroup => u = v
    BY <1>0 DEF GoesOn, Inv, ArgKnown
  <2>2. \A u \in Thread : arg'[u] # NoGroup => arg'[u] \in posted' /\ ran'[arg'[u]] = 0
    <3> SUFFICES ASSUME NEW u \in Thread, arg'[u] # NoGroup
                 PROVE  arg'[u] \in posted' /\ ran'[arg'[u]] = 0
      OBVIOUS
    <3>1. CASE u = t
      BY <1>0, <1>1, <3>1 DEF GoesOn
    <3>2. CASE u # t
      <4>1. arg'[u] = arg[u] /\ arg[u] \in Group /\ arg[u] \in posted /\ ran[arg[u]] = 0
        BY <3>2 DEF GoesOn, Inv, Typed, ArgKnown
      <4>2. arg[u] # arg[t]
        BY <3>2, <4>1 DEF Inv, ArgKnown
      <4> QED
        BY <1>1, <4>1, <4>2
    <3> QED
      BY <3>1, <3>2
  <2>3. ASSUME NEW u \in Thread, pc'[u] \in {"testall", "handle"}
        PROVE  Wait(arg[u])' = {}
    <3>1. PICK h \in Group : h = arg'[u] /\ Wait(h) = {}
      <4>1. CASE u = t
        BY <1>0, <2>3, <4>1 DEF GoesOn
      <4>2. CASE u # t
        BY <2>3, <4>2 DEF GoesOn, Inv, Control, Typed, ArgKnown
      <4> QED
        BY <4>1, <4>2
    <3>2. Wait(h)' = {}
      BY <3>1 DEF GoesOn, Still
    <3> QED
      BY <3>1, <3>2
  <2>4. \A u \in Thread : pc'[u] = "handle" => Range(Members[arg'[u]]) \subseteq arrived'
    BY DEF GoesOn, Inv, ArgKnown
  <2> QED
    BY <2>1, <2>2, <2>3, <2>4 DEF ArgKnown
<1>3. CurKnown'
  <2> SUFFICES ASSUME NEW u \in Thread, cur'[u] # NoGroup
               PROVE  /\ cur'[u] \in posted' /\ Wait(cur[u])' = {}
                      /\ \A v \in Thread : arg'[v] = cur'[u] => pc'[v] = "handle"
    BY DEF CurKnown
  <2>1. PICK h \in Group : h = cur[u] /\ h = cur'[u]
    BY DEF GoesOn, Inv, Typed
  <2>2. /\ h \in posted /\ Wait(h) = {}
        /\ \A v \in Thread : arg[v] = h => pc[v] = "handle"
    BY <2>1 DEF Inv, CurKnown
  <2>3. h # g /\ h # NoGroup
    BY <1>0, <2>1, <2>2
  <2>4. /\ h \in posted' /\ Wait(h)' = {}
        /\ \A v \in Thread : arg'[v] = h => pc'[v] = "handle"
    BY <1>1, <2>2, <2>3 DEF GoesOn, Still
  <2> QED
    BY <2>1, <2>4
<1>4. ASSUME NEW h \in Group
      PROVE  GroupKnown(h)'
  <2>1. GroupKnown(h) /\ Wait(h)' = Wait(h) /\ arrived' = arrived
    BY DEF Inv, GoesOn, Still
  <2>2. \A r \in Range(Members[h]) : Waiting(r) => Waiting(r)'
    BY <2>1 DEF Wait
  <2>3. ran[h] \in {0, 1} /\ ran'[h] \in {0, 1} /\ (ran[h] # 0 => ran'[h] # 0)
    BY <1>1, <2>1 DEF GroupKnown
  <2>4. h = arg[t] => h \in posted /\ Wait(h) = {}
    BY GroupFacts DEF GoesOn, Inv, ArgKnown
  <2>5. Wait(h)' # {} \/ ran'[h] # 0 => h \in posted'
    BY <1>1, <2>1, <2>4 DEF GroupKnown
  <2>6. Wait(h)' = {} \/ ran'[h] = 0
    BY <1>1, <2>1, <2>4 DEF GroupKnown
  <2>7. h \in posted' => IsFirst(h) \/ \E k \in Group : Follow[k] = h /\ ran'[k] # 0
    <3>1. CASE h = g
      BY <1>0, <3>1 DEF GoesOn
    <3>2. CASE h # g
      <4>1. h \in posted' => h \in posted
        BY <1>1, <3>2
      <4>2. \A k \in Group : ran[k] # 0 => ran'[k] # 0
        BY <1>1
      <4> QED
        BY <2>1, <4>1, <4>2 DEF GroupKnown
    <3> QED
      BY <3>1, <3>2
  <2>8. h \in posted' =>
          \/ \A r \in Range(Members[h]) : Waiting(r)' \/ r \in arrived'
          \/ \E u \in Thread : pc'[u] = "testall" /\ arg'[u] = h
    <3>1. CASE h = g
      BY <1>0, <3>1 DEF GoesOn
    <3>2. CASE h # g
      <4>1. h \in posted' => h \in posted
        BY <1>1, <3>2
      <4>2. \A u \in Thread : pc[u] = "testall" /\ arg[u] = h => pc'[u] = "testall" /\ arg'[u] = h
        BY DEF GoesOn
      <4> QED
        BY <2>1, <2>2, <4>1, <4>2 DEF GroupKnown
    <3> QED
      BY <3>1, <3>2
  <2> QED
    BY <2>3, <2>5, <2>6, <2>7, <2>8 DEF GroupKnown
<1>5. Counted'
  BY DEF Inv, GoesOn, Counted, Still
<1> QED
  BY <1>2, <1>3, <1>4, <1>5

(* A thread posts a group that no handler posts.                           *)
LEMMA SubmitKeeps ==
  ASSUME Inv, NEW t \in Thread, NEW g \in Group, Submit(t, g)
  PROVE  Inv'
<1>0. /\ pc[t] = "idle" /\ Control(t) /\ arg[t] = NoGroup /\ cur[t] = NoGroup
      /\ g \notin posted /\ IsFirst(g) /\ g # NoGroup
  BY GroupFacts DEF Inv, Control, Submit
<1>1. /\ posted' = posted \cup {g} /\ arg'[t] = g /\ pc'[t] = "testall"
      /\ \A u \in Thread \ {t} : arg'[u] = arg[u] /\ pc'[u] = pc[u]
      /\ UNCHANGED <<mode, arrived, queue, outstanding, batch, cur, left, hits, ran>>
  BY DEF Inv, Typed, Submit, Goto
<1>2. Typed'
  BY DEF Inv, Typed, Submit, Goto
<1>3. ASSUME NEW u \in Thread
      PROVE  Control(u)'
  <2>1. Control(u)
    BY DEF Inv
  <2> QED
    BY <1>0, <1>1, <2>1 DEF Control
<1>4. LeavesPlaces
  <2>1. \A u \in Thread : Held(u)' = Held(u) /\ Unpushed(u)' = Unpushed(u)
    BY <1>0, <1>1 DEF Held, Unpushed
  <2>2. \A u \in Thread : Unpushed(u) # {} => arg'[u] = arg[u]
    BY <1>0, <1>1 DEF Unpushed
  <2> QED
    BY <1>1, <2>1, <2>2 DEF LeavesPlaces
<1>5. Apart' /\ Still
  BY <1>4, PlacesKept DEF Inv
<1>6. GoesOn(t, g)
  BY <1>0, <1>1, <1>5 DEF GoesOn
<1>7. Origin'
  BY <1>1 DEF Inv, Origin
<1> QED
  BY <1>2, <1>3, <1>5, <1>6, <1>7, GoesOnKeeps DEF Inv

(* A completed request lowers its group's count; at 0 the handler runs.    *)
LEMMA HandleKeeps ==
  ASSUME Inv, NEW t \in Thread, Handle(t)
  PROVE  Inv'
<1>1. PICK g \in Group : g = arg[t]
  BY DEF Inv, Typed, Control, Handle
<1> DEFINE h == Follow[g]
<1>2. /\ pc[t] = "handle" /\ Control(t) /\ g \in posted /\ ran[g] = 0 /\ Wait(g) = {}
      /\ Range(Members[g]) \subseteq arrived
  BY <1>1, GroupFacts DEF Inv, ArgKnown, Handle
<1>3. h \in Group \cup {NoGroup} /\ NoGroup \notin Group
  BY ManagerAssumption
<1>4. h \in Group => h \notin posted
  <2>1. SUFFICES ASSUME h \in Group, h \in posted
                 PROVE  FALSE
    OBVIOUS
  <2>2. ~IsFirst(h)
    BY DEF IsFirst
  <2>3. PICK k \in Group : Follow[k] = h /\ ran[k] # 0
    BY <2>1, <2>2 DEF Inv, GroupKnown
  <2>4. k = g
    BY <1>3, <2>1, <2>3, ManagerAssumption
  <2> QED
    BY <1>2, <2>3, <2>4
<1>5. PICK l \in {"idle", "erase", "testall"} :
        /\ pc' = [pc EXCEPT ![t] = l]
        /\ l = "testall" <=> h # NoGroup
        /\ l = "idle" => cur[t] = NoGroup
        /\ l = "erase" => cur[t] # NoGroup
  BY <1>1 DEF Handle, Goto, Back
<1>6. /\ ran' = [ran EXCEPT ![g] = 1] /\ arg' = [arg EXCEPT ![t] = h]
      /\ posted' = IF h = NoGroup THEN posted ELSE posted \cup {h}
      /\ UNCHANGED <<mode, arrived, queue, outstanding, batch, cur, left, hits>>
  <2>1. ran' = [ran EXCEPT ![g] = ran[g] + 1]
    BY <1>1 DEF Handle
  <2>2. ran[g] + 1 = 1
    BY <1>2
  <2> QED
    BY <1>1, <2>1, <2>2 DEF Handle
<1> HIDE DEF h
<1>7. Typed'
  BY <1>3, <1>5, <1>6 DEF Inv, Typed
<1>8. /\ arg'[t] = h /\ pc'[t] = l
      /\ \A u \in Thread \ {t} : arg'[u] = arg[u] /\ pc'[u] = pc[u]
  BY <1>5, <1>6 DEF Inv, Typed
<1>9. ASSUME NEW u \in Thread
      PROVE  Control(u)'
  <2>1. Control(u)
    BY DEF Inv
  <2>2. CASE u = t
    BY <1>2, <1>3, <1>5, <1>6, <1>8, <2>2 DEF Control
  <2>3. CASE u # t
    BY <1>6, <1>8, <2>1, <2>3 DEF Control
  <2> QED
    BY <2>2, <2>3
<1>10. LeavesPlaces
  <2>1. \A u \in Thread : Held(u)' = Held(u) /\ Unpushed(u)' = Unpushed(u)
    <3> TAKE u \in Thread
    <3>1. CASE u = t
      <4>1. pc'[t] \notin {"next", "push"}
        BY <1>5, <1>8
      <4> QED
        BY <1>2, <1>6, <3>1, <4>1 DEF Held, Unpushed
    <3>2. CASE u # t
      BY <1>6, <1>8, <3>2 DEF Held, Unpushed
    <3> QED
      BY <3>1, <3>2
  <2>2. \A u \in Thread : Unpushed(u) # {} => arg'[u] = arg[u]
    BY <1>2, <1>8 DEF Unpushed
  <2> QED
    BY <1>6, <2>1, <2>2 DEF LeavesPlaces
<1>11. Apart' /\ Still
  BY <1>10, PlacesKept DEF Inv
<1>12. GoesOn(t, h)
  <2>1. \/ h = NoGroup /\ posted' = posted /\ pc'[t] \notin {"testall", "handle"}
        \/ /\ h \in Group \ posted /\ posted' = posted \cup {h} /\ pc'[t] = "testall"
           /\ IsFirst(h) \/ \E k \in Group : Follow[k] = h /\ ran'[k] # 0
    <3>1. CASE h = NoGroup
      BY <1>5, <1>6, <1>8, <3>1
    <3>2. CASE h # NoGroup
      <4>1. Follow[g] = h /\ ran'[g] # 0
        BY <1>6 DEF Inv, Typed, h
      <4> QED
        BY <1>3, <1>4, <1>5, <1>6, <1>8, <3>2, <4>1
    <3> QED
      BY <3>1, <3>2
  <2> QED
    BY <1>1, <1>2, <1>6, <1>8, <1>11, <2>1 DEF GoesOn
<1>13. Origin'
  BY <1>6 DEF Inv, Origin
<1> QED
  BY <1>7, <1>9, <1>11, <1>12, <1>13, GoesOnKeeps DEF Inv

-----------------------------------------------------------------------------
(* MPI_Testall completes the group, or registers it.                       *)
LEMMA TestAllKeeps ==
  ASSUME Inv, NEW t \in Thread, TestAll(t)
  PROVE  Inv'
<1>1. PICK g \in Group : g = arg[t]
  BY DEF Inv, Typed, Control, TestAll
<1> DEFINE n == Len(Members[g])
<1>2. /\ pc[t] = "testall" /\ Control(t) /\ left[t] = 0
      /\ g \in posted /\ ran[g] = 0 /\ Wait(g) = {}
      /\ \A u \in Thread : arg[u] = g => u = t
      /\ \A u \in Thread : cur[u] # g
  <2>1. pc[t] = "testall" /\ Control(t) /\ left[t] = 0
    BY DEF Inv, Control, TestAll
  <2>2. g \in posted /\ ran[g] = 0 /\ Wait(g) = {} /\ \A u \in Thread : arg[u] = g => u = t
    BY <1>1, <2>1, GroupFacts DEF Inv, ArgKnown
  <2>3. \A u \in Thread : cur[u] # g
    BY <1>1, <2>1, GroupFacts DEF Inv, CurKnown
  <2> QED
    BY <2>1, <2>2, <2>3
<1>3. n \in Nat \ {0}
  BY GroupFacts
<1>4. UNCHANGED <<mode, arrived, posted, queue, batch, arg, cur, hits, ran>>
  BY DEF TestAll
<1>5. CASE Range(Members[g]) \subseteq arrived
  <2>1. pc' = [pc EXCEPT ![t] = "handle"] /\ outstanding' = outstanding /\ left' = left
    BY <1>1, <1>5 DEF TestAll, Goto
  <2>2. Typed'
    BY <1>4, <2>1 DEF Inv, Typed
  <2>3. pc'[t] = "handle" /\ \A u \in Thread \ {t} : pc'[u] = pc[u]
    BY <2>1 DEF Inv, Typed
  <2>4. \A u \in Thread : Control(u)'
    BY <1>2, <1>4, <2>1, <2>3 DEF Inv, Control
  <2>5. LeavesPlaces
    <3>1. \A u \in Thread : Held(u)' = Held(u) /\ Unpushed(u)' = Unpushed(u)
      BY <1>2, <1>4, <2>1, <2>3 DEF Held, Unpushed
    <3> QED
      BY <1>4, <3>1 DEF LeavesPlaces
  <2>6. Apart' /\ Still
    BY <2>5, PlacesKept DEF Inv
  <2>7. ArgKnown'
    <3>1. ASSUME NEW u \in Thread, pc'[u] \in {"testall", "handle"}
          PROVE  Wait(arg[u])' = {}
      <4>1. pc[u] \in {"testall", "handle"}
        BY <1>2, <2>3, <3>1
      <4>2. PICK h \in Group : h = arg[u] /\ h = arg'[u] /\ Wait(h) = {}
        BY <1>4, <4>1 DEF Inv, Typed, Control, ArgKnown
      <4>3. Wait(h)' = {}
        BY <2>6, <4>2 DEF Still
      <4> QED
        BY <4>2, <4>3
    <3>2. \A u \in Thread : pc'[u] = "handle" => Range(Members[arg'[u]]) \subseteq arrived'
      BY <1>1, <1>4, <1>5, <2>3 DEF Inv, ArgKnown
    <3> QED
      BY <1>4, <3>1, <3>2 DEF Inv, ArgKnown
  <2>8. CurKnown'
    <3> SUFFICES ASSUME NEW u \in Thread, cur'[u] # NoGroup
                 PROVE  /\ cur'[u] \in posted' /\ Wait(cur[u])' = {}
                        /\ \A v \in Thread : arg'[v] = cur'[u] => pc'[v] = "handle"
      BY DEF CurKnown
    <3>1. PICK h \in Group : h = cur[u] /\ h = cur'[u]
      BY <1>4 DEF Inv, Typed
    <3>2. Wait(h)' = {}
      BY <1>4, <2>6, <3>1 DEF Inv, CurKnown, Still
    <3>3. \A v \in Thread : arg'[v] = h => pc'[v] = "handle"
      BY <1>4, <2>3, <3>1 DEF Inv, CurKnown
    <3> QED
      BY <1>4, <3>1, <3>2, <3>3 DEF Inv, CurKnown
  <2>9. ASSUME NEW h \in Group
        PROVE  GroupKnown(h)'
    <3>1. GroupKnown(h) /\ Wait(h)' = Wait(h)
      BY <2>6 DEF Inv, Still
    <3>2. \A r \in Range(Members[h]) : Waiting(r) => Waiting(r)'
      BY <3>1 DEF Wait
    <3>3. h = g => \A r \in Range(Members[h]) : r \in arrived'
      BY <1>4, <1>5
    <3>4. h # g => \A u \in Thread : pc[u] = "testall" /\ arg[u] = h =>
                     pc'[u] = "testall" /\ arg'[u] = h
      BY <1>1, <1>4, <2>3
    <3> QED
      BY <1>4, <3>1, <3>2, <3>3, <3>4 DEF GroupKnown
  <2>10. Origin' /\ Counted'
    BY <1>4, <2>1, <2>6 DEF Inv, Origin, Counted, Still
  <2> QED
    BY <2>2, <2>4, <2>6, <2>7, <2>8, <2>9, <2>10 DEF Inv
<1>6. CASE ~(Range(Members[g]) \subseteq arrived)
  <2>1. /\ pc' = [pc EXCEPT ![t] = "push"] /\ left' = [left EXCEPT ![t] = 0]
        /\ outstanding' = [outstanding EXCEPT ![g] = n]
    BY <1>1, <1>6 DEF TestAll, Goto
  <2>2. Typed'
    BY <1>3, <1>4, <2>1 DEF Inv, Typed
  <2>3. /\ pc'[t] = "push" /\ left'[t] = 0
        /\ \A u \in Thread \ {t} : pc'[u] = pc[u] /\ left'[u] = left[u]
    BY <2>1 DEF Inv, Typed
  <2>4. ASSUME NEW u \in Thread
        PROVE  Control(u)'
    <3>1. Control(u)
      BY DEF Inv
    <3>2. CASE u = t
      BY <1>1, <1>2, <1>3, <1>4, <2>3, <3>2 DEF Control
    <3>3. CASE u # t
      BY <1>4, <2>3, <3>1, <3>3 DEF Control
    <3> QED
      BY <3>2, <3>3
  <2>5. /\ \A u \in Thread : Held(u)' = Held(u)
        /\ \A u \in Thread \ {t} : Unpushed(u)' = Unpushed(u)
        /\ Unpushed(t) = {} /\ Unpushed(t)' = 1 .. n
    <3>1. \A u \in Thread : Held(u)' = Held(u)
      BY <1>2, <1>4, <2>3 DEF Held
    <3>2. \A u \in Thread \ {t} : Unpushed(u)' = Unpushed(u)
      BY <1>4, <2>3 DEF Unpushed
    <3>3. Unpushed(t) = {} /\ Unpushed(t)' = 1 .. n
      BY <1>1, <1>2, <1>4, <2>3 DEF Unpushed
    <3> QED
      BY <3>1, <3>2, <3>3
  <2>6. /\ \A r : InQueue(r)' <=> InQueue(r)
        /\ \A r : \A u \in Thread : InBatch(r, u)' <=> InBatch(r, u)
        /\ \A r : \A u \in Thread \ {t} : ToPush(r, u)' <=> ToPush(r, u)
        /\ \A r : ~ToPush(r, t)
        /\ \A r : ToPush(r, t)' <=> r \in Range(Members[g])
    <3>1. \A r : InQueue(r)' <=> InQueue(r)
      BY <1>4 DEF InQueue
    <3>2. \A r : \A u \in Thread : InBatch(r, u)' <=> InBatch(r, u)
      BY <1>4, <2>5 DEF InBatch
    <3>3. \A r : \A u \in Thread \ {t} : ToPush(r, u)' <=> ToPush(r, u)
      BY <1>4, <2>5 DEF ToPush
    <3>4. \A r : ~ToPush(r, t)
      BY <2>5 DEF ToPush
    <3>5. \A r : ToPush(r, t)' <=> \E k \in 1 .. n : Members[g][k] = r
      BY <1>1, <1>4, <2>5 DEF ToPush
    <3>6. \A r : ToPush(r, t)' <=> r \in Range(Members[g])
      <4>1. \A r : r \in Range(Members[g]) <=> \E k \in 1 .. n : Members[g][k] = r
        <5>1. /\ \A k \in 1 .. n : Members[g][k] \in Range(Members[g])
              /\ \A r \in Range(Members[g]) : \E k \in 1 .. n : Members[g][k] = r
          BY GroupFacts
        <5> QED
          BY <5>1
      <4> QED
        BY <3>5, <4>1
    <3> QED
      BY <3>1, <3>2, <3>3, <3>4, <3>6
  <2>7. \A r : Waiting(r)' <=> Waiting(r) \/ r \in Range(Members[g])
    BY <2>6 DEF Waiting
  <2>8. \A h \in Group : Wait(h)' = IF h = g THEN Range(Members[g]) ELSE Wait(h)
    <3> TAKE h \in Group
    <3>1. CASE h = g
      BY <2>7, <3>1 DEF Wait
    <3>2. CASE h # g
      <4>1. \A r \in Range(Members[h]) : r \notin Range(Members[g])
        BY <3>2, OneGroup
      <4> QED
        BY <2>7, <3>2, <4>1 DEF Wait
    <3> QED
      BY <3>1, <3>2
  <2>9. Apart'
    <3>1. \A r \in Range(Members[g]) : ~Waiting(r)
      BY <1>2 DEF Wait
    <3>2. \A r \in Request, u \in Thread : ToPush(r, u)' =>
            ~InQueue(r)' /\ \A v \in Thread : ~InBatch(r, v)'
      <4> SUFFICES ASSUME NEW r \in Request, NEW u \in Thread, ToPush(r, u)'
                   PROVE  ~InQueue(r)' /\ \A v \in Thread : ~InBatch(r, v)'
        OBVIOUS
      <4>1. CASE u = t
        BY <2>6, <3>1, <4>1 DEF Waiting
      <4>2. CASE u # t
        BY <2>6, <4>2 DEF Inv, Apart
      <4> QED
        BY <4>1, <4>2
    <3>3. \A r \in Request, u \in Thread : ~(InQueue(r)' /\ InBatch(r, u)')
      BY <2>6 DEF Inv, Apart
    <3> QED
      BY <1>4, <2>5, <3>2, <3>3 DEF Inv, Apart
  <2>10. ArgKnown'
    <3>1. ASSUME NEW u \in Thread, pc'[u] \in {"testall", "handle"}
          PROVE  Wait(arg[u])' = {}
      <4>1. u # t /\ pc[u] \in {"testall", "handle"}
        BY <2>3, <3>1
      <4>2. PICK h \in Group : h = arg[u] /\ h = arg'[u] /\ Wait(h) = {}
        BY <1>4, <4>1 DEF Inv, Typed, Control, ArgKnown
      <4>3. h # g
        BY <1>2, <4>1, <4>2
      <4>4. Wait(h)' = {}
        BY <2>8, <4>2, <4>3
      <4> QED
        BY <4>2, <4>4
    <3>2. \A u \in Thread : pc'[u] = "handle" => Range(Members[arg'[u]]) \subseteq arrived'
      BY <1>4, <2>3 DEF Inv, ArgKnown
    <3> QED
      BY <1>4, <3>1, <3>2 DEF Inv, ArgKnown
  <2>11. CurKnown'
    <3> SUFFICES ASSUME NEW u \in Thread, cur'[u] # NoGroup
                 PROVE  /\ cur'[u] \in posted' /\ Wait(cur[u])' = {}
                        /\ \A v \in Thread : arg'[v] = cur'[u] => pc'[v] = "handle"
      BY DEF CurKnown
    <3>1. PICK h \in Group : h = cur[u] /\ h = cur'[u] /\ h # g
      BY <1>2, <1>4 DEF Inv, Typed
    <3>2. Wait(h)' = {}
      BY <1>4, <2>8, <3>1 DEF Inv, CurKnown
    <3>3. \A v \in Thread : arg'[v] = h => pc'[v] = "handle"
      BY <1>1, <1>4, <2>3, <3>1 DEF Inv, CurKnown
    <3> QED
      BY <1>4, <3>1, <3>2, <3>3 DEF Inv, CurKnown
  <2>12. ASSUME NEW h \in Group
         PROVE  GroupKnown(h)'
    <3>1. GroupKnown(h)
      BY DEF Inv
    <3>2. \A r : Waiting(r) => Waiting(r)'
      BY <2>7
    <3>3. CASE h = g
      <4>1. \A r \in Range(Members[g]) : Waiting(r)'
        BY <2>7
      <4> QED
        BY <1>2, <1>4, <3>1, <3>3, <4>1 DEF GroupKnown
    <3>4. CASE h # g
      <4>1. \A u \in Thread : pc[u] = "testall" /\ arg[u] = h =>
              pc'[u] = "testall" /\ arg'[u] = h
        BY <1>1, <1>4, <2>3, <3>4
      <4>2. Wait(h)' = Wait(h)
        BY <2>8, <3>4
      <4> QED
        BY <1>4, <3>1, <3>2, <4>1, <4>2 DEF GroupKnown
    <3> QED
      BY <3>3, <3>4
  <2>13. Counted'
    <3> SUFFICES ASSUME NEW h \in Group
                 PROVE  outstanding'[h] = Cardinality(Wait(h)')
      BY DEF Counted
    <3>1. outstanding'[h] = IF h = g THEN n ELSE outstanding[h]
      BY <2>1 DEF Inv, Typed
    <3>2. outstanding[h] = Cardinality(Wait(h))
      BY DEF Inv, Counted
    <3> QED
      BY <2>8, <3>1, <3>2, GroupSize
  <2>14. Origin'
    BY <1>4 DEF Inv, Origin
  <2> QED
    BY <2>2, <2>4, <2>9, <2>10, <2>11, <2>12, <2>13, <2>14 DEF Inv
<1> QED
  BY <1>5, <1>6

-----------------------------------------------------------------------------
(* A completed request leaves its batch, and the last of its group brings  *)
(* the handler.                                                            *)
LEMMA CompleteKeeps ==
  ASSUME Inv, NEW t \in Thread, Complete(t)
  PROVE  Inv'
<1> DEFINE n == Len(batch[t])
<1>0. /\ pc[t] = "next" /\ hits[t] # {} /\ Control(t) /\ n \in Nat /\ left[t] = 0
      /\ arg[t] = NoGroup /\ cur[t] = NoGroup /\ batch[t] \in Seq(Request)
      /\ hits[t] \subseteq 1 .. n
  BY LenProperties DEF Inv, Typed, Control, Complete
<1>1. PICK i \in hits[t] : /\ \A l \in hits[t] : i >= l
                           /\ i = CHOOSE k \in hits[t] : \A l \in hits[t] : k >= l
  <2>1. \E k \in hits[t] : \A l \in hits[t] : k >= l
    <3>1. hits[t] \in SUBSET Nat /\ \A k \in hits[t] : k <= n
      BY <1>0
    <3> HIDE DEF n
    <3> QED
      BY <1>0, <3>1, Highest
  <2> QED
    BY <2>1
<1>2. i \in 1 .. n /\ i \in Nat /\ batch[t][i] \in Request /\ batch[t][i] \in arrived
  BY <1>0, <1>1, ElementOfSeq DEF Control
<1>3. PICK x \in Request : x = batch[t][i]
  BY <1>2
<1>4. PICK g \in Group : x \in Range(Members[g]) /\ g = GroupOf(x)
  BY <1>2, <1>3, GroupOfRequest DEF Inv, Origin
<1>5. /\ outstanding' = [outstanding EXCEPT ![g] = @ - 1]
      /\ batch' = [batch EXCEPT ![t] = RemoveAt(@, i)]
      /\ hits' = [hits EXCEPT ![t] = @ \ {i}]
      /\ IF outstanding[g] - 1 <= 0
           THEN /\ arg' = [arg EXCEPT ![t] = g]
                /\ cur' = [cur EXCEPT ![t] = g]
                /\ pc' = [pc EXCEPT ![t] = "handle"]
           ELSE UNCHANGED <<arg, cur, pc>>
      /\ UNCHANGED <<mode, arrived, posted, queue, left, ran>>
  BY <1>1, <1>3, <1>4 DEF Complete, Goto
<1>6. /\ batch'[t] = RemoveAt(batch[t], i) /\ batch'[t] \in Seq(Request)
      /\ Len(batch'[t]) = n - 1
      /\ \A k \in 1 .. n - 1 : batch'[t][k] = IF k < i THEN batch[t][k] ELSE batch[t][k + 1]
      /\ \A u \in Thread \ {t} : batch'[u] = batch[u]
  BY <1>0, <1>2, <1>5, RemoveAtFacts DEF Inv, Typed
<1>7. hits'[t] = hits[t] \ {i} /\ \A u \in Thread \ {t} : hits'[u] = hits[u]
  BY <1>5 DEF Inv, Typed
<1>8. \A u \in Thread \ {t} : arg'[u] = arg[u] /\ cur'[u] = cur[u] /\ pc'[u] = pc[u]
  BY <1>5 DEF Inv, Typed
<1> DEFINE last == outstanding[g] - 1 <= 0
<1>9. /\ last => arg'[t] = g /\ cur'[t] = g /\ pc'[t] = "handle"
      /\ ~last => arg'[t] = NoGroup /\ cur'[t] = NoGroup /\ pc'[t] = "next"
  BY <1>0, <1>5 DEF Inv, Typed
<1>10. /\ Held(t) = 1 .. n /\ Held(t)' = 1 .. n - 1
       /\ \A u \in Thread \ {t} : Held(u)' = Held(u)
       /\ \A u \in Thread : Unpushed(u)' = Unpushed(u) /\ (Unpushed(u) # {} => arg'[u] = arg[u])
  <2>1. Held(t) = 1 .. n
    BY <1>0 DEF Held
  <2>2. Held(t)' = 1 .. n - 1
    BY <1>0, <1>5, <1>6 DEF Held
  <2>3. \A u \in Thread \ {t} : Held(u)' = Held(u)
    BY <1>5, <1>6, <1>7, <1>8 DEF Held
  <2>4. \A u \in Thread \ {t} : Unpushed(u)' = Unpushed(u)
    BY <1>5, <1>8 DEF Unpushed
  <2>5. Unpushed(t)' = {} /\ Unpushed(t) = {}
    BY <1>0, <1>9 DEF Unpushed
  <2> QED
    BY <1>8, <2>1, <2>2, <2>3, <2>4, <2>5
<1>11. /\ \A r : InQueue(r)' <=> InQueue(r)
       /\ \A r : \A u \in Thread : ToPush(r, u)' <=> ToPush(r, u)
       /\ \A r : \A u \in Thread \ {t} : InBatch(r, u)' <=> InBatch(r, u)
       /\ \A r : InBatch(r, t)' <=> InBatch(r, t) /\ r # x
  <2>1. \A r : InQueue(r)' <=> InQueue(r)
    BY <1>5 DEF InQueue
  <2>2. \A r : \A u \in Thread : ToPush(r, u)' <=> ToPush(r, u)
    BY <1>10 DEF ToPush
  <2>3. \A r : \A u \in Thread \ {t} : InBatch(r, u)' <=> InBatch(r, u)
    BY <1>6, <1>10 DEF InBatch
  <2>4. ASSUME NEW r
        PROVE  InBatch(r, t)' <=> InBatch(r, t) /\ r # x
    <3>1. InBatch(r, t) <=> \E k \in 1 .. n : batch[t][k] = r
      BY <1>10 DEF InBatch
    <3>2. InBatch(r, t)' <=> \E k \in 1 .. n - 1 : batch'[t][k] = r
      BY <1>10 DEF InBatch
    <3>3. ASSUME NEW k \in 1 .. n - 1
          PROVE  \E l \in 1 .. n : l # i /\ batch'[t][k] = batch[t][l]
      <4>1. CASE k < i
        BY <1>0, <1>2, <1>6, <4>1
      <4>2. CASE ~(k < i)
        <5>1. k + 1 \in 1 .. n /\ k + 1 # i
          BY <1>0, <1>2, <4>2
        <5> QED
          BY <1>6, <4>2, <5>1
      <4> QED
        BY <4>1, <4>2
    <3>4. ASSUME NEW k \in 1 .. n, k # i
          PROVE  \E l \in 1 .. n - 1 : batch'[t][l] = batch[t][k]
      <4>1. CASE k < i
        <5>1. k \in 1 .. n - 1
          BY <1>0, <1>2, <4>1
        <5> QED
          BY <1>6, <4>1, <5>1
      <4>2. CASE ~(k < i)
        <5>1. k - 1 \in 1 .. n - 1 /\ ~(k - 1 < i) /\ (k - 1) + 1 = k
          BY <1>0, <1>2, <3>4, <4>2
        <5> QED
          BY <1>6, <5>1
      <4> QED
        BY <4>1, <4>2
    <3>5. \A k \in 1 .. n : k # i => batch[t][k] # x
      BY <1>2, <1>3 DEF Inv, Apart
    <3> QED
      BY <1>2, <1>3, <3>1, <3>2, <3>3, <3>4, <3>5, SMTT(30)
  <2> QED
    BY <2>1, <2>2, <2>3, <2>4
<1>12. /\ InBatch(x, t) /\ ~InQueue(x) /\ \A u \in Thread : ~ToPush(x, u)
       /\ \A u \in Thread \ {t} : ~InBatch(x, u)
  <2>1. InBatch(x, t)
    BY <1>2, <1>3, <1>10 DEF InBatch
  <2>2. ~InQueue(x) /\ \A u \in Thread : ~ToPush(x, u)
    BY <2>1 DEF Inv, Apart
  <2>3. \A u \in Thread \ {t} : ~InBatch(x, u)
    BY <2>1 DEF Inv, Apart, InBatch
  <2> QED
    BY <2>1, <2>2, <2>3
<1>13. \A r : Waiting(r)' <=> Waiting(r) /\ r # x
  BY <1>11, <1>12 DEF Waiting
<1>14. \A h \in Group : Wait(h)' = IF h = g THEN Wait(g) \ {x} ELSE Wait(h)
  <2> TAKE h \in Group
  <2>1. CASE h = g
    BY <1>13, <2>1 DEF Wait
  <2>2. CASE h # g
    <3>1. x \notin Range(Members[h])
      BY <1>4, <2>2, OneGroup
    <3> QED
      BY <1>13, <2>2, <3>1 DEF Wait
  <2> QED
    BY <2>1, <2>2
<1>15. x \in Wait(g)
  BY <1>4, <1>12 DEF Wait, Waiting
<1>16. /\ g \in posted /\ ran[g] = 0 /\ \A u \in Thread : cur[u] # g
       /\ outstanding[g] = Cardinality(Wait(g)) /\ outstanding[g] \in Nat \ {0}
       /\ Cardinality(Wait(g) \ {x}) = outstanding[g] - 1 /\ IsFiniteSet(Wait(g) \ {x})
  <2>1. GroupKnown(g) /\ Wait(g) # {}
    BY <1>15 DEF Inv
  <2>2. \A u \in Thread : cur[u] # g
    BY <2>1, GroupFacts DEF Inv, CurKnown
  <2>3. outstanding[g] = Cardinality(Wait(g)) /\ outstanding[g] \in Nat \ {0}
    BY <2>1, WaitFinite DEF Inv, Counted
  <2>4. Cardinality(Wait(g) \ {x}) = Cardinality(Wait(g)) - 1 /\ IsFiniteSet(Wait(g) \ {x})
    BY <1>15, WaitFinite, FS_RemoveElement
  <2> QED
    BY <2>1, <2>2, <2>3, <2>4 DEF GroupKnown
<1>17. last => Wait(g) = {x}
  <2>1. last => Cardinality(Wait(g) \ {x}) = 0
    BY <1>16
  <2>2. last => Wait(g) \ {x} = {}
    BY <1>16, <2>1, FS_EmptySet
  <2> QED
    BY <1>15, <2>2
<1>18. /\ \A u \in Thread : arg[u] = g => pc[u] = "push"
       /\ last => \A u \in Thread : arg[u] # g
  <2> SUFFICES ASSUME NEW u \in Thread, arg[u] = g
               PROVE  pc[u] = "push" /\ ~last
    OBVIOUS
  <2>1. Control(u) /\ g # NoGroup
    BY GroupFacts DEF Inv
  <2>2. pc[u] = "push"
    BY <1>15, <2>1 DEF Inv, ArgKnown, Control
  <2>3. left[u] + 1 \in Unpushed(u) /\ left[u] + 1 \in 1 .. Len(Members[g])
    BY <2>1, <2>2, GroupFacts, SMTT(30) DEF Control, Unpushed, Inv, Typed
  <2>4. ToPush(Members[g][left[u] + 1], u)
    BY <2>3 DEF ToPush
  <2>5. Members[g][left[u] + 1] \in Wait(g) /\ Members[g][left[u] + 1] # x
    BY <1>12, <2>3, <2>4, GroupFacts DEF Wait, Waiting
  <2> QED
    BY <1>17, <2>2, <2>5
<1>19. last => Range(Members[g]) \subseteq arrived
  <2>1. last => \A r \in Range(Members[g]) : r # x => ~Waiting(r)
    BY <1>17 DEF Wait
  <2>2. \/ \A r \in Range(Members[g]) : Waiting(r) \/ r \in arrived
        \/ \E u \in Thread : pc[u] = "testall" /\ arg[u] = g
    BY <1>16 DEF Inv, GroupKnown
  <2> QED
    BY <1>2, <1>3, <1>18, <2>1, <2>2
<1>20. Typed'
  <2>1. outstanding[g] - 1 \in Nat
    BY <1>16
  <2>2. outstanding' \in [Group -> Nat]
    BY <1>5, <2>1 DEF Inv, Typed
  <2>3. batch' \in [Thread -> Seq(Request)]
    BY <1>0, <1>2, <1>5, RemoveAtFacts DEF Inv, Typed
  <2>4. hits' \in [Thread -> SUBSET Nat]
    BY <1>5 DEF Inv, Typed
  <2>5. /\ arg' \in [Thread -> Group \cup {NoGroup}] /\ cur' \in [Thread -> Group \cup {NoGroup}]
        /\ pc' \in [Thread -> {"idle", "testall", "push", "handle", "grab", "testsome",
                               "next", "erase"}]
    BY <1>5, ZenonT(30) DEF Inv, Typed
  <2> QED
    BY <1>5, <2>2, <2>3, <2>4, <2>5 DEF Inv, Typed
<1>21. ASSUME NEW u \in Thread
       PROVE  Control(u)'
  <2>1. Control(u)
    BY DEF Inv
  <2>2. CASE u = t
    <3>1. \A k \in hits'[t] : k \in 1 .. n - 1 /\ batch'[t][k] = batch[t][k]
      <4> TAKE k \in hits'[t]
      <4>1. k \in hits[t] /\ k # i /\ k <= i /\ k \in 1 .. n
        BY <1>0, <1>1, <1>7
      <4>2. k < i /\ k \in 1 .. n - 1
        BY <1>2, <4>1
      <4> QED
        BY <1>6, <4>2
    <3>2. \A k \in hits'[t] : k \in hits[t] /\ batch[t][k] \in arrived
      BY <1>0, <1>7 DEF Control
    <3>3. \A k \in hits'[t] : k \in 1 .. Len(batch'[t]) /\ batch'[t][k] \in arrived'
      BY <1>5, <1>6, <3>1, <3>2
    <3>4. left'[t] = 0 /\ g # NoGroup
      BY <1>0, <1>5, GroupFacts
    <3>5. CASE last
      BY <1>9, <2>2, <3>3, <3>4, <3>5 DEF Control
    <3>6. CASE ~last
      BY <1>9, <2>2, <3>3, <3>4, <3>6 DEF Control
    <3> QED
      BY <3>5, <3>6
  <2>3. CASE u # t
    BY <1>5, <1>6, <1>7, <1>8, <2>1, <2>3 DEF Control
  <2> QED
    BY <2>2, <2>3
<1>22. Apart'
  <2> DEFINE at(k) == IF k < i THEN k ELSE k + 1
  <2>1. \A k \in 1 .. n - 1 : at(k) \in 1 .. n /\ batch'[t][k] = batch[t][at(k)]
    BY <1>0, <1>2, <1>6
  <2>2. \A k, l \in 1 .. n - 1 : at(k) = at(l) => k = l
    BY <1>0, <1>2
  <2> HIDE DEF at
  <2>3. ASSUME NEW k \in 1 .. n - 1, NEW l \in 1 .. n - 1, batch'[t][k] = batch'[t][l]
        PROVE  k = l
    <3>1. at(k) \in 1 .. n /\ at(l) \in 1 .. n /\ batch[t][at(k)] = batch[t][at(l)]
      BY <2>1, <2>3
    <3>2. at(k) = at(l)
      BY <3>1 DEF Inv, Apart
    <3> QED
      BY <2>2, <3>2
  <2>4. \A u \in Thread : \A k, l \in 1 .. Len(batch'[u]) : batch'[u][k] = batch'[u][l] => k = l
    BY <1>6, <2>3 DEF Inv, Apart
  <2>5. ASSUME NEW u \in Thread, NEW v \in Thread, NEW k \in Held(u)', NEW l \in Held(v)',
               batch'[u][k] = batch'[v][l]
        PROVE  u = v /\ k = l
    <3>1. CASE u = t /\ v = t
      BY <1>10, <2>3, <2>5, <3>1
    <3>2. CASE u # t /\ v # t
      BY <1>6, <1>10, <2>5, <3>2 DEF Inv, Apart
    <3>3. CASE u = t /\ v # t
      <4>1. at(k) \in Held(t) /\ l \in Held(v) /\ batch[t][at(k)] = batch[v][l]
        BY <1>6, <1>10, <2>1, <2>5, <3>3
      <4> QED
        BY <3>3, <4>1 DEF Inv, Apart
    <3>4. CASE u # t /\ v = t
      <4>1. at(l) \in Held(t) /\ k \in Held(u) /\ batch[t][at(l)] = batch[u][k]
        BY <1>6, <1>10, <2>1, <2>5, <3>4
      <4> QED
        BY <3>4, <4>1 DEF Inv, Apart
    <3> QED
      BY <3>1, <3>2, <3>3, <3>4
  <2>6. \A a, b \in 1 .. Len(queue') : queue'[a] = queue'[b] => a = b
    BY <1>5 DEF Inv, Apart
  <2>7. \A r \in Request, u \in Thread : ~(InQueue(r)' /\ InBatch(r, u)')
    BY <1>11 DEF Inv, Apart
  <2>8. \A r \in Request, u \in Thread : ToPush(r, u)' =>
          ~InQueue(r)' /\ \A v \in Thread : ~InBatch(r, v)'
    BY <1>11 DEF Inv, Apart
  <2>9. \A u, v \in Thread : \A k \in Held(u)', l \in Held(v)' :
          batch'[u][k] = batch'[v][l] => u = v /\ k = l
    BY <2>5
  <2> QED
    BY <2>4, <2>6, <2>7, <2>8, <2>9 DEF Apart
<1>23. ArgKnown'
  <2>1. \A u, v \in Thread : arg'[u] = arg'[v] /\ arg'[u] # NoGroup => u = v
    BY <1>8, <1>9, <1>18 DEF Inv, ArgKnown
  <2>2. \A u \in Thread : arg'[u] # NoGroup => arg'[u] \in posted' /\ ran'[arg'[u]] = 0
    BY <1>5, <1>8, <1>9, <1>16 DEF Inv, ArgKnown
  <2>3. ASSUME NEW u \in Thread, pc'[u] \in {"testall", "handle"}
        PROVE  Wait(arg[u])' = {}
    <3>1. CASE u = t
      <4>1. last /\ arg'[t] = g
        BY <1>9, <2>3, <3>1
      <4>2. Wait(g)' = {}
        BY <1>14, <1>17, <4>1
      <4> QED
        BY <3>1, <4>1, <4>2
    <3>2. CASE u # t
      <4>1. PICK h \in Group : h = arg[u] /\ h = arg'[u] /\ Wait(h) = {}
        BY <1>8, <2>3, <3>2 DEF Inv, Typed, Control, ArgKnown
      <4>2. Wait(h)' = {}
        BY <1>14, <1>15, <4>1
      <4> QED
        BY <4>1, <4>2
    <3> QED
      BY <3>1, <3>2
  <2>4. \A u \in Thread : pc'[u] = "handle" => Range(Members[arg'[u]]) \subseteq arrived'
    BY <1>5, <1>8, <1>9, <1>19 DEF Inv, ArgKnown
  <2> QED
    BY <2>1, <2>2, <2>3, <2>4 DEF ArgKnown
<1>24. CurKnown'
  <2> SUFFICES ASSUME NEW u \in Thread, cur'[u] # NoGroup
               PROVE  /\ cur'[u] \in posted' /\ Wait(cur[u])' = {}
                      /\ \A v \in Thread : arg'[v] = cur'[u] => pc'[v] = "handle"
    BY DEF CurKnown
  <2>1. CASE u = t
    <3>1. last /\ cur'[t] = g
      BY <1>9, <2>1
    <3>2. Wait(g)' = {}
      BY <1>14, <1>17, <3>1
    <3>3. \A v \in Thread : arg'[v] = g => pc'[v] = "handle"
      BY <1>8, <1>9, <1>18, <3>1
    <3> QED
      BY <1>5, <1>16, <2>1, <3>1, <3>2, <3>3
  <2>2. CASE u # t
    <3>1. PICK h \in Group : h = cur[u] /\ h = cur'[u] /\ h # g /\ h # NoGroup
      BY <1>8, <1>16, <2>2 DEF Inv, Typed
    <3>2. Wait(h)' = {} /\ h \in posted' /\ \A v \in Thread : arg[v] = h => pc[v] = "handle"
      BY <1>5, <1>14, <3>1 DEF Inv, CurKnown
    <3>3. \A v \in Thread : arg'[v] = h => pc'[v] = "handle"
      BY <1>8, <1>9, <3>1, <3>2
    <3> QED
      BY <3>1, <3>2, <3>3
  <2> QED
    BY <2>1, <2>2
<1>25. ASSUME NEW h \in Group
       PROVE  GroupKnown(h)'
  <2>1. GroupKnown(h)
    BY DEF Inv
  <2>2. Wait(h)' \subseteq Wait(h)
    BY <1>14
  <2>3. \A r : Waiting(r) => Waiting(r)' \/ r \in arrived'
    BY <1>2, <1>3, <1>5, <1>13
  <2>4. \A u \in Thread : pc[u] = "testall" /\ arg[u] = h => pc'[u] = "testall" /\ arg'[u] = h
    BY <1>0, <1>8
  <2> QED
    BY <1>5, <2>1, <2>2, <2>3, <2>4 DEF GroupKnown
<1>26. Counted'
  <2> SUFFICES ASSUME NEW h \in Group
               PROVE  outstanding'[h] = Cardinality(Wait(h)')
    BY DEF Counted
  <2>1. outstanding'[h] = IF h = g THEN outstanding[g] - 1 ELSE outstanding[h]
    BY <1>5 DEF Inv, Typed
  <2>2. outstanding[h] = Cardinality(Wait(h))
    BY DEF Inv, Counted
  <2> QED
    BY <1>14, <1>16, <2>1, <2>2
<1>27. Origin'
  BY <1>5 DEF Inv, Origin
<1> QED
  BY <1>20, <1>21, <1>22, <1>23, <1>24, <1>25, <1>26, <1>27 DEF Inv

-----------------------------------------------------------------------------
(* The invariant holds at first.                                           *)
LEMMA InitInv == Init => Inv
<1> SUFFICES ASSUME Init
             PROVE  Inv
  OBVIOUS
<1>1. /\ queue = <<>> /\ Len(queue) = 0 /\ arrived = {} /\ posted = {}
      /\ \A t \in Thread : /\ batch[t] = <<>> /\ Len(batch[t]) = 0 /\ pc[t] = "idle"
                           /\ arg[t] = NoGroup /\ cur[t] = NoGroup /\ left[t] = 0
                           /\ hits[t] = {}
      /\ \A g \in Group : outstanding[g] = 0 /\ ran[g] = 0
  BY EmptySeq DEF Init
<1>2. Typed
  BY EmptySeq DEF Init, Typed
<1>3. \A t \in Thread : Control(t)
  BY <1>1 DEF Control
<1>4. \A t \in Thread : Held(t) = {} /\ Unpushed(t) = {}
  BY <1>1 DEF Held, Unpushed
<1>5. \A r : ~Waiting(r)
  BY <1>1, <1>4 DEF Waiting, InQueue, InBatch, ToPush
<1>6. \A g \in Group : Wait(g) = {}
  BY <1>5 DEF Wait
<1>7. Apart
  BY <1>1, <1>4 DEF Apart, InQueue, InBatch, ToPush
<1>8. ArgKnown /\ CurKnown /\ Origin
  BY <1>1 DEF ArgKnown, CurKnown, Origin
<1>9. \A g \in Group : GroupKnown(g)
  BY <1>1, <1>6 DEF GroupKnown
<1>10. Counted
  BY <1>1, <1>6, FS_EmptySet DEF Counted
<1> QED
  BY <1>2, <1>3, <1>7, <1>8, <1>9, <1>10 DEF Inv

(* Stuttering keeps it.                                                    *)
LEMMA StutterKeeps == Inv /\ UNCHANGED vars => Inv'
<1> SUFFICES ASSUME Inv, UNCHANGED vars
             PROVE  Inv'
  OBVIOUS
<1>1. Typed' /\ Origin' /\ \A t \in Thread : Control(t)'
  BY DEF Inv, Typed, Origin, Control, vars
<1>2. LeavesPlaces
  BY DEF vars, LeavesPlaces, Held, Unpushed
<1>3. Apart' /\ Still
  BY <1>2, PlacesKept DEF Inv
<1>4. Quiet
  BY <1>3 DEF Quiet, vars
<1> QED
  BY <1>1, <1>3, <1>4, QuietStep

(* Every step keeps it.                                                    *)
LEMMA NextKeeps == Inv /\ [Next]_vars => Inv'
<1> SUFFICES ASSUME Inv, [Next]_vars
             PROVE  Inv'
  OBVIOUS
<1>1. ASSUME NEW r \in Request, Arrive(r)
      PROVE  Inv'
  BY <1>1, ArriveKeeps
<1>2. ASSUME NEW t \in Thread, NEW g \in Group, Submit(t, g)
      PROVE  Inv'
  BY <1>2, SubmitKeeps
<1>3. ASSUME NEW t \in Thread, Progress(t)
      PROVE  Inv'
  BY <1>3, ProgressKeeps
<1>4. ASSUME NEW t \in Thread, InCall(t)
      PROVE  Inv'
  BY <1>4, TestAllKeeps, PushKeeps, HandleKeeps, GrabKeeps, TestSomeKeeps, CompleteKeeps,
     EraseKeeps, FinishKeepsAll DEF InCall
<1> QED
  BY <1>1, <1>2, <1>3, <1>4, StutterKeeps DEF Next

(* A waiting request is in one place, and a group's count is that of its   *)
(* members that wait, in every state of submit_requests and progress.      *)
THEOREM ManagerInvariant == Spec => []Inv
BY InitInv, NextKeeps, PTL DEF Spec

(* The types of the variables, with the bounds of the lists and counters:  *)
(* neither a batch nor the queue outgrows the requests there are.          *)
THEOREM ManagerTypes == Spec => []TypeOK
<1>1. Inv => TypeOK
  <2> SUFFICES ASSUME Inv
               PROVE  TypeOK
    OBVIOUS
  <2>1. Cardinality(Request) \in Nat
    BY ManagerAssumption, FS_CardinalityType
  <2>2. \A t \in Thread : Len(batch[t]) \in Nat /\ Len(batch[t]) <= Cardinality(Request)
    BY DistinctIsShort DEF Inv, Typed, Apart
  <2>3. ASSUME NEW t \in Thread
        PROVE  left[t] \in 0 .. Cardinality(Request) + 1
    <3>1. Control(t) /\ left[t] \in Nat
      BY DEF Inv, Typed
    <3>2. CASE pc[t] = "push"
      <4>1. PICK g \in Group : g = arg[t]
        BY <3>1, <3>2 DEF Inv, Typed, Control
      <4>2. Len(Members[g]) \in Nat /\ Len(Members[g]) <= Cardinality(Request)
        BY GroupSize, GroupFacts
      <4> QED
        BY <2>1, <3>1, <3>2, <4>1, <4>2 DEF Control
    <3>3. CASE pc[t] = "next"
      BY <2>1, <2>2, <3>1, <3>3 DEF Control
    <3>4. CASE pc[t] \notin {"push", "next"}
      BY <2>1, <3>1, <3>4 DEF Control, Inv, Typed
    <3> QED
      BY <3>2, <3>3, <3>4
  <2>4. ASSUME NEW t \in Thread
        PROVE  hits[t] \subseteq 1 .. Cardinality(Request)
    BY <2>1, <2>2 DEF Inv, Control
  <2>5. left \in [Thread -> 0 .. Cardinality(Request) + 1]
    BY <2>3 DEF Inv, Typed
  <2>6. hits \in [Thread -> SUBSET (1 .. Cardinality(Request))]
    BY <2>4 DEF Inv, Typed
  <2> QED
    BY <2>5, <2>6 DEF Inv, Typed, TypeOK
<1> QED
  BY <1>1, ManagerInvariant, PTL

(* The places of a request: in the queue, in a batch, still to push.       *)
LEMMA SpotIs ==
  ASSUME Typed, NEW r, NEW x
  PROVE  x \in Spots(r) <=>
           \/ \E i \in 1 .. Len(queue) : queue[i] = r /\ x = <<"queue", Comm, i>>
           \/ \E t \in Thread : \E i \in Held(t) : batch[t][i] = r /\ x = <<"batch", t, i>>
           \/ \E t \in Thread : \E i \in Unpushed(t) :
                Members[arg[t]][i] = r /\ x = <<"push", t, i>>
<1>1. DOMAIN queue = 1 .. Len(queue)
  BY LenProperties DEF Typed
<1> QED
  BY <1>1 DEF Spots

(* A request waits while it has a place.                                   *)
LEMMA SpotsWait ==
  ASSUME Typed, NEW r
  PROVE  Spots(r) # {} <=> Waiting(r)
<1>1. Waiting(r) => \E x : x \in Spots(r)
  <2>1. ASSUME InQueue(r) PROVE \E x : x \in Spots(r)
    BY <2>1, SpotIs DEF InQueue
  <2>2. ASSUME NEW t \in Thread, InBatch(r, t) PROVE \E x : x \in Spots(r)
    <3>1. PICK i \in Held(t) : batch[t][i] = r
      BY <2>2 DEF InBatch
    <3>2. <<"batch", t, i>> \in Spots(r)
      BY <3>1, SpotIs
    <3> QED
      BY <3>2
  <2>3. ASSUME NEW t \in Thread, ToPush(r, t) PROVE \E x : x \in Spots(r)
    <3>1. PICK i \in Unpushed(t) : Members[arg[t]][i] = r
      BY <2>3 DEF ToPush
    <3>2. <<"push", t, i>> \in Spots(r)
      BY <3>1, SpotIs
    <3> QED
      BY <3>2
  <2> QED
    BY <2>1, <2>2, <2>3 DEF Waiting
<1>2. ASSUME NEW x \in Spots(r)
      PROVE  Waiting(r)
  BY SpotIs DEF Waiting, InQueue, InBatch, ToPush
<1> QED
  BY <1>1, <1>2

(* A request that a thread has to push is one of the group it posts.       *)
LEMMA PushedGroup ==
  ASSUME Inv, NEW t \in Thread, NEW i \in Unpushed(t)
  PROVE  /\ arg[t] \in Group /\ i \in 1 .. Len(Members[arg[t]])
         /\ Members[arg[t]][i] \in Range(Members[arg[t]])
<1>1. pc[t] = "push" /\ i \in left[t] + 1 .. Len(Members[arg[t]]) /\ left[t] \in Nat
  BY DEF Unpushed, Inv, Typed
<1>2. arg[t] \in Group
  BY <1>1 DEF Inv, Typed, Control
<1>3. Len(Members[arg[t]]) \in Nat
  BY <1>2, GroupFacts
<1>4. i \in 1 .. Len(Members[arg[t]])
  BY <1>1, <1>3
<1> QED
  BY <1>2, <1>4, GroupFacts

(* It has no more than one.                                                *)
LEMMA OneSpot ==
  ASSUME Inv, NEW r \in Request, NEW x \in Spots(r), NEW y \in Spots(r)
  PROVE  x = y
<1> DEFINE Q(z, i) == i \in 1 .. Len(queue) /\ queue[i] = r /\ z = <<"queue", Comm, i>>
           B(z, t, i) == /\ t \in Thread /\ i \in Held(t) /\ batch[t][i] = r
                         /\ z = <<"batch", t, i>>
           P(z, t, i) == /\ t \in Thread /\ i \in Unpushed(t) /\ Members[arg[t]][i] = r
                         /\ z = <<"push", t, i>>
<1>1. ASSUME NEW z \in Spots(r)
      PROVE  (\E i : Q(z, i)) \/ (\E t, i : B(z, t, i)) \/ (\E t, i : P(z, t, i))
  BY SpotIs DEF Inv
<1>2. \A z, i : Q(z, i) => InQueue(r)
  BY DEF InQueue
<1>3. \A z, t, i : B(z, t, i) => t \in Thread /\ InBatch(r, t)
  BY DEF InBatch
<1>4. \A z, t, i : P(z, t, i) => t \in Thread /\ ToPush(r, t)
  BY DEF ToPush
<1>5. \A i, j : Q(x, i) /\ Q(y, j) => x = y
  BY DEF Inv, Apart
<1>6. \A t, u, i, j : B(x, t, i) /\ B(y, u, j) => x = y
  BY DEF Inv, Apart
<1>7. ASSUME NEW t, NEW u, NEW i, NEW j, P(x, t, i), P(y, u, j)
      PROVE  x = y
  <2>1. /\ arg[t] \in Group /\ i \in 1 .. Len(Members[arg[t]])
        /\ r \in Range(Members[arg[t]])
    BY <1>7, PushedGroup
  <2>2. /\ arg[u] \in Group /\ j \in 1 .. Len(Members[arg[u]])
        /\ r \in Range(Members[arg[u]])
    BY <1>7, PushedGroup
  <2>3. arg[t] = arg[u]
    BY <2>1, <2>2, OneGroup
  <2>4. t = u
    BY <1>7, <2>1, <2>3, GroupFacts DEF Inv, ArgKnown
  <2>5. i = j
    BY <1>7, <2>1, <2>2, <2>4, OnePosition
  <2> QED
    BY <1>7, <2>4, <2>5
<1> HIDE DEF Q, B, P
<1> QED
  BY <1>1, <1>2, <1>3, <1>4, <1>5, <1>6, <1>7 DEF Inv, Apart

(* A request is in one place, and the count of a group is the number of    *)
(* its requests that wait: the handler runs when the count reaches 0.      *)
THEOREM KeepsRequests == Spec => []RequestsKept
<1>1. Inv => RequestsKept
  <2> SUFFICES ASSUME Inv
               PROVE  RequestsKept
    OBVIOUS
  <2>1. \A r \in Request : \A x, y \in Spots(r) : x = y
    BY OneSpot
  <2>2. ASSUME NEW g \in Group
        PROVE  outstanding[g] = Cardinality({r \in Range(Members[g]) : Spots(r) # {}})
    <3>1. \A r : Spots(r) # {} <=> Waiting(r)
      BY SpotsWait DEF Inv
    <3>2. {r \in Range(Members[g]) : Spots(r) # {}} = Wait(g)
      BY <3>1 DEF Wait
    <3> QED
      BY <3>2 DEF Inv, Counted
  <2> QED
    BY <2>1, <2>2 DEF RequestsKept
<1> QED
  BY <1>1, ManagerInvariant, PTL

-----------------------------------------------------------------------------
(* The steps, as RequestGroups sees them.                                  *)
Handled == {g \in Group : ran[g] > 0}

(* The step that runs a handler is the one of RequestGroups.               *)
LEMMA HandleMaps ==
  ASSUME Inv, NEW t \in Thread, Handle(t)
  PROVE  Groups!Handle
<1>1. PICK g \in Group : g = arg[t]
  BY DEF Inv, Typed, Control, Handle
<1>2. /\ g \in posted /\ ran[g] = 0 /\ Range(Members[g]) \subseteq arrived
      /\ ran' = [ran EXCEPT ![g] = 1]
  <2>1. pc[t] = "handle" /\ g # NoGroup
    BY GroupFacts DEF Handle
  <2>2. g \in posted /\ ran[g] = 0 /\ Range(Members[g]) \subseteq arrived
    BY <1>1, <2>1 DEF Inv, ArgKnown
  <2>3. ran' = [ran EXCEPT ![g] = ran[g] + 1]
    BY <1>1 DEF Handle
  <2>4. ran[g] + 1 = 1
    BY <2>2
  <2> QED
    BY <2>2, <2>3, <2>4
<1>3. Handled' = Handled \cup {g} /\ g \notin Handled
  BY <1>2 DEF Handled, Inv, Typed
<1>4. [h \in Group |-> Range(Members[h])][g] \subseteq arrived
  BY <1>2
<1>5. \/ UNCHANGED posted
      \/ \E h \in Group \ posted : posted' = posted \cup {h}
  <2>1. Follow[g] \in Group \cup {NoGroup}
    BY ManagerAssumption
  <2>2. posted' = IF Follow[g] = NoGroup THEN posted ELSE posted \cup {Follow[g]}
    BY <1>1 DEF Handle
  <2>3. Follow[g] \in posted => posted' = posted
    BY <2>2
  <2> QED
    BY <2>1, <2>2, <2>3
<1> QED
  BY <1>2, <1>3, <1>4, <1>5 DEF Groups!Handle, Handled, Handle

(* Every step is one of RequestGroups, or changes nothing there.           *)
LEMMA StepMaps ==
  ASSUME Inv, [Next]_vars
  PROVE  [Groups!GNext]_(Groups!gvars)
<1>1. ASSUME UNCHANGED <<arrived, posted, ran>>
      PROVE  UNCHANGED Groups!gvars
  BY <1>1 DEF Groups!gvars
<1>2. ASSUME NEW r \in Request, Arrive(r)
      PROVE  Groups!Arrive
  BY <1>2 DEF Arrive, Groups!Arrive
<1>3. ASSUME NEW t \in Thread, NEW g \in Group, Submit(t, g)
      PROVE  Groups!Post
  BY <1>3 DEF Submit, Groups!Post
<1>4. ASSUME NEW t \in Thread, Progress(t)
      PROVE  UNCHANGED <<arrived, posted, ran>>
  BY <1>4 DEF Progress
<1>5. ASSUME NEW t \in Thread, InCall(t), ~Handle(t)
      PROVE  UNCHANGED <<arrived, posted, ran>>
  BY <1>5 DEF InCall, TestAll, Push, Grab, TestSome, Complete, Erase, Finish
<1>6. ASSUME UNCHANGED vars
      PROVE  UNCHANGED <<arrived, posted, ran>>
  BY <1>6 DEF vars
<1> QED
  BY <1>1, <1>2, <1>3, <1>4, <1>5, <1>6, HandleMaps DEF Next, Groups!GNext

(* Every handler runs once, when the whole of its group has completed.     *)
THEOREM ImplementsGroups == Spec => KeepsGroups
<1>1. Init => Groups!GInit
  BY DEF Init, Groups!GInit
<1>2. Inv' => \A g \in Group : ran'[g] <= 1
  BY DEF Inv, GroupKnown
<1>3. Inv /\ [Next]_vars => [Groups!GNext]_(Groups!gvars)
  BY StepMaps
<1>4. Inv /\ [Next]_vars => [\A g \in Group : ran'[g] <= 1]_vars
  BY <1>2, NextKeeps
<1> QED
  BY <1>1, <1>3, <1>4, ManagerInvariant, PTL DEF Spec, KeepsGroups, Groups!GSpec
=============================================================================
