--------------------------- MODULE BclQueueProofs ---------------------------
(***************************************************************************)
(* For every number of threads, ranks, calls and slots: the tickets of a   *)
(* CircularQueue, what a stranded call is, and, in the second part, that   *)
(* it implements BoundedQueue.                                             *)
(***************************************************************************)
EXTENDS BclQueue, FiniteSetTheorems, SequenceTheorems, TLAPS

(* No call of side s in progress has ticket t.                             *)
Unheld(s, t) == \A b \in InFlight(s) : ticket[b] # t

(* Tickets in use are not yet published.                                   *)
Ahead == \A a \in Actor : pc[a] # "idle" => ticket[a] >= res[side[a]]

(* Two calls have one ticket only if an earlier ticket, not yet published, *)
(* is held by nobody: neither of the two can ever publish.                 *)
Doubled(a, b) == /\ a # b /\ pc[a] # "idle" /\ pc[b] # "idle"
                 /\ side[a] = side[b] /\ ticket[a] = ticket[b]
Missing ==
  \A a, b \in Actor : Doubled(a, b) =>
    \E h \in res[side[a]] .. ticket[a] - 1 : Unheld(side[a], h)

(* Cached counters are never ahead of the counters they are copies of.     *)
Cached == /\ \A s \in Side, r \in Rank : buf[s][r] <= res[Other(s)]
          /\ \A a \in Actor : pc[a] = "store" => seen[a] <= res[Other(side[a])]

Ordered == /\ res["pop"] <= res["push"]
           /\ res["push"] <= res["pop"] + Capacity

TicketInv == TypeOK /\ TicketsCounted /\ Ahead /\ Missing /\ Cached /\ OwnSlot /\ Ordered

-----------------------------------------------------------------------------
(* Fewer calls than tickets leave a ticket to nobody.                      *)
LEMMA FreeTicket ==
  ASSUME NEW S, IsFiniteSet(S), NEW f, NEW lo \in Int, NEW k \in Int,
         Cardinality(S) < k - lo
  PROVE  \E h \in lo .. k - 1 : \A a \in S : f[a] # h
<1> SUFFICES ASSUME \A h \in lo .. k - 1 : \E a \in S : f[a] = h
             PROVE  FALSE
  OBVIOUS
<1> DEFINE T == lo .. k - 1
           g == [h \in T |-> CHOOSE a \in S : f[a] = h]
<1>1. \A h \in T : g[h] \in S /\ f[g[h]] = h
  OBVIOUS
<1>2. g \in Injection(T, S)
  BY <1>1 DEF Injection, IsInjective
<1>3. Cardinality(T) <= Cardinality(S)
  BY <1>2, FS_Injection, Zenon
<1>4. Cardinality(S) \in Nat
  BY FS_CardinalityType
<1>5. Cardinality(T) = k - lo
  BY <1>4, FS_Interval
<1> QED
  BY <1>3, <1>4, <1>5

(* The calls in progress are finitely many.                                *)
LEMMA InFlightFinite ==
  \A s \in Side : IsFiniteSet(InFlight(s)) /\ Cardinality(InFlight(s)) \in Nat
<1> SUFFICES ASSUME NEW s \in Side
             PROVE  IsFiniteSet(InFlight(s)) /\ Cardinality(InFlight(s)) \in Nat
  OBVIOUS
<1>1. IsFiniteSet(InFlight(s))
  BY QueueAssumption, FS_Subset DEF InFlight
<1> QED
  BY <1>1, FS_CardinalityType

(* A call in progress that holds ticket k or a later one: of the tickets   *)
(* before k, one is unheld, if k is the next ticket.                       *)
LEMMA HoleBelow ==
  ASSUME TypeOK, TicketsCounted, NEW a \in Actor, pc[a] # "idle",
         ticket[a] >= next[side[a]]
  PROVE  \E h \in res[side[a]] .. next[side[a]] - 1 : Unheld(side[a], h)
<1> DEFINE s == side[a]
           S == InFlight(s) \ {a}
<1>1. s \in Side /\ a \in InFlight(s) /\ next[s] \in Nat /\ res[s] \in Nat
  BY DEF TypeOK, InFlight
<1>2. IsFiniteSet(S) /\ Cardinality(S) = Cardinality(InFlight(s)) - 1
  BY <1>1, InFlightFinite, FS_RemoveElement
<1>3. next[s] - res[s] = Cardinality(InFlight(s)) /\ Cardinality(InFlight(s)) \in Nat
  BY <1>1, InFlightFinite DEF TicketsCounted
<1>4. Cardinality(S) < next[s] - res[s]
  BY <1>2, <1>3
<1>5. PICK h \in res[s] .. next[s] - 1 : \A b \in S : ticket[b] # h
  <2>1. IsFiniteSet(S) /\ res[s] \in Int /\ next[s] \in Int
    BY <1>1, <1>2
  <2> HIDE DEF s, S
  <2>2. ASSUME NEW lo \in Int, NEW k \in Int, Cardinality(S) < k - lo
        PROVE  \E h \in lo .. k - 1 : \A b \in S : ticket[b] # h
    BY <2>1, <2>2, FreeTicket
  <2> QED
    BY <2>1, <2>2, <1>4
<1>6. ticket[a] # h
  BY <1>1, <1>5 DEF TypeOK
<1> QED
  BY <1>5, <1>6 DEF Unheld

(* A step that starts, ends and publishes no call.                         *)
LEMMA InnerStep ==
  ASSUME TicketInv, next' = next, res' = res, side' = side, ticket' = ticket,
         \A a \in Actor : pc'[a] = "idle" <=> pc[a] = "idle"
  PROVE  TicketsCounted' /\ Ahead' /\ Missing' /\ Ordered'
<1>1. \A s \in Side : InFlight(s)' = InFlight(s)
  BY DEF InFlight
<1>2. TicketsCounted'
  BY <1>1 DEF TicketInv, TicketsCounted
<1>3. Ahead'
  BY DEF TicketInv, Ahead
<1>4. Missing'
  <2> SUFFICES ASSUME NEW a \in Actor, NEW b \in Actor, Doubled(a, b)'
               PROVE  (\E h \in res[side[a]] .. ticket[a] - 1 : Unheld(side[a], h))'
    BY DEF Missing
  <2>1. Doubled(a, b) /\ side[a] \in Side
    BY DEF TicketInv, TypeOK, Doubled
  <2>2. \A h : Unheld(side[a], h)' <=> Unheld(side[a], h)
    BY <2>1, <1>1 DEF Unheld
  <2> QED
    BY <2>1, <2>2 DEF TicketInv, Missing
<1>5. Ordered'
  BY DEF TicketInv, Ordered
<1> QED
  BY <1>2, <1>3, <1>4, <1>5

(* A call that passes its test has a slot of its own.                      *)
OwnsSlot(a) == IF side[a] = "push"
                 THEN ticket[a] \in res["push"] .. res["pop"] + Capacity - 1
                 ELSE ticket[a] \in res["pop"] .. res["push"] - 1

(* A call that passed the test of the limits has a slot of its own.        *)
LEMMA PassedTest ==
  ASSUME TicketInv, NEW a \in Actor, pc[a] # "idle", ~Refused(a)
  PROVE  OwnsSlot(a)
<1>1. /\ side[a] \in Side /\ ticket[a] \in Nat /\ res["push"] \in Nat /\ res["pop"] \in Nat
      /\ RankOf[a] \in Rank /\ Capacity \in Nat
  BY QueueAssumption DEF TicketInv, TypeOK, Side
<1>2. /\ buf["push"][RankOf[a]] \in Nat /\ buf["push"][RankOf[a]] <= res["pop"]
      /\ buf["pop"][RankOf[a]] \in Nat /\ buf["pop"][RankOf[a]] <= res["push"]
  BY <1>1 DEF TicketInv, TypeOK, Cached, Side, Other
<1>3. ticket[a] >= res[side[a]]
  BY DEF TicketInv, Ahead
<1> QED
  BY <1>1, <1>2, <1>3 DEF Refused, Full, Empty, Fetched, Side, OwnsSlot

(* A step of a that grants no other call, and a itself only if it passed.  *)
LEMMA GrantStep ==
  ASSUME TicketInv, NEW a \in Actor, res' = res, side' = side, ticket' = ticket,
         \A b \in Actor \ {a} : Granted(b)' => Granted(b),
         Granted(a)' => OwnsSlot(a)
  PROVE  OwnSlot'
<1> SUFFICES ASSUME NEW b \in Actor, Granted(b)'
             PROVE  OwnsSlot(b)'
  BY DEF OwnSlot, OwnsSlot
<1>1. OwnsSlot(b)
  BY DEF TicketInv, OwnSlot, OwnsSlot
<1> QED
  BY <1>1 DEF OwnsSlot

(* The tests, and the accesses to the slot, which leave all counters as    *)
(* they are.                                                               *)
LEMMA LocalTypes ==
  ASSUME TypeOK, NEW a \in Actor,
         Test(a) \/ Refresh(a) \/ StoreBuf(a) \/ Retest(a)
           \/ WriteSlot(a) \/ ReadSlot(a)
  PROVE  TypeOK'
<1> USE DEF TypeOK, Goto
<1>1. CASE Test(a)
  BY <1>1 DEF Test
<1>2. CASE Refresh(a)
  BY <1>2 DEF Refresh, Other, Side
<1>3. CASE StoreBuf(a)
  <2>1. RankOf[a] \in Rank
    BY QueueAssumption
  <2> QED
    BY <1>3, <2>1 DEF StoreBuf
<1>4. CASE Retest(a)
  BY <1>4 DEF Retest
<1>5. ASSUME WriteSlot(a) \/ ReadSlot(a) PROVE Slot(ticket[a]) \in 0 .. Capacity - 1
  BY QueueAssumption DEF Slot
<1>6. CASE WriteSlot(a)
  BY <1>5, <1>6 DEF WriteSlot
<1>7. CASE ReadSlot(a)
  BY <1>5, <1>7 DEF ReadSlot
<1> QED
  BY <1>1, <1>2, <1>3, <1>4, <1>6, <1>7

(* The steps between taking a ticket and publishing it.                    *)
LEMMA LocalStep ==
  ASSUME TicketInv, NEW a \in Actor,
         Test(a) \/ Refresh(a) \/ StoreBuf(a) \/ Retest(a)
           \/ WriteSlot(a) \/ ReadSlot(a)
  PROVE  TicketInv'
<1>1. /\ next' = next /\ res' = res /\ side' = side /\ ticket' = ticket
      /\ pc \in [Actor -> {"idle", "test", "refresh", "store", "retest",
                           "undo", "access", "publish"}]
  BY DEF Test, Refresh, StoreBuf, Retest, WriteSlot, ReadSlot, TicketInv, TypeOK
<1>2. \A b \in Actor : pc'[b] = "idle" <=> pc[b] = "idle"
  BY <1>1 DEF Test, Refresh, StoreBuf, Retest, WriteSlot, ReadSlot, Goto
<1>3. TicketsCounted' /\ Ahead' /\ Missing' /\ Ordered'
  BY <1>1, <1>2, InnerStep
<1>4. \A b \in Actor \ {a} : pc'[b] = pc[b]
  BY <1>1 DEF Test, Refresh, StoreBuf, Retest, WriteSlot, ReadSlot, Goto
<1>5. OwnSlot'
  <2>1. Granted(a)' => OwnsSlot(a)
    <3>1. CASE Granted(a)
      BY <3>1 DEF TicketInv, OwnSlot, OwnsSlot
    <3>2. CASE ~Granted(a)
      BY <1>1, <3>2, PassedTest
         DEF Granted, Test, Refresh, StoreBuf, Retest, WriteSlot, ReadSlot, Goto
    <3> QED
      BY <3>1, <3>2
  <2> QED
    BY <1>1, <1>4, <2>1, GrantStep DEF Granted
<1>6. Cached'
  <2>0. Cached /\ TypeOK
    BY DEF TicketInv
  <2>1. CASE buf' = buf /\ seen' = seen /\ pc'[a] # "store"
    BY <2>0, <2>1, <1>1, <1>4 DEF Cached
  <2>2. CASE Refresh(a)
    BY <2>0, <2>2, <1>1 DEF Refresh, Goto, Cached, TypeOK, Side, Other
  <2>3. CASE StoreBuf(a)
    <3>1. \A s \in Side, r \in Rank : buf'[s][r] \in {buf[s][r]} \/ (s = side[a] /\ buf'[s][r] = seen[a])
      BY <2>0, <2>3 DEF StoreBuf, TypeOK
    <3>2. seen[a] <= res[Other(side[a])]
      BY <2>0, <2>3 DEF StoreBuf, Cached
    <3>3. \A s \in Side, r \in Rank : buf'[s][r] <= res[Other(s)]
      BY <2>0, <3>1, <3>2 DEF Cached
    <3>4. \A b \in Actor : pc'[b] = "store" => seen[b] <= res[Other(side[b])]
      BY <2>0, <2>3, <1>1, <1>4 DEF StoreBuf, Goto, Cached
    <3> QED
      BY <1>1, <2>3, <3>3, <3>4 DEF Cached, StoreBuf, Other
  <2> QED
    BY <1>1, <2>1, <2>2, <2>3 DEF Test, Retest, WriteSlot, ReadSlot, Goto
<1> QED
  BY <1>3, <1>5, <1>6, LocalTypes DEF TicketInv

-----------------------------------------------------------------------------
(* A call that refuses gives its ticket back.                              *)
LEMMA UndoStep ==
  ASSUME TicketInv, NEW a \in Actor, Undo(a)
  PROVE  TicketInv'
<1> DEFINE s == side[a]
<1>0. TypeOK /\ TicketsCounted /\ Ahead /\ Missing /\ Cached /\ OwnSlot /\ Ordered
  BY DEF TicketInv
<1>1. /\ s \in Side /\ a \in InFlight(s) /\ next[s] \in Nat /\ res[s] \in Nat
      /\ res' = res /\ side' = side /\ ticket' = ticket /\ buf' = buf /\ seen' = seen
  BY <1>0 DEF TypeOK, InFlight, Undo
<1>2. /\ pc'[a] = "idle" /\ \A b \in Actor \ {a} : pc'[b] = pc[b]
      /\ next'[s] = next[s] - 1 /\ \A o \in Side \ {s} : next'[o] = next[o]
  BY <1>0, <1>1 DEF TypeOK, Undo, Goto
<1>3. /\ InFlight(s)' = InFlight(s) \ {a}
      /\ \A o \in Side \ {s} : InFlight(o)' = InFlight(o)
  BY <1>1, <1>2 DEF InFlight
<1>4. Cardinality(InFlight(s)') = Cardinality(InFlight(s)) - 1
  BY <1>1, <1>3, InFlightFinite, FS_RemoveElement
<1>5. next[s] = res[s] + Cardinality(InFlight(s))
  BY <1>0, <1>1 DEF TicketsCounted
<1>6. TicketsCounted'
  <2> SUFFICES ASSUME NEW o \in Side
               PROVE  next'[o] = res[o] + Cardinality(InFlight(o)')
    BY <1>1 DEF TicketsCounted
  <2>1. CASE o = s
    BY <2>1, <1>1, <1>2, <1>4, <1>5, InFlightFinite
  <2>2. CASE o # s
    BY <2>2, <1>2, <1>3, <1>0 DEF TicketsCounted
  <2> QED
    BY <2>1, <2>2
<1>7. next[s] - 1 \in Nat
  <2>1. Cardinality(InFlight(s)) # 0
    BY <1>1, InFlightFinite, FS_EmptySet
  <2> QED
    BY <1>1, <1>5, <2>1, InFlightFinite
<1>8. TypeOK'
  BY <1>0, <1>1, <1>7 DEF TypeOK, Undo, Goto
<1>9. Ahead'
  BY <1>0, <1>1, <1>2 DEF Ahead
<1>10. Missing'
  <2> SUFFICES ASSUME NEW b \in Actor, NEW c \in Actor, Doubled(b, c)'
               PROVE  \E h \in res[side[b]] .. ticket[b] - 1 : Unheld(side[b], h)'
    BY <1>1 DEF Missing
  <2>1. Doubled(b, c)
    BY <1>1, <1>2 DEF Doubled
  <2>2. PICK h \in res[side[b]] .. ticket[b] - 1 : Unheld(side[b], h)
    BY <1>0, <2>1 DEF Missing
  <2>3. Unheld(side[b], h)'
    BY <1>1, <1>2, <2>2 DEF Unheld, InFlight
  <2> QED
    BY <2>3
<1>11. Cached'
  BY <1>0, <1>1, <1>2 DEF Cached
<1>12. OwnSlot'
  BY <1>0, <1>1, <1>2 DEF OwnSlot, Granted
<1>13. Ordered'
  BY <1>0, <1>1 DEF Ordered
<1> QED
  BY <1>6, <1>8, <1>9, <1>10, <1>11, <1>12, <1>13 DEF TicketInv

(* A call whose turn it is publishes its ticket: no other call has it.     *)
LEMMA PublishStep ==
  ASSUME TicketInv, NEW a \in Actor, Publish(a)
  PROVE  TicketInv'
<1> DEFINE s == side[a]
<1>0. TypeOK /\ TicketsCounted /\ Ahead /\ Missing /\ Cached /\ OwnSlot /\ Ordered
  BY DEF TicketInv
<1>1. /\ s \in Side /\ a \in InFlight(s) /\ next[s] \in Nat /\ res[s] \in Nat
      /\ ticket[a] = res[s] /\ Granted(a)
      /\ next' = next /\ side' = side /\ ticket' = ticket /\ buf' = buf /\ seen' = seen
  BY <1>0 DEF TypeOK, InFlight, Publish, Granted
<1>2. /\ pc'[a] = "idle" /\ \A b \in Actor \ {a} : pc'[b] = pc[b]
      /\ res'[s] = res[s] + 1 /\ \A o \in Side \ {s} : res'[o] = res[o]
  BY <1>0, <1>1 DEF TypeOK, Publish, Goto
<1>3. /\ InFlight(s)' = InFlight(s) \ {a}
      /\ \A o \in Side \ {s} : InFlight(o)' = InFlight(o)
  BY <1>1, <1>2 DEF InFlight
<1>4. Cardinality(InFlight(s)') = Cardinality(InFlight(s)) - 1
  BY <1>1, <1>3, InFlightFinite, FS_RemoveElement
<1>5. TicketsCounted'
  <2> SUFFICES ASSUME NEW o \in Side
               PROVE  next[o] = res'[o] + Cardinality(InFlight(o)')
    BY <1>1 DEF TicketsCounted
  <2>1. CASE o = s
    BY <2>1, <1>0, <1>1, <1>2, <1>4, InFlightFinite DEF TicketsCounted
  <2>2. CASE o # s
    BY <2>2, <1>2, <1>3, <1>0 DEF TicketsCounted
  <2> QED
    BY <2>1, <2>2
<1>6. TypeOK'
  BY <1>0, <1>1 DEF TypeOK, Publish, Goto
<1>7. Ahead'
  <2> SUFFICES ASSUME NEW b \in Actor, pc'[b] # "idle"
               PROVE  ticket[b] >= res'[side[b]]
    BY <1>1 DEF Ahead
  <2>1. b # a /\ pc[b] # "idle" /\ side[b] \in Side /\ ticket[b] \in Nat
    BY <1>0, <1>2 DEF TypeOK
  <2>2. ticket[b] >= res[side[b]]
    BY <1>0, <2>1 DEF Ahead
  <2>3. CASE side[b] = s
    <3>1. ticket[b] # res[s]
      <4> SUFFICES ASSUME ticket[b] = res[s] PROVE FALSE
        OBVIOUS
      <4>1. Doubled(a, b)
        BY <1>1, <2>1, <2>3 DEF Doubled, InFlight
      <4>2. \E h \in res[s] .. res[s] - 1 : TRUE
        BY <1>0, <1>1, <4>1 DEF Missing
      <4> QED
        BY <4>2, <1>1
    <3> QED
      BY <1>1, <1>2, <2>1, <2>2, <2>3, <3>1
  <2>4. CASE side[b] # s
    BY <2>1, <2>2, <2>4, <1>2
  <2> QED
    BY <2>3, <2>4
<1>8. Missing'
  <2> SUFFICES ASSUME NEW b \in Actor, NEW c \in Actor, Doubled(b, c)'
               PROVE  \E h \in res'[side[b]] .. ticket[b] - 1 : Unheld(side[b], h)'
    BY <1>1 DEF Missing
  <2>1. Doubled(b, c) /\ side[b] \in Side /\ ticket[b] \in Nat
    BY <1>0, <1>1, <1>2 DEF Doubled, TypeOK
  <2>2. PICK h \in res[side[b]] .. ticket[b] - 1 : Unheld(side[b], h)
    BY <1>0, <2>1 DEF Missing
  <2>3. Unheld(side[b], h)'
    BY <1>1, <1>2, <2>2 DEF Unheld, InFlight
  <2>4. h \in res'[side[b]] .. ticket[b] - 1
    <3>1. CASE side[b] = s
      <4>1. h # res[s]
        BY <1>1, <2>2, <3>1 DEF Unheld
      <4> QED
        BY <1>1, <1>2, <2>1, <2>2, <3>1, <4>1
    <3>2. CASE side[b] # s
      BY <1>2, <2>1, <2>2, <3>2
    <3> QED
      BY <3>1, <3>2
  <2> QED
    BY <2>3, <2>4
<1>9. \A o \in Side : res[o] \in Nat /\ res'[o] \in Nat /\ res[o] <= res'[o]
  <2> SUFFICES ASSUME NEW o \in Side
               PROVE  res[o] \in Nat /\ res'[o] \in Nat /\ res[o] <= res'[o]
    OBVIOUS
  <2>1. res[o] \in Nat /\ res'[o] \in Nat
    BY <1>0, <1>6 DEF TypeOK
  <2>2. CASE o = s
    BY <1>2, <2>1, <2>2
  <2>3. CASE o # s
    BY <1>2, <2>1, <2>3
  <2> QED
    BY <2>1, <2>2, <2>3
<1>10. Cached'
  <2>1. \A o \in Side, r \in Rank : buf[o][r] \in Nat /\ Other(o) \in Side
    BY <1>0 DEF TypeOK, Side, Other
  <2>2. \A b \in Actor : seen[b] \in Nat /\ Other(side[b]) \in Side
    BY <1>0 DEF TypeOK, Side, Other
  <2>3. \A o \in Side, r \in Rank : buf[o][r] <= res'[Other(o)]
    BY <1>0, <1>9, <2>1 DEF Cached
  <2>4. \A b \in Actor : pc'[b] = "store" => seen[b] <= res'[Other(side[b])]
    BY <1>0, <1>2, <1>9, <2>2 DEF Cached
  <2> QED
    BY <1>1, <2>3, <2>4 DEF Cached, Other
<1>11. OwnSlot'
  <2> SUFFICES ASSUME NEW b \in Actor, Granted(b)' PROVE OwnsSlot(b)'
    BY DEF OwnSlot, OwnsSlot
  <2>1. Granted(b) /\ pc'[b] # "idle"
    BY <1>2 DEF Granted
  <2>2. OwnsSlot(b)
    BY <1>0, <2>1 DEF OwnSlot, OwnsSlot
  <2>3. ticket[b] >= res'[side[b]] /\ ticket[b] \in Nat /\ side[b] \in Side
    BY <1>0, <1>1, <1>7, <2>1 DEF Ahead, TypeOK
  <2>4. Capacity \in Nat
    BY QueueAssumption
  <2> QED
    BY <1>1, <1>9, <2>2, <2>3, <2>4 DEF OwnsSlot, Side
<1>12. Ordered'
  <2>1. OwnsSlot(a) /\ Capacity \in Nat
    BY <1>0, <1>1, QueueAssumption DEF OwnSlot, OwnsSlot
  <2> QED
    BY <1>0, <1>1, <1>2, <1>9, <2>1 DEF Ordered, OwnsSlot, Side
<1> QED
  BY <1>5, <1>6, <1>7, <1>8, <1>10, <1>11, <1>12 DEF TicketInv

(* A call starts. Its ticket may be one that another call holds; then, and *)
(* when it fills a hole below two calls with one ticket, the calls in      *)
(* progress are too few for all the tickets below.                         *)
LEMMA TakeStep ==
  ASSUME TicketInv, NEW a \in Actor, NEW s \in Side,
         NEW v \in Value \cup {NoValue}, Take(a, s, v)
  PROVE  TicketInv'
<1>0. TypeOK /\ TicketsCounted /\ Ahead /\ Missing /\ Cached /\ OwnSlot /\ Ordered
  BY DEF TicketInv
<1>1. /\ next[s] \in Nat /\ res[s] \in Nat /\ pc[a] = "idle" /\ a \notin InFlight(s)
      /\ res' = res /\ buf' = buf /\ seen' = seen
  BY <1>0 DEF TypeOK, InFlight, Take
<1>2. /\ pc'[a] = "test" /\ side'[a] = s /\ ticket'[a] = next[s]
      /\ \A b \in Actor \ {a} : pc'[b] = pc[b] /\ side'[b] = side[b] /\ ticket'[b] = ticket[b]
      /\ next'[s] = next[s] + 1 /\ \A o \in Side \ {s} : next'[o] = next[o]
  BY <1>0, <1>1 DEF TypeOK, Take, Goto
<1>3. /\ InFlight(s)' = InFlight(s) \cup {a}
      /\ \A o \in Side \ {s} : InFlight(o)' = InFlight(o)
  BY <1>1, <1>2 DEF InFlight
<1>4. Cardinality(InFlight(s)') = Cardinality(InFlight(s)) + 1
  BY <1>1, <1>3, InFlightFinite, FS_AddElement, ZenonT(30)
<1>5. next[s] = res[s] + Cardinality(InFlight(s)) /\ next[s] >= res[s]
  BY <1>0, <1>1, InFlightFinite DEF TicketsCounted
<1>6. TicketsCounted'
  <2> SUFFICES ASSUME NEW o \in Side
               PROVE  next'[o] = res[o] + Cardinality(InFlight(o)')
    BY <1>1 DEF TicketsCounted
  <2>1. CASE o = s
    BY <2>1, <1>1, <1>2, <1>4, <1>5, InFlightFinite
  <2>2. CASE o # s
    BY <2>2, <1>2, <1>3, <1>0 DEF TicketsCounted
  <2> QED
    BY <2>1, <2>2
<1>7. TypeOK'
  <2>1. calls[a] + 1 \in 0 .. MaxCalls
    BY <1>0, QueueAssumption, SMTT(30) DEF TypeOK, Take
  <2> QED
    BY <1>0, <1>1, <2>1 DEF TypeOK, Take, Goto
<1>8. Ahead'
  BY <1>0, <1>1, <1>2, <1>5 DEF Ahead
<1>9. Missing'
  <2> DEFINE Free(o, h) == \A d \in Actor :
                             pc'[d] # "idle" /\ side'[d] = o => ticket'[d] # h
  <2> SUFFICES ASSUME NEW b \in Actor, NEW c \in Actor, Doubled(b, c)'
               PROVE  \E h \in res[side'[b]] .. ticket'[b] - 1 : Free(side'[b], h)
    BY <1>1 DEF Missing, Unheld, InFlight
  (* an old call d of the side, with the new ticket or a later one         *)
  <2>1. ASSUME NEW d \in InFlight(s), ticket[d] >= next[s]
        PROVE  \E h \in res[s] .. next[s] - 1 : Free(s, h)
    <3>1. PICK h \in res[s] .. next[s] - 1 : Unheld(s, h)
      BY <1>0, <2>1, HoleBelow DEF InFlight
    <3>2. ticket'[a] # h
      BY <1>1, <1>2
    <3>3. Free(s, h)
      BY <1>1, <1>2, <3>1, <3>2 DEF Unheld, InFlight
    <3> QED
      BY <3>3
  <2>2. CASE b = a
    <3>1. c \in InFlight(s) /\ ticket[c] = next[s]
      BY <1>2, <2>2 DEF Doubled, InFlight
    <3> QED
      BY <2>1, <2>2, <3>1, <1>1, <1>2
  <2>3. CASE c = a
    <3>1. b \in InFlight(s) /\ ticket[b] = next[s] /\ side'[b] = s /\ ticket'[b] = next[s]
      BY <1>2, <2>3 DEF Doubled, InFlight
    <3> QED
      BY <2>1, <3>1, <1>1
  <2>4. CASE b # a /\ c # a
    <3>1. Doubled(b, c) /\ ticket[b] \in Nat /\ side[b] \in Side
      BY <1>0, <1>2, <2>4 DEF Doubled, TypeOK
    <3>2. PICK h \in res[side[b]] .. ticket[b] - 1 : Unheld(side[b], h)
      BY <1>0, <3>1 DEF Missing
    <3>3. CASE side[b] # s
      BY <1>2, <2>4, <3>1, <3>2, <3>3 DEF Unheld, InFlight
    <3>4. CASE side[b] = s /\ h # next[s]
      <4>1. Free(s, h)
        BY <1>1, <1>2, <3>2, <3>4 DEF Unheld, InFlight
      <4> QED
        BY <1>2, <2>4, <3>2, <3>4, <4>1
    <3>5. CASE side[b] = s /\ h = next[s]
      <4>1. b \in InFlight(s) /\ ticket[b] > next[s]
        BY <1>1, <3>1, <3>2, <3>5 DEF Doubled, InFlight
      <4>2. PICK i \in res[s] .. next[s] - 1 : Free(s, i)
        BY <2>1, <3>1, <4>1, <1>1
      <4>3. i \in res[s] .. ticket[b] - 1
        BY <1>1, <3>1, <4>1, <4>2
      <4> QED
        BY <1>2, <2>4, <3>5, <4>2, <4>3
    <3> QED
      BY <3>3, <3>4, <3>5
  <2> QED
    BY <2>2, <2>3, <2>4
<1>10. Cached'
  <2>1. \A b \in Actor : pc'[b] = "store" => seen[b] <= res[Other(side'[b])]
    BY <1>0, <1>2 DEF Cached
  <2> QED
    BY <1>0, <1>1, <2>1 DEF Cached, Other
<1>11. OwnSlot'
  BY <1>0, <1>1, <1>2 DEF OwnSlot, Granted
<1>12. Ordered'
  BY <1>0, <1>1 DEF Ordered
<1> QED
  BY <1>6, <1>7, <1>8, <1>9, <1>10, <1>11, <1>12 DEF TicketInv

(* The invariant of the tickets holds at first.                            *)
LEMMA InitTickets ==
  ASSUME Init PROVE TicketInv
<1>1. \A s \in Side : InFlight(s) = {}
  BY DEF Init, InFlight
<1>2. TypeOK
  BY QueueAssumption DEF Init, TypeOK, Side
<1>3. TicketsCounted
  <2>1. Cardinality({}) = 0
    BY FS_EmptySet
  <2>2. res = next /\ \A s \in Side : next[s] \in Nat
    BY <1>2 DEF Init, TypeOK
  <2> QED
    BY <1>1, <2>1, <2>2 DEF TicketsCounted
<1>4. Ahead /\ Missing /\ OwnSlot
  BY DEF Init, Ahead, Missing, Doubled, OwnSlot, Granted
<1>5. Cached
  BY <1>2 DEF Init, Cached, TypeOK, Other, Side
<1>6. Ordered
  BY QueueAssumption DEF Init, Ordered, Side
<1> QED
  BY <1>2, <1>3, <1>4, <1>5, <1>6 DEF TicketInv

(* Every step keeps the invariant of the tickets.                          *)
LEMMA NextTickets ==
  ASSUME TicketInv, [Next]_vars PROVE TicketInv'
<1>1. CASE UNCHANGED vars
  <2> USE <1>1 DEF vars
  <2>1. TypeOK'
    BY DEF TicketInv, TypeOK
  <2>2. TicketsCounted' /\ Ahead' /\ Missing' /\ Ordered'
    BY InnerStep
  <2>3. Cached' /\ OwnSlot'
    BY DEF TicketInv, Cached, OwnSlot, Granted, Other
  <2> QED
    BY <2>1, <2>2, <2>3 DEF TicketInv
<1>2. ASSUME NEW a \in Actor, Step(a) PROVE TicketInv'
  <2>1. CASE CallPush(a)
    BY <2>1, TakeStep, QueueAssumption DEF CallPush, Side
  <2>2. CASE CallPop(a)
    BY <2>2, TakeStep DEF CallPop, Side
  <2>3. CASE Undo(a)
    BY <2>3, UndoStep
  <2>4. CASE Publish(a)
    BY <2>4, PublishStep
  <2> QED
    BY <1>2, <2>1, <2>2, <2>3, <2>4, LocalStep DEF Step, Advance
<1> QED
  BY <1>1, <1>2 DEF Next

-----------------------------------------------------------------------------
(* The counters of the queue are exact: tail is ahead of reserved_tail,    *)
(* and head of reserved_head, by the calls in progress; and a push never   *)
(* writes where an element waits, nor a pop reads where none is.           *)
THEOREM TicketsExact == Spec => [](TypeOK /\ TicketsCounted /\ OwnSlot)
<1>1. Init => TicketInv
  BY InitTickets
<1>2. TicketInv /\ [Next]_vars => TicketInv'
  BY NextTickets
<1>3. TicketInv => TypeOK /\ TicketsCounted /\ OwnSlot
  BY DEF TicketInv
<1> QED
  BY <1>1, <1>2, <1>3, PTL DEF Spec

(* In particular the four counters and every rank's two copies of them keep *)
(* their types: no counter that a failed call lowers becomes negative.     *)
THEOREM QueueTypes == Spec => []TypeOK
BY TicketsExact, PTL

(* And what a size taken from tail and head is wrong by, or a push or a    *)
(* pop waits for, are calls in progress and nothing else.                  *)
THEOREM CountersExact == Spec => []TicketsCounted
BY TicketsExact, PTL

(* A granted call below which a ticket was given back never returns: its   *)
(* compare-and-swap loop does not end whatever the other threads do.       *)
THEOREM StrandedStays == Spec => StrandedForever
<1> DEFINE Stays == \A a \in Actor : Stranded(a) => Stranded(a)'
<1>1. TicketInv /\ [Next]_vars => [Stays]_vars
  <2> SUFFICES ASSUME TicketInv, Next, NEW a \in Actor, Stranded(a)
               PROVE  Stranded(a)'
    OBVIOUS
  <2>1. PICK c \in Actor : Step(c)
    BY DEF Next
  <2>2. TypeOK /\ TicketsCounted /\ side[a] \in Side /\ a \in InFlight(side[a])
    BY DEF TicketInv, TypeOK, Stranded, Granted, InFlight
  <2>3. next[side[a]] > res[side[a]]
    <3>1. Cardinality(InFlight(side[a])) # 0
      BY <2>2, InFlightFinite, FS_EmptySet
    <3> QED
      BY <2>2, <3>1, InFlightFinite DEF TicketsCounted, TypeOK
  <2>4. ASSUME NEW s \in Side, NEW v, Take(c, s, v) PROVE Stranded(a)'
    <3>1. /\ c # a /\ pc[c] = "idle" /\ res' = res
          /\ side'[a] = side[a] /\ pc'[a] = pc[a]
      BY <2>2, <2>4 DEF Take, Goto, InFlight, TypeOK
    <3>2. \A b \in Actor \ {c} :
            pc'[b] = pc[b] /\ side'[b] = side[b] /\ ticket'[b] = ticket[b]
      BY <2>2, <2>4 DEF Take, Goto, TypeOK
    <3>3. side'[c] = s /\ ticket'[c] = next[s]
      BY <2>2, <2>4 DEF Take, TypeOK
    <3>4. ASSUME NEW b \in Actor, pc'[b] # "idle", side'[b] = side[a]
          PROVE  ticket'[b] # res[side[a]]
      <4>1. CASE b = c
        BY <2>2, <2>3, <3>3, <3>4, <4>1 DEF TypeOK
      <4>2. CASE b # c
        BY <3>2, <3>4, <4>2 DEF Stranded, InFlight
      <4> QED
        BY <4>1, <4>2
    <3> QED
      BY <3>1, <3>4 DEF Stranded, Granted, InFlight
  <2>5. CASE Undo(c)
    BY <2>2, <2>5 DEF Undo, Goto, Stranded, Granted, InFlight, TypeOK
  <2>6. CASE Publish(c)
    BY <2>2, <2>6 DEF Publish, Goto, Stranded, Granted, InFlight, TypeOK
  <2>7. CASE Test(c) \/ Refresh(c) \/ StoreBuf(c) \/ Retest(c) \/ WriteSlot(c) \/ ReadSlot(c)
    BY <2>2, <2>7 DEF Test, Refresh, StoreBuf, Retest, WriteSlot, ReadSlot,
                      Goto, Stranded, Granted, InFlight, TypeOK
  <2> QED
    BY <2>1, <2>4, <2>5, <2>6, <2>7 DEF Step, Advance, CallPush, CallPop, Side
<1> QED
  BY <1>1, InitTickets, NextTickets, PTL DEF Spec, StrandedForever

-----------------------------------------------------------------------------
(* What is in the slots: on top of TicketInv, which calls hold which       *)
(* elements.                                                               *)

(* A push in progress carries an element.                                  *)
Carries == \A a \in Actor : pc[a] # "idle" /\ side[a] = "push" => val[a] \in Value

(* The element of a push that waits to publish is in its slot, unless      *)
(* another granted push has the same ticket: then neither will publish.    *)
Written ==
  \A a \in Actor : pc[a] = "publish" /\ side[a] = "push" =>
    \/ data[Slot(ticket[a])] = val[a]
    \/ \E b \in Actor : Doubled(a, b) /\ Granted(b)

(* What a pop read is still in its slot when it publishes.                 *)
ReadOut ==
  \A a \in Actor : pc[a] = "publish" /\ side[a] = "pop" =>
    val[a] = data[Slot(ticket[a])]

(* The slots of published tickets hold elements.                           *)
Live == \A t \in res["pop"] .. res["push"] - 1 : data[Slot(t)] \in Value

FifoInv == TicketInv /\ Carries /\ Written /\ ReadOut /\ Live

-----------------------------------------------------------------------------
(* Tickets less than Capacity apart have different slots.                  *)
LEMMA SameSlot ==
  ASSUME NEW t \in Nat, NEW u \in Nat, Slot(t) = Slot(u),
         t - u < Capacity, u - t < Capacity
  PROVE  t = u
<1> DEFINE C == Capacity
           k == (t \div C) - (u \div C)
<1>0. C \in Nat \ {0}
  BY QueueAssumption
<1>1. t = C * (t \div C) + (t % C) /\ t \div C \in Nat /\ t % C \in 0 .. C - 1
  BY <1>0
<1>2. u = C * (u \div C) + (u % C) /\ u \div C \in Nat /\ u % C \in 0 .. C - 1
  BY <1>0
<1>3. k \in Int
  BY <1>1, <1>2
<1>4. t - u = C * k
  <2>1. C * k = C * (t \div C) - C * (u \div C)
    BY <1>0, <1>1, <1>2
  <2>2. C * (t \div C) \in Nat /\ C * (u \div C) \in Nat
    BY <1>0, <1>1, <1>2
  <2> QED
    BY <1>1, <1>2, <2>1, <2>2 DEF Slot
<1>5. CASE k >= 1
  <2>1. C * k >= C
    BY <1>0, <1>3, <1>5
  <2> QED
    BY <1>0, <1>4, <2>1
<1>6. CASE k <= -1
  <2>1. C * k <= -C
    BY <1>0, <1>3, <1>6
  <2> QED
    BY <1>0, <1>4, <2>1
<1>7. CASE k = 0
  BY <1>0, <1>4, <1>7
<1> QED
  BY <1>3, <1>5, <1>6, <1>7

(* Tickets below the capacity are their own slots.                         *)
LEMMA SmallSlot == \A t \in 0 .. Capacity - 1 : Slot(t) = t
  BY QueueAssumption DEF Slot

(* The elements, as a sequence.                                            *)
LEMMA SlotSeq ==
  ASSUME NEW d, NEW n \in Nat, NEW p \in Nat, NEW s,
         \A i \in 1 .. n : d[Slot(p + i - 1)] \in Value,
         s = [i \in 1 .. n |-> d[Slot(p + i - 1)]]
  PROVE  /\ s \in Seq(Value) /\ Len(s) = n
         /\ \A i \in 1 .. n : s[i] = d[Slot(p + i - 1)]
<1>1. s \in [1 .. n -> Value]
  OBVIOUS
<1>2. s \in Seq(Value)
  BY <1>1, SeqDef
<1>3. Len(s) = n
  BY <1>1, <1>2, LenProperties
<1> QED
  BY <1>2, <1>3

(* The published elements, in the order of their tickets.                  *)
LEMMA ContentsSeq ==
  ASSUME TicketInv, Live
  PROVE  /\ Contents \in Seq(Value)
         /\ Len(Contents) = res["push"] - res["pop"]
         /\ \A i \in 1 .. Len(Contents) : Contents[i] = data[Slot(res["pop"] + i - 1)]
<1>1. res["push"] - res["pop"] \in Nat /\ res["pop"] \in Nat /\ res["push"] \in Nat
  BY DEF TicketInv, TypeOK, Ordered, Side
<1>2. \A i \in 1 .. res["push"] - res["pop"] : data[Slot(res["pop"] + i - 1)] \in Value
  BY <1>1 DEF Live
<1> QED
  BY <1>1, <1>2, SlotSeq DEF Contents

(* The same after a step.                                                  *)
LEMMA ContentsSeqNext ==
  ASSUME TicketInv', Live'
  PROVE  /\ Contents' \in Seq(Value)
         /\ Len(Contents') = res'["push"] - res'["pop"]
         /\ \A i \in 1 .. Len(Contents') : Contents'[i] = data'[Slot(res'["pop"] + i - 1)]
<1>1. res'["push"] - res'["pop"] \in Nat /\ res'["pop"] \in Nat /\ res'["push"] \in Nat
  BY DEF TicketInv, TypeOK, Ordered, Side
<1>2. \A i \in 1 .. res'["push"] - res'["pop"] : data'[Slot(res'["pop"] + i - 1)] \in Value
  BY <1>1 DEF Live, Slot
<1>3. Contents' = [i \in 1 .. res'["push"] - res'["pop"] |-> data'[Slot(res'["pop"] + i - 1)]]
  BY DEF Contents, Slot
<1> QED
  BY <1>1, <1>2, <1>3, SlotSeq

(* A slot about to be written is not the slot of a published ticket.       *)
LEMMA WriteElsewhere ==
  ASSUME TicketInv, NEW a \in Actor, WriteSlot(a),
         NEW t \in res["pop"] .. res["push"] - 1
  PROVE  Slot(t) # Slot(ticket[a]) /\ data'[Slot(t)] = data[Slot(t)]
<1>1. /\ ticket[a] \in res["push"] .. res["pop"] + Capacity - 1
      /\ res["pop"] \in Nat /\ res["push"] \in Nat /\ Capacity \in Nat \ {0}
  BY QueueAssumption DEF TicketInv, TypeOK, OwnSlot, Granted, WriteSlot, Side
<1>2. Slot(t) # Slot(ticket[a])
  BY <1>1, SameSlot
<1>3. Slot(t) \in 0 .. Capacity - 1
  BY <1>1 DEF Slot
<1> QED
  BY <1>2, <1>3 DEF WriteSlot, TicketInv, TypeOK

(* A push whose turn it is has its element in its slot.                    *)
LEMMA TurnWritten ==
  ASSUME FifoInv, NEW a \in Actor, Publish(a), side[a] = "push"
  PROVE  data[Slot(ticket[a])] = val[a]
<1> SUFFICES ASSUME NEW b \in Actor, Doubled(a, b) PROVE FALSE
  BY DEF FifoInv, Written, Publish
<1>1. \E h \in res[side[a]] .. res[side[a]] - 1 : TRUE
  BY DEF FifoInv, TicketInv, Missing, Publish
<1> QED
  BY <1>1 DEF FifoInv, TicketInv, TypeOK

-----------------------------------------------------------------------------
(* The invariant of the elements holds at first.                           *)
LEMMA InitFifo ==
  ASSUME Init PROVE FifoInv
<1>1. TicketInv
  BY InitTickets
<1>2. Carries /\ Written /\ ReadOut
  BY DEF Init, Carries, Written, ReadOut
<1>3. Live
  <2> SUFFICES ASSUME NEW t \in 0 .. Len(Filled) - 1
               PROVE  data[Slot(t)] \in Value
    BY QueueAssumption DEF Init, Live, Side
  <2>1. Slot(t) = t /\ t \in 0 .. Capacity - 1 /\ t + 1 \in 1 .. Len(Filled)
    BY QueueAssumption, SmallSlot
  <2>2. Filled[t + 1] \in Value
    BY <2>1, QueueAssumption
  <2> QED
    BY <2>1, <2>2 DEF Init
<1> QED
  BY <1>1, <1>2, <1>3 DEF FifoInv

(* Every step but the write of a slot and the publication: the slots and   *)
(* the published tickets stay.                                             *)
LEMMA FifoQuiet ==
  ASSUME FifoInv, TicketInv', NEW a \in Actor,
         Test(a) \/ Refresh(a) \/ StoreBuf(a) \/ Retest(a) \/ Undo(a) \/ ReadSlot(a)
  PROVE  FifoInv'
<1>0. TypeOK /\ Carries /\ Written /\ ReadOut /\ Live
  BY DEF FifoInv, TicketInv
<1>1. /\ data' = data /\ res' = res /\ side' = side /\ ticket' = ticket
      /\ \A b \in Actor \ {a} : pc'[b] = pc[b] /\ val'[b] = val[b]
      /\ pc[a] # "idle" /\ ~(pc[a] = "publish")
  BY <1>0 DEF Test, Refresh, StoreBuf, Retest, Undo, ReadSlot, Goto, TypeOK
<1>2. /\ pc'[a] = "publish" => side[a] = "pop" /\ val'[a] = data[Slot(ticket[a])]
      /\ pc'[a] # "idle" /\ side[a] = "push" => val'[a] = val[a]
      /\ Granted(a) => pc'[a] = "publish"
  BY <1>0 DEF Test, Refresh, StoreBuf, Retest, Undo, ReadSlot, Goto, TypeOK, Granted
<1>3. Carries'
  BY <1>0, <1>1, <1>2 DEF Carries
<1>4. Written'
  <2> SUFFICES ASSUME NEW b \in Actor, pc'[b] = "publish", side[b] = "push"
               PROVE  \/ data[Slot(ticket[b])] = val'[b]
                      \/ \E c \in Actor : Doubled(b, c)' /\ Granted(c)'
    BY <1>1 DEF Written
  <2>1. b # a /\ pc[b] = "publish" /\ val'[b] = val[b]
    BY <1>1, <1>2
  <2>2. ASSUME NEW c \in Actor, Doubled(b, c), Granted(c)
        PROVE  Doubled(b, c)' /\ Granted(c)'
    BY <1>1, <1>2, <2>1, <2>2 DEF Doubled, Granted
  <2> QED
    BY <1>0, <2>1, <2>2 DEF Written
<1>5. ReadOut'
  BY <1>0, <1>1, <1>2 DEF ReadOut
<1>6. Live'
  BY <1>0, <1>1 DEF Live
<1> QED
  BY <1>3, <1>4, <1>5, <1>6 DEF FifoInv

(* A new call finds the elements in their slots.                           *)
LEMMA FifoTake ==
  ASSUME FifoInv, TicketInv', NEW a \in Actor, NEW s \in Side, NEW v,
         s = "push" => v \in Value, Take(a, s, v)
  PROVE  FifoInv'
<1>0. TypeOK /\ Carries /\ Written /\ ReadOut /\ Live
  BY DEF FifoInv, TicketInv
<1>1. /\ data' = data /\ res' = res /\ pc[a] = "idle" /\ pc'[a] = "test"
      /\ side'[a] = s /\ val'[a] = v
      /\ \A b \in Actor \ {a} : /\ pc'[b] = pc[b] /\ val'[b] = val[b]
                                /\ side'[b] = side[b] /\ ticket'[b] = ticket[b]
  BY <1>0 DEF Take, Goto, TypeOK
<1>2. Carries'
  BY <1>0, <1>1 DEF Carries
<1>3. Written'
  <2> SUFFICES ASSUME NEW b \in Actor, pc'[b] = "publish", side'[b] = "push"
               PROVE  \/ data[Slot(ticket'[b])] = val'[b]
                      \/ \E c \in Actor : Doubled(b, c)' /\ Granted(c)'
    BY <1>1 DEF Written, Slot
  <2>1. b # a
    BY <1>1
  <2>2. ASSUME NEW c \in Actor, Doubled(b, c), Granted(c)
        PROVE  Doubled(b, c)' /\ Granted(c)'
    BY <1>1, <2>1, <2>2 DEF Doubled, Granted
  <2> QED
    BY <1>0, <1>1, <2>1, <2>2 DEF Written
<1>4. ReadOut'
  BY <1>0, <1>1 DEF ReadOut, Slot
<1>5. Live'
  BY <1>0, <1>1 DEF Live, Slot
<1> QED
  BY <1>2, <1>3, <1>4, <1>5 DEF FifoInv

(* A write takes the slot of no published ticket; where another granted    *)
(* push waits, the two have the same ticket.                               *)
LEMMA FifoWrite ==
  ASSUME FifoInv, TicketInv', NEW a \in Actor, WriteSlot(a)
  PROVE  FifoInv'
<1>0. TicketInv /\ TypeOK /\ OwnSlot /\ Carries /\ Written /\ ReadOut /\ Live
  BY DEF FifoInv, TicketInv
<1>1. /\ res' = res /\ side' = side /\ ticket' = ticket /\ val' = val
      /\ \A b \in Actor \ {a} : pc'[b] = pc[b]
      /\ pc[a] = "access" /\ side[a] = "push" /\ pc'[a] = "publish" /\ Granted(a)
  BY <1>0 DEF WriteSlot, Goto, TypeOK, Granted
<1>2. /\ Slot(ticket[a]) \in 0 .. Capacity - 1 /\ Capacity \in Nat \ {0}
      /\ ticket[a] \in Nat /\ res["push"] \in Nat /\ res["pop"] \in Nat
  BY <1>0, QueueAssumption DEF Slot, TypeOK, Side
<1>3. /\ data'[Slot(ticket[a])] = val[a]
      /\ \A i \in 0 .. Capacity - 1 : i # Slot(ticket[a]) => data'[i] = data[i]
  BY <1>0, <1>2 DEF WriteSlot, TypeOK
<1>4. Carries'
  BY <1>0, <1>1 DEF Carries
<1>5. Written'
  <2> SUFFICES ASSUME NEW b \in Actor, pc'[b] = "publish", side[b] = "push"
               PROVE  \/ data'[Slot(ticket[b])] = val[b]
                      \/ \E c \in Actor : Doubled(b, c)' /\ Granted(c)'
    BY <1>1 DEF Written, Slot
  <2>1. CASE b = a
    BY <1>3, <2>1
  <2>2. CASE b # a /\ Slot(ticket[b]) = Slot(ticket[a])
    <3>1. pc[b] = "publish" /\ Granted(b) /\ ticket[b] \in Nat
      BY <1>0, <1>1, <2>2 DEF Granted, TypeOK
    <3>2. /\ ticket[a] \in res["push"] .. res["pop"] + Capacity - 1
          /\ ticket[b] \in res["push"] .. res["pop"] + Capacity - 1
      BY <1>0, <1>1, <3>1 DEF OwnSlot
    <3>3. ticket[b] - ticket[a] < Capacity /\ ticket[a] - ticket[b] < Capacity
      <4>1. res["pop"] <= res["push"]
        BY <1>0 DEF TicketInv, Ordered
      <4> QED
        BY <1>2, <3>1, <3>2, <4>1
    <3>4. ticket[b] = ticket[a]
      BY <1>2, <2>2, <3>1, <3>3, SameSlot
    <3>5. Doubled(b, a)' /\ Granted(a)'
      BY <1>1, <2>2, <3>1, <3>4 DEF Doubled, Granted
    <3> QED
      BY <3>5
  <2>3. CASE b # a /\ Slot(ticket[b]) # Slot(ticket[a])
    <3>1. pc[b] = "publish" /\ Slot(ticket[b]) \in 0 .. Capacity - 1
      BY <1>0, <1>1, <1>2, <2>3, SMTT(30) DEF Slot, TypeOK
    <3>2. ASSUME NEW c \in Actor, Doubled(b, c), Granted(c)
          PROVE  Doubled(b, c)' /\ Granted(c)'
      BY <1>1, <2>3, <3>2 DEF Doubled, Granted
    <3> QED
      BY <1>0, <1>3, <2>3, <3>1, <3>2 DEF Written
  <2> QED
    BY <2>1, <2>2, <2>3
<1>6. ReadOut'
  <2> SUFFICES ASSUME NEW b \in Actor, pc'[b] = "publish", side[b] = "pop"
               PROVE  val[b] = data'[Slot(ticket[b])]
    BY <1>1 DEF ReadOut, Slot
  <2>1. pc[b] = "publish" /\ Granted(b)
    BY <1>1 DEF Granted
  <2>2. ticket[b] \in res["pop"] .. res["push"] - 1
    BY <1>0, <2>1 DEF OwnSlot
  <2> QED
    BY <1>0, <2>1, <2>2, WriteElsewhere DEF ReadOut
<1>7. Live'
  <2> SUFFICES ASSUME NEW t \in res["pop"] .. res["push"] - 1
               PROVE  data'[Slot(t)] \in Value
    BY <1>1 DEF Live, Slot
  <2> QED
    BY <1>0, WriteElsewhere DEF Live
<1> QED
  BY <1>4, <1>5, <1>6, <1>7 DEF FifoInv

(* A published ticket adds its element at the end, or takes the first.     *)
LEMMA FifoPublish ==
  ASSUME FifoInv, TicketInv', NEW a \in Actor, Publish(a)
  PROVE  FifoInv'
<1>0. TicketInv /\ TypeOK /\ Carries /\ Written /\ ReadOut /\ Live
  BY DEF FifoInv, TicketInv
<1>1. /\ data' = data /\ side' = side /\ ticket' = ticket /\ val' = val
      /\ \A b \in Actor \ {a} : pc'[b] = pc[b]
      /\ pc[a] = "publish" /\ pc'[a] = "idle" /\ ticket[a] = res[side[a]]
      /\ side[a] \in Side
  BY <1>0 DEF Publish, Goto, TypeOK
<1>2. Carries'
  BY <1>0, <1>1 DEF Carries
<1>3. Written'
  <2> SUFFICES ASSUME NEW b \in Actor, pc'[b] = "publish", side[b] = "push"
               PROVE  \/ data[Slot(ticket[b])] = val[b]
                      \/ \E c \in Actor : Doubled(b, c)' /\ Granted(c)'
    BY <1>1 DEF Written, Slot
  <2>1. b # a /\ pc[b] = "publish"
    BY <1>1
  <2>2. ASSUME NEW c \in Actor, Doubled(b, c), Granted(c)
        PROVE  Doubled(b, c)' /\ Granted(c)'
    <3>1. c # a
      <4> SUFFICES ASSUME c = a PROVE FALSE
        OBVIOUS
      <4>1. Doubled(a, b) /\ res[side[a]] \in Nat
        BY <1>0, <1>1, <2>2 DEF Doubled, TypeOK
      <4>2. \E h \in res[side[a]] .. res[side[a]] - 1 : TRUE
        BY <1>0, <1>1, <4>1 DEF TicketInv, Missing
      <4> QED
        BY <4>1, <4>2
    <3> QED
      BY <1>1, <2>1, <2>2, <3>1 DEF Doubled, Granted
  <2> QED
    BY <1>0, <2>1, <2>2 DEF Written
<1>4. ReadOut'
  BY <1>0, <1>1 DEF ReadOut, Slot
<1>5. Live'
  <2>1. /\ res["push"] \in Nat /\ res["pop"] \in Nat
        /\ res'["push"] \in Nat /\ res'["pop"] \in Nat
    BY <1>0 DEF FifoInv, TicketInv, TypeOK, Side
  <2>2. CASE side[a] = "push"
    <3>1. res'["push"] = res["push"] + 1 /\ res'["pop"] = res["pop"]
      BY <1>0, <1>1, <2>2 DEF Publish, TypeOK, Side
    <3>2. data[Slot(res["push"])] \in Value
      BY <1>0, <1>1, <2>2, TurnWritten DEF Carries
    <3> QED
      BY <1>0, <1>1, <2>1, <3>1, <3>2 DEF Live, Slot
  <2>3. CASE side[a] = "pop"
    <3>1. res'["pop"] = res["pop"] + 1 /\ res'["push"] = res["push"]
      BY <1>0, <1>1, <2>3 DEF Publish, TypeOK, Side
    <3> QED
      BY <1>0, <1>1, <2>1, <3>1 DEF Live, Slot
  <2> QED
    BY <1>1, <2>2, <2>3 DEF Side
<1> QED
  BY <1>2, <1>3, <1>4, <1>5 DEF FifoInv

(* Every step keeps the invariant of the elements.                         *)
LEMMA NextFifo ==
  ASSUME FifoInv, [Next]_vars PROVE FifoInv'
<1>1. TicketInv'
  BY NextTickets DEF FifoInv
<1>2. CASE UNCHANGED vars
  BY <1>1, <1>2 DEF vars, FifoInv, Carries, Written, ReadOut, Live, Doubled, Granted, Slot
<1>3. ASSUME NEW a \in Actor, Step(a) PROVE FifoInv'
  <2>1. CASE CallPush(a)
    BY <1>1, <2>1, FifoTake, QueueAssumption DEF CallPush, Side
  <2>2. CASE CallPop(a)
    BY <1>1, <2>2, FifoTake DEF CallPop, Side
  <2> QED
    BY <1>1, <1>3, <2>1, <2>2, FifoQuiet, FifoWrite, FifoPublish DEF Step, Advance
<1> QED
  BY <1>2, <1>3 DEF Next

-----------------------------------------------------------------------------
(* The elements at first are those of the bounded queue.                   *)
LEMMA InitMaps ==
  ASSUME Init PROVE BQ!QInit
<1>1. FifoInv /\ TicketInv /\ Live
  BY InitFifo DEF FifoInv
<1>2. /\ Contents \in Seq(Value) /\ Len(Contents) = res["push"] - res["pop"]
      /\ \A i \in 1 .. Len(Contents) : Contents[i] = data[Slot(res["pop"] + i - 1)]
  BY <1>1, ContentsSeq
<1>3. res["push"] = Len(Filled) /\ res["pop"] = 0 /\ Len(Filled) \in Nat
  BY QueueAssumption DEF Init, Side
<1>4. ASSUME NEW i \in 1 .. Len(Filled) PROVE Contents[i] = Filled[i]
  <2>1. i - 1 \in 0 .. Capacity - 1 /\ i - 1 < Len(Filled) /\ res["pop"] + i - 1 = i - 1
    BY QueueAssumption, <1>3
  <2>2. Slot(i - 1) = i - 1
    BY <2>1, SmallSlot
  <2>3. data[i - 1] = Filled[i]
    BY <2>1 DEF Init
  <2> QED
    BY <1>2, <1>3, <2>1, <2>2, <2>3
<1>5. Contents = Filled
  <2>1. Len(Contents) = Len(Filled) /\ Filled \in Seq(Value)
    BY <1>2, <1>3, QueueAssumption
  <2> QED
    BY <1>2, <1>4, <2>1, SeqEqual
<1> QED
  BY <1>5 DEF Init, BQ!QInit, Doing, Held

(* A step that leaves the published tickets and their slots alone.         *)
LEMMA SameContents ==
  ASSUME TicketInv, res' = res,
         \A t \in res["pop"] .. res["push"] - 1 : data'[Slot(t)] = data[Slot(t)]
  PROVE  Contents' = Contents
<1>1. res["push"] \in Nat /\ res["pop"] \in Nat
  BY DEF TicketInv, TypeOK, Side
<1>2. \A i \in 1 .. res["push"] - res["pop"] :
        data'[Slot(res["pop"] + i - 1)] = data[Slot(res["pop"] + i - 1)]
  BY <1>1
<1> QED
  BY <1>2 DEF Contents, Slot

(* A call takes effect for its caller when it starts, ...                  *)
LEMMA TakeMaps ==
  ASSUME FifoInv, NEW a \in Actor, CallPush(a) \/ CallPop(a)
  PROVE  BQ!QNext
<1>0. TicketInv /\ TypeOK
  BY DEF FifoInv, TicketInv
<1>1. Contents' = Contents
  BY <1>0, SameContents DEF CallPush, CallPop, Take
<1>2. CASE CallPush(a)
  <2>1. PICK v \in Value : Take(a, "push", v)
    BY <1>2, QueueAssumption DEF CallPush
  <2>2. Doing' = [Doing EXCEPT ![a] = "push"] /\ Doing[a] = "none"
    BY <1>0, <2>1 DEF Take, Goto, Doing, TypeOK
  <2>3. Held' = [Held EXCEPT ![a] = v]
    BY <1>0, <2>1 DEF Take, Goto, Held, TypeOK
  <2> QED
    BY <1>1, <2>2, <2>3 DEF BQ!QNext, BQ!StartPush
<1>3. CASE CallPop(a)
  <2>1. Take(a, "pop", NoValue)
    BY <1>3 DEF CallPop
  <2>2. Doing' = [Doing EXCEPT ![a] = "pop"] /\ Doing[a] = "none"
    BY <1>0, <2>1 DEF Take, Goto, Doing, TypeOK
  <2>3. Held' = [Held EXCEPT ![a] = NoValue]
    BY <1>0, <2>1 DEF Take, Goto, Held, TypeOK
  <2> QED
    BY <1>1, <2>2, <2>3 DEF BQ!QNext, BQ!StartPop
<1> QED
  BY <1>2, <1>3

(* ... refuses, ...                                                        *)
LEMMA UndoMaps ==
  ASSUME FifoInv, NEW a \in Actor, Undo(a)
  PROVE  BQ!QNext
<1>0. TicketInv /\ TypeOK
  BY DEF FifoInv, TicketInv
<1>1. Contents' = Contents
  BY <1>0, SameContents DEF Undo
<1>2. Doing[a] # "none" /\ Doing' = [Doing EXCEPT ![a] = "none"]
  BY <1>0 DEF Undo, Goto, Doing, TypeOK, Side
<1>3. Held' = [Held EXCEPT ![a] = NoValue]
  BY <1>0 DEF Undo, Goto, Held, TypeOK
<1> QED
  BY <1>1, <1>2, <1>3 DEF BQ!QNext, BQ!Refuse

(* ... or publishes; ...                                                   *)
LEMMA PublishMaps ==
  ASSUME FifoInv, NEW a \in Actor, Publish(a)
  PROVE  BQ!QNext
<1>0. FifoInv' /\ TicketInv /\ TypeOK /\ OwnSlot /\ Carries /\ ReadOut /\ Live /\ TicketInv' /\ Live'
  BY NextFifo DEF FifoInv, TicketInv, Next, Step, Advance
<1>1. /\ Contents \in Seq(Value) /\ Len(Contents) = res["push"] - res["pop"]
      /\ \A i \in 1 .. Len(Contents) : Contents[i] = data[Slot(res["pop"] + i - 1)]
  BY <1>0, ContentsSeq
<1>2. /\ Contents' \in Seq(Value) /\ Len(Contents') = res'["push"] - res'["pop"]
      /\ \A i \in 1 .. Len(Contents') : Contents'[i] = data[Slot(res'["pop"] + i - 1)]
  <2>1. /\ Contents' \in Seq(Value) /\ Len(Contents') = res'["push"] - res'["pop"]
        /\ \A i \in 1 .. Len(Contents') : Contents'[i] = data'[Slot(res'["pop"] + i - 1)]
    BY <1>0, ContentsSeqNext
  <2> QED
    BY <2>1 DEF Publish
<1>3. Doing[a] = side[a] /\ Doing' = [Doing EXCEPT ![a] = "none"]
  BY <1>0 DEF Publish, Goto, Doing, TypeOK
<1>4. /\ res["push"] \in Nat /\ res["pop"] \in Nat /\ Capacity \in Nat
      /\ ticket[a] = res[side[a]] /\ Granted(a)
  BY <1>0, QueueAssumption DEF TypeOK, Side, Publish, Granted
<1>5. CASE side[a] = "push"
  <2>1. res'["push"] = res["push"] + 1 /\ res'["pop"] = res["pop"]
    BY <1>0, <1>4, <1>5 DEF Publish, TypeOK, Side
  <2>2. ticket[a] \in res["push"] .. res["pop"] + Capacity - 1
    BY <1>0, <1>4, <1>5 DEF OwnSlot
  <2>3. Len(Contents) < Capacity
    BY <1>1, <1>4, <2>2
  <2>4. data[Slot(res["push"])] = val[a] /\ val[a] \in Value /\ Held[a] = val[a]
    BY <1>0, <1>4, <1>5, TurnWritten DEF Carries, Publish, Held
  <2>5. Contents' = Append(Contents, Held[a])
    <3> DEFINE t == Append(Contents, Held[a])
    <3>1. /\ t \in Seq(Value) /\ Len(t) = Len(Contents) + 1
          /\ \A i \in 1 .. Len(Contents) : t[i] = Contents[i]
          /\ t[Len(Contents) + 1] = Held[a]
      BY <1>1, <2>4, AppendProperties
    <3>2. Len(Contents') = Len(t)
      BY <1>1, <1>2, <1>4, <2>1, <3>1
    <3>3. ASSUME NEW i \in 1 .. Len(Contents') PROVE Contents'[i] = t[i]
      <4>1. Contents'[i] = data[Slot(res["pop"] + i - 1)]
        BY <1>2, <2>1
      <4>2. CASE i <= Len(Contents)
        <5>1. i \in 1 .. Len(Contents)
          BY <1>1, <1>2, <1>4, <2>1, <4>2
        <5> QED
          BY <1>1, <3>1, <4>1, <5>1
      <4>3. CASE ~(i <= Len(Contents))
        <5>1. Len(Contents') = res["push"] + 1 - res["pop"] /\ Len(Contents) = res["push"] - res["pop"]
          <6>1. res'["push"] - res'["pop"] = res["push"] + 1 - res["pop"]
            BY <1>4, <2>1
          <6> QED
            BY <1>1, <1>2, <6>1, Zenon
        <5>2. i = res["push"] - res["pop"] + 1
          BY <1>4, <4>3, <5>1
        <5>3. i = Len(Contents) + 1 /\ res["pop"] + i - 1 = res["push"]
          BY <1>4, <5>1, <5>2
        <5> QED
          BY <2>4, <3>1, <4>1, <5>3
      <4> QED
        BY <4>2, <4>3
    <3> HIDE DEF t
    <3>4. Contents' = t
      BY <1>2, <3>1, <3>2, <3>3, SeqEqual
    <3> QED
      BY <3>4 DEF t
  <2>6. Held' = Held
    BY <1>0, <1>5 DEF Publish, Goto, Held, TypeOK
  <2> QED
    BY <1>3, <1>5, <2>3, <2>5, <2>6 DEF BQ!QNext, BQ!Push
<1>6. CASE side[a] = "pop"
  <2>1. res'["pop"] = res["pop"] + 1 /\ res'["push"] = res["push"]
    BY <1>0, <1>4, <1>6 DEF Publish, TypeOK, Side
  <2>2. ticket[a] \in res["pop"] .. res["push"] - 1
    BY <1>0, <1>4, <1>6 DEF OwnSlot
  <2>3. Len(Contents) >= 1 /\ Contents # <<>>
    BY <1>1, <1>4, <2>2, EmptySeq
  <2>4. Head(Contents) = val[a]
    <3>1. Contents[1] = data[Slot(res["pop"])]
      BY <1>1, <1>4, <2>3
    <3>2. val[a] = data[Slot(res["pop"])]
      BY <1>0, <1>4, <1>6 DEF ReadOut, Publish
    <3> QED
      BY <1>1, <2>3, <3>1, <3>2
  <2>5. Contents' = Tail(Contents)
    <3> DEFINE t == Tail(Contents)
    <3>1. /\ t \in Seq(Value) /\ Len(t) = Len(Contents) - 1
          /\ \A i \in 1 .. Len(t) : t[i] = Contents[i + 1]
      BY <1>1, <2>3, HeadTailProperties
    <3>2. Len(Contents') = Len(t)
      BY <1>1, <1>2, <1>4, <2>1, <3>1
    <3>3. ASSUME NEW i \in 1 .. Len(Contents') PROVE Contents'[i] = t[i]
      <4>1. Contents'[i] = data[Slot(res'["pop"] + i - 1)]
        BY <1>2
      <4>2. i \in 1 .. Len(t) /\ i + 1 \in 1 .. Len(Contents)
        BY <1>1, <1>2, <1>4, <2>1, <3>1, <3>2
      <4>3. res["pop"] + (i + 1) - 1 = res'["pop"] + i - 1
        BY <1>4, <2>1, <4>2
      <4>4. Contents[i + 1] = data[Slot(res["pop"] + (i + 1) - 1)]
        BY <1>1, <4>2
      <4> QED
        BY <3>1, <4>1, <4>2, <4>3, <4>4
    <3> HIDE DEF t
    <3>4. Contents' = t
      BY <1>2, <3>1, <3>2, <3>3, SeqEqual
    <3> QED
      BY <3>4 DEF t
  <2>6. Held' = [Held EXCEPT ![a] = Head(Contents)]
    BY <1>0, <1>6, <2>4 DEF Publish, Goto, Held, TypeOK
  <2> QED
    BY <1>3, <1>6, <2>3, <2>5, <2>6 DEF BQ!QNext, BQ!Pop
<1> QED
  BY <1>0, <1>5, <1>6 DEF TypeOK, Side

(* ... all its other steps are its own affair.                             *)
LEMMA InnerMaps ==
  ASSUME FifoInv, NEW a \in Actor,
         Test(a) \/ Refresh(a) \/ StoreBuf(a) \/ Retest(a) \/ WriteSlot(a) \/ ReadSlot(a)
  PROVE  UNCHANGED BQ!qvars
<1>0. TicketInv /\ TypeOK
  BY DEF FifoInv, TicketInv
<1>1. Contents' = Contents
  <2>1. res' = res
    BY DEF Test, Refresh, StoreBuf, Retest, WriteSlot, ReadSlot
  <2>2. \A t \in res["pop"] .. res["push"] - 1 : data'[Slot(t)] = data[Slot(t)]
    BY <1>0, WriteElsewhere DEF Test, Refresh, StoreBuf, Retest, ReadSlot
  <2> QED
    BY <1>0, <2>1, <2>2, SameContents
<1>2. side' = side /\ \A b \in Actor : pc'[b] = "idle" <=> pc[b] = "idle"
  BY <1>0 DEF Test, Refresh, StoreBuf, Retest, WriteSlot, ReadSlot, Goto, TypeOK
<1>3. Doing' = Doing
  BY <1>2 DEF Doing
<1>4. \A b \in Actor : (IF pc[b] # "idle" /\ side[b] = "pop" THEN NoValue ELSE val'[b]) = Held[b]
  BY <1>0 DEF Test, Refresh, StoreBuf, Retest, WriteSlot, ReadSlot, Held, TypeOK
<1>5. Held' = Held
  BY <1>2, <1>4 DEF Held
<1> QED
  BY <1>1, <1>3, <1>5 DEF BQ!qvars

(* CircularQueue implements a bounded first-in first-out queue, whatever   *)
(* its threads do and however their calls overlap: the calls that return   *)
(* lose, double, overtake and overwrite no element.                        *)
THEOREM ImplementsFIFO == Spec => KeepsFIFO
<1>1. Init => FifoInv /\ BQ!QInit
  BY InitFifo, InitMaps
<1>2. FifoInv /\ [Next]_vars => FifoInv'
  BY NextFifo
<1>3. FifoInv /\ [Next]_vars => [BQ!QNext]_(BQ!qvars)
  <2> SUFFICES ASSUME FifoInv, [Next]_vars PROVE BQ!QNext \/ UNCHANGED BQ!qvars
    OBVIOUS
  <2>1. CASE UNCHANGED vars
    BY <2>1 DEF vars, BQ!qvars, Contents, Doing, Held, Slot
  <2>2. ASSUME NEW a \in Actor, Step(a) PROVE BQ!QNext \/ UNCHANGED BQ!qvars
    BY <2>2, TakeMaps, UndoMaps, PublishMaps, InnerMaps DEF Step, Advance
  <2> QED
    BY <2>1, <2>2 DEF Next
<1> QED
  BY <1>1, <1>2, <1>3, PTL DEF Spec, KeepsFIFO, BQ!QSpec
=============================================================================
