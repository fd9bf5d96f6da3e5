-------------------------- MODULE BclHashMapProofs --------------------------
(***************************************************************************)
(* HashMap keeps the words of its slots whatever puts are on their way, no *)
(* late put turns a slot over to another key, and the table is whole when  *)
(* nothing is on its way; where all writes are local it implements         *)
(* ConcurrentMap. For every number of threads, keys, slots, marks and      *)
(* calls, every placement of the slots, every hash function and every      *)
(* function modify applies.                                                *)
(***************************************************************************)
EXTENDS BclHashMap, TLAPS

Writes(a) == pc[a] = "request" \/ Writing(a)
Holds(a) == Reading(a) \/ pc[a] = "unmark"
Finds(a) == pc[a] = "mark" \/ Holds(a)

(* The copies the threads hold.                                            *)
Copies ==
  /\ mark \in [Actor -> [bit : Bit, low : {free, reserved, ready}]]
  /\ entry \in [Actor -> [key : Key \cup {NoKey}, val : Value]]
  /\ could \in [Actor -> SUBSET (Value \cup {NoValue})]
  /\ call \in [Actor -> Ops \cup {NoCall}] /\ calls \in [Actor -> Nat]

(* A thread that is where a writer (a find) may be executes such a call.   *)
CallMatches(a) ==
  /\ pc[a] = "idle" => /\ call[a] = NoCall /\ probe[a] = 0 /\ could[a] = {}
                       /\ expect[a] = free /\ entry[a].key = NoKey
  /\ Writes(a) => /\ call[a] \in Ops /\ call[a].op \in {"insert", "modify"}
                  /\ could[a] = {}
  /\ Finds(a) => call[a] \in Ops /\ call[a].op = "find"

(* What a thread knows of the words of its slot and of those it has left   *)
(* behind, whatever is on its way to them.                                 *)
Behind(a) == \A q \in 0 .. probe[a] - 1 : used[SlotOf(call[a].key, q)] # free
WordKnows(a) ==
  /\ Writes(a) => Behind(a)
  /\ pc[a] = "request" /\ expect[a] = ready => used[Slot(a)] # free
  /\ pc[a] \in {"check", "release"} => expect[a] = ready
  /\ pc[a] \in {"setkey", "setval"} => entry[a].key = call[a].key
  /\ Holds(a) /\ mark[a].low # reserved => used[Slot(a)] = mark[a].low
  /\ Reading(a) => mark[a].low = ready

(* A reserved slot is that of one writer.                                  *)
OneWriter ==
  /\ \A a \in Actor : Writing(a) => used[Slot(a)] = reserved
  /\ \A s \in Table : used[s] = reserved => \E a \in Actor : Writing(a) /\ Slot(a) = s
  /\ \A a, b \in Actor : Writing(a) /\ Writing(b) /\ Slot(a) = Slot(b) => a = b

(* A mark is that of one find.                                             *)
OneMark ==
  /\ \A a \in Actor : Holds(a) => mark[a].bit \in marks[Slot(a)]
  /\ \A s \in Table : \A b \in marks[s] :
       \E a \in Actor : Holds(a) /\ Slot(a) = s /\ mark[a].bit = b
  /\ \A a, b \in Actor : Holds(a) /\ Holds(b) /\ Slot(a) = Slot(b)
                         /\ mark[a].bit = mark[b].bit => a = b

Typed == TypeOK /\ Copies
Threads == \A a \in Actor : CallMatches(a) /\ WordKnows(a)
Words == Typed /\ Threads /\ OneWriter /\ OneMark

(* A step of a thread that sends no put, and what is sent.                 *)
Step(a) == \/ Begin(a) \/ Request(a) \/ Check(a) \/ Release(a) \/ GetEntry(a)
           \/ SetKey(a) \/ SetVal(a) \/ Publish(a)
           \/ Mark(a) \/ ReadKey(a) \/ ReadVal(a) \/ Unmark(a)
Record == [by : Actor, n : Nat, slot : Table, key : Key, val : Value,
           left : SUBSET {"key", "val"}]

-----------------------------------------------------------------------------
(* The fields of a call; no call is none of them.                          *)
LEMMA OpFields ==
  /\ \A c \in Ops : /\ c.key \in Key /\ c.op \in {"insert", "modify", "find"}
                    /\ c.op = "find" => c.val = NoValue
                    /\ c.op \in {"insert", "modify"} => c.val \in Value
  /\ NoCall \notin Ops /\ NoCall.op = "none"
BY DEF Ops, NoCall

(* The slots are the naturals below Capacity.                              *)
LEMMA TableOk ==
  /\ Capacity \in Nat \ {0} /\ 0 \in Table /\ Table \subseteq Nat
  /\ \A p : p \in Table <=> p \in Nat /\ p < Capacity
BY MapAssumption DEF Table

(* A probe of a key is a slot of the table.                                *)
LEMMA SlotInTable ==
  ASSUME NEW x \in Key, NEW p \in Nat
  PROVE  SlotOf(x, p) \in Table
<1>1. get_probe(p) \in Nat
  BY DEF get_probe
<1>2. Hash[x] + get_probe(p) \in Nat
  BY <1>1, MapAssumption
<1> QED
  BY <1>2, MapAssumption DEF SlotOf, Table

(* A call in progress names a key, and every probe of it a slot.           *)
LEMMA OwnSlot ==
  ASSUME Typed, Threads, NEW a \in Actor, pc[a] # "idle"
  PROVE  /\ call[a] \in Ops /\ call[a].key \in Key /\ call[a].key # NoKey
         /\ Slot(a) \in Table
         /\ \A q \in 0 .. probe[a] : SlotOf(call[a].key, q) \in Table
<1>1. call[a] \in Ops /\ probe[a] \in Nat
  BY TableOk DEF Typed, TypeOK, Threads, CallMatches, Writes, Writing, Finds, Holds,
     Reading, Table
<1>2. call[a].key \in Key
  BY <1>1, OpFields
<1> QED
  BY <1>1, <1>2, SlotInTable, MapAssumption DEF Slot

(* Both outcomes of Miss, and the return of a call, for the thread.        *)
Restarts(a) == /\ probe[a] + 1 < Capacity /\ probe'[a] = probe[a] + 1
               /\ pc'[a] = First(call[a].op) /\ call'[a] = call[a]
               /\ expect'[a] = free /\ mark'[a] = NoMark /\ entry'[a] = NoEntry
Left(a) == /\ pc'[a] = "idle" /\ call'[a] = NoCall /\ probe'[a] = 0
           /\ expect'[a] = free /\ mark'[a] = NoMark /\ entry'[a] = NoEntry
Elsewhere(a) == \A b \in Actor \ {a} :
  /\ pc'[b] = pc[b] /\ call'[b] = call[b] /\ probe'[b] = probe[b]
  /\ expect'[b] = expect[b] /\ mark'[b] = mark[b] /\ entry'[b] = entry[b]

(* A return (Leave) touches the caller's variables and no slot.            *)
LEMMA LeaveEffect ==
  ASSUME Typed, NEW a \in Actor, Leave(a)
  PROVE  Left(a) /\ Elsewhere(a)
BY DEF Typed, TypeOK, Copies, Leave, Left, Elsewhere, Goto

(* A failed probe starts at the next slot, or the call fails.              *)
LEMMA MissEffect ==
  ASSUME Typed, NEW a \in Actor, Miss(a)
  PROVE  /\ Elsewhere(a)
         /\ \/ Restarts(a) /\ got' = got
            \/ /\ Left(a) /\ probe[a] + 1 >= Capacity
               /\ got' = IF call[a].op = "find" THEN [got EXCEPT ![a] = NoValue]
                                               ELSE got
<1>1. CASE probe[a] + 1 < Capacity
  BY <1>1, TableOk DEF Typed, TypeOK, Copies, Miss, Restarts, Elsewhere, Goto, Table
<1>2. CASE ~(probe[a] + 1 < Capacity)
  BY <1>2, LeaveEffect DEF Miss
<1> QED
  BY <1>1, <1>2

-----------------------------------------------------------------------------
(* What a step of a thread leaves alone.                                   *)
Same(s) == used'[s] = used[s] /\ key'[s] = key[s] /\ val'[s] = val[s]
Takes(a) == pc[a] = "request" /\ used[Slot(a)] = expect[a] /\ marks[Slot(a)] = {}

(* A step leaves the other threads' variables alone.                       *)
LEMMA StepElsewhere ==
  ASSUME Typed, NEW a \in Actor, Step(a)
  PROVE  Elsewhere(a)
<1> USE DEF Elsewhere, Goto
<1> DEFINE T == /\ pc \in [Actor -> {"idle", "request", "check", "release", "get", "setkey",
                       "setval", "publish", "mark", "readkey", "readval", "unmark"}]
               /\ probe \in [Actor -> Table] /\ expect \in [Actor -> {free, ready}]
               /\ mark \in [Actor -> [bit : Bit, low : {free, reserved, ready}]]
               /\ entry \in [Actor -> [key : Key \cup {NoKey}, val : Value]]
               /\ call \in [Actor -> Ops \cup {NoCall}]
<1>0. T
  BY DEF Typed, TypeOK, Copies, Table
<1>1. CASE Begin(a)
  BY <1>0, <1>1 DEF Begin
<1>2. CASE Request(a)
  BY <1>0, <1>2 DEF Request, Reserve
<1>3. CASE Check(a)
  BY <1>0, <1>3 DEF Check
<1>4. CASE Release(a)
  BY <1>4, MissEffect DEF Release
<1>5. CASE GetEntry(a)
  BY <1>0, <1>5 DEF GetEntry
<1>6. CASE SetKey(a)
  BY <1>0, <1>6 DEF SetKey
<1>7. CASE SetVal(a)
  BY <1>0, <1>7 DEF SetVal
<1>8. CASE Publish(a)
  BY <1>8, LeaveEffect DEF Publish
<1>9. CASE Mark(a)
  <2>1. PICK b \in Bit :
       LET mine == b \notin marks[Slot(a)]
           low == used[Slot(a)]
       IN  \/ /\ mark' = [mark EXCEPT ![a] = [bit |-> b, low |-> low]]
              /\ Goto(a, IF low \in {ready, 3} THEN "readkey" ELSE "unmark")
              /\ UNCHANGED <<call, probe, expect, entry, got>>
           \/ Miss(a)
           \/ UNCHANGED <<pc, call, probe, expect, mark, entry, got>>
    BY <1>9 DEF Mark
  <2>2. CASE Miss(a)
    BY <2>2, MissEffect
  <2> QED
    BY <1>0, <2>1, <2>2
<1>10. CASE ReadKey(a)
  BY <1>0, <1>10 DEF ReadKey
<1>11. CASE ReadVal(a)
  BY <1>0, <1>11 DEF ReadVal
<1>12. CASE Unmark(a)
  <2>1. CASE Miss(a)
    BY <2>1, MissEffect
  <2>2. CASE Leave(a)
    BY <2>2, LeaveEffect
  <2> QED
    BY <1>0, <1>12, <2>1, <2>2 DEF Unmark
<1> QED
  BY <1>1, <1>2, <1>3, <1>4, <1>5, <1>6, <1>7, <1>8, <1>9, <1>10, <1>11, <1>12
     DEF Step

(* Only a thread that has reserved a slot, or does now, writes to it.      *)
LEMMA StepSlots ==
  ASSUME Typed, Threads, NEW a \in Actor, Step(a), NEW s \in Table
  PROVE  /\ Same(s) \/ (s = Slot(a) /\ (Writing(a) \/ Takes(a)))
         /\ marks'[s] = marks[s] \/ (s = Slot(a) /\ Finds(a))
<1> USE DEF Same, Takes, Writing, Finds, Holds, Reading
<1>0. /\ used \in [Table -> {free, reserved, ready}] /\ marks \in [Table -> SUBSET Bit]
      /\ key \in [Table -> Key \cup {NoKey}] /\ val \in [Table -> Value]
  BY DEF Typed, TypeOK
<1>1. CASE Begin(a)
  BY <1>1 DEF Begin, slots
<1>2. CASE Request(a)
  BY <1>0, <1>2 DEF Request, Reserve
<1>3. CASE Check(a)
  BY <1>3 DEF Check, slots
<1>4. CASE Release(a)
  BY <1>0, <1>4 DEF Release, Flip
<1>5. CASE GetEntry(a)
  BY <1>5 DEF GetEntry, slots
<1>6. CASE SetKey(a)
  BY <1>0, <1>6 DEF SetKey
<1>7. CASE SetVal(a)
  BY <1>0, <1>7 DEF SetVal
<1>8. CASE Publish(a)
  BY <1>0, <1>8 DEF Publish, Flip
<1>9. CASE Mark(a)
  BY <1>0, <1>9 DEF Mark
<1>10. CASE ReadKey(a)
  BY <1>10 DEF ReadKey, slots
<1>11. CASE ReadVal(a)
  BY <1>11 DEF ReadVal, slots
<1>12. CASE Unmark(a)
  BY <1>0, <1>12 DEF Unmark
<1> QED
  BY <1>1, <1>2, <1>3, <1>4, <1>5, <1>6, <1>7, <1>8, <1>9, <1>10, <1>11, <1>12
     DEF Step

(* A slot that was taken is never free again.                              *)
LEMMA Taken ==
  ASSUME Words, NEW a \in Actor, Step(a), NEW s \in Table, used[s] # free
  PROVE  used'[s] # free
<1>1. CASE Same(s)
  BY <1>1 DEF Same
<1>2. CASE ~Same(s)
  <2>1. s = Slot(a) /\ (Writing(a) \/ Takes(a))
    BY <1>2, StepSlots DEF Words
  <2>2. used \in [Table -> {free, reserved, ready}] /\ (Writing(a) => used[s] = reserved)
    BY <2>1 DEF Words, Typed, TypeOK, OneWriter
  <2> QED
    BY <2>1, <2>2 DEF Step, Begin, Request, Reserve, Check, Release, GetEntry, SetKey,
       SetVal, Publish, Mark, ReadKey, ReadVal, Unmark, Flip, slots, Writing, Takes,
       free, reserved, ready
<1> QED
  BY <1>1, <1>2

(* The slot a thread writes to, or reads under its mark, is its own.       *)
LEMMA Untouched ==
  ASSUME Words, NEW a \in Actor, Step(a), NEW b \in Actor \ {a},
         Writing(b) \/ (Holds(b) /\ mark[b].low # reserved)
  PROVE  Same(Slot(b))
<1>1. Slot(b) \in Table
  BY OwnSlot DEF Words, Writing, Holds, Reading
<1>2. SUFFICES ASSUME Slot(b) = Slot(a), Writing(a) \/ Takes(a) PROVE FALSE
  BY <1>1, StepSlots DEF Words
<1>3. expect[a] # reserved
  BY DEF Words, Typed, TypeOK, free, reserved, ready
<1>4. CASE Writing(b)
  BY <1>2, <1>3, <1>4 DEF Words, OneWriter, Takes
<1>5. CASE Holds(b) /\ mark[b].low # reserved
  BY <1>2, <1>5 DEF Words, OneWriter, OneMark, Threads, WordKnows, Takes
<1> QED
  BY <1>4, <1>5

-----------------------------------------------------------------------------
(* A step of one thread keeps what another knows of its slot's word.       *)
LEMMA OthersWords ==
  ASSUME Words, NEW a \in Actor, Step(a), Remember, NEW b \in Actor \ {a}
  PROVE  /\ Slot(b)' = Slot(b) /\ (Writing(b)' = Writing(b)) /\ (Holds(b)' = Holds(b))
         /\ CallMatches(b)' /\ WordKnows(b)'
<1>1. /\ pc'[b] = pc[b] /\ call'[b] = call[b] /\ probe'[b] = probe[b]
      /\ expect'[b] = expect[b] /\ mark'[b] = mark[b] /\ entry'[b] = entry[b]
  BY StepElsewhere DEF Elsewhere, Words
<1>2. /\ Slot(b)' = Slot(b) /\ (Writes(b)' = Writes(b)) /\ (Writing(b)' = Writing(b))
      /\ (Holds(b)' = Holds(b)) /\ (Reading(b)' = Reading(b)) /\ (Finds(b)' = Finds(b))
  BY <1>1 DEF Slot, SlotOf, Writes, Writing, Holds, Reading, Finds
<1>3. CallMatches(b) /\ WordKnows(b)
  BY DEF Words, Threads
<1>4. CallMatches(b)'
  <2>1. could'[b] = IF call'[b].op # "find" THEN {} ELSE could'[b]
    BY DEF Remember
  <2> QED
    BY <1>1, <1>2, <1>3, <2>1, OpFields DEF CallMatches
<1>5. Writes(b) => Behind(b)'
  <2> SUFFICES ASSUME Writes(b), NEW q \in 0 .. probe[b] - 1
               PROVE  used'[SlotOf(call[b].key, q)] # free
    BY <1>1 DEF Behind, SlotOf, get_probe
  <2>1. used[SlotOf(call[b].key, q)] # free
    BY <1>3 DEF WordKnows, Behind
  <2>2. q \in 0 .. probe[b] /\ pc[b] # "idle"
    BY TableOk DEF Words, Typed, TypeOK, Table, Writes, Writing
  <2>3. SlotOf(call[b].key, q) \in Table
    BY <2>2, OwnSlot DEF Words
  <2> QED
    BY <2>1, <2>3, Taken
<1>6. pc[b] = "request" /\ expect[b] = ready => used'[Slot(b)] # free
  BY <1>3, OwnSlot, Taken DEF Words, WordKnows
<1>7. Holds(b) /\ mark[b].low # reserved => used'[Slot(b)] = mark[b].low
  BY <1>3, Untouched DEF WordKnows, Same
<1>8. WordKnows(b)'
  BY <1>1, <1>2, <1>3, <1>5, <1>6, <1>7 DEF WordKnows
<1> QED
  BY <1>2, <1>4, <1>8

(* The part of the type invariant about the threads.                       *)
Locals ==
  /\ pc \in [Actor -> {"idle", "request", "check", "release", "get", "setkey",
                       "setval", "publish", "mark", "readkey", "readval", "unmark"}]
  /\ probe \in [Actor -> Table] /\ expect \in [Actor -> {free, ready}]
  /\ mark \in [Actor -> [bit : Bit, low : {free, reserved, ready}]]
  /\ entry \in [Actor -> [key : Key \cup {NoKey}, val : Value]]
  /\ call \in [Actor -> Ops \cup {NoCall}]
  /\ got \in [Actor -> Value \cup {NoValue}]

(* The caller's variables keep their types when it returns.                *)
LEMMA LeaveLocals ==
  ASSUME Locals, NEW a \in Actor, Leave(a), got' \in [Actor -> Value \cup {NoValue}]
  PROVE  Locals'
<1>1. NoMark \in [bit : Bit, low : {free, reserved, ready}]
  BY MapAssumption DEF NoMark
<1>2. NoEntry \in [key : Key \cup {NoKey}, val : Value]
  BY MapAssumption DEF NoEntry
<1> QED
  BY <1>1, <1>2, TableOk DEF Locals, Leave, Goto, Table

(* The same when a probe fails.                                            *)
LEMMA MissLocals ==
  ASSUME Locals, NEW a \in Actor, Miss(a)
  PROVE  Locals'
<1>1. NoMark \in [bit : Bit, low : {free, reserved, ready}]
  BY MapAssumption DEF NoMark
<1>2. NoEntry \in [key : Key \cup {NoKey}, val : Value]
  BY MapAssumption DEF NoEntry
<1>3. CASE Leave(a) /\ got' = IF call[a].op = "find" THEN [got EXCEPT ![a] = NoValue]
                                                    ELSE got
  BY <1>3, LeaveLocals DEF Locals
<1>4. CASE /\ probe[a] + 1 < Capacity /\ probe' = [probe EXCEPT ![a] = @ + 1]
           /\ expect' = [expect EXCEPT ![a] = free] /\ mark' = [mark EXCEPT ![a] = NoMark]
           /\ entry' = [entry EXCEPT ![a] = NoEntry]
           /\ pc' = [pc EXCEPT ![a] = First(call[a].op)] /\ UNCHANGED <<call, got>>
  <2>1. probe[a] + 1 \in Table
    BY <1>4, TableOk DEF Locals
  <2>2. First(call[a].op) \in {"mark", "request"}
    BY DEF First
  <2>3. /\ probe' \in [Actor -> Table] /\ expect' \in [Actor -> {free, ready}]
        /\ mark' \in [Actor -> [bit : Bit, low : {free, reserved, ready}]]
        /\ entry' \in [Actor -> [key : Key \cup {NoKey}, val : Value]]
    BY <1>1, <1>2, <1>4, <2>1 DEF Locals
  <2> QED
    BY <1>4, <2>2, <2>3 DEF Locals
<1> QED
  BY <1>3, <1>4 DEF Miss, Goto

(* The same for every step.                                                *)
LEMMA LocalsStep ==
  ASSUME Typed, Threads, NEW a \in Actor, Step(a)
  PROVE  Locals'
<1> USE DEF Goto
<1>0. /\ used \in [Table -> {free, reserved, ready}] /\ marks \in [Table -> SUBSET Bit]
      /\ key \in [Table -> Key \cup {NoKey}] /\ val \in [Table -> Value] /\ Locals
  BY DEF Typed, TypeOK, Copies, Locals, Table
<1>1. CASE Begin(a)
  <2>1. Calls[a] \subseteq Ops
    BY MapAssumption
  <2> QED
    BY <1>0, <1>1, <2>1 DEF Begin, Locals, First
<1>2. CASE Request(a)
  BY <1>0, <1>2 DEF Request, Reserve, Locals
<1>3. CASE Check(a)
  BY <1>0, <1>3 DEF Check, Locals
<1>4. CASE Release(a)
  BY <1>0, <1>4, MissLocals DEF Release
<1>5. CASE GetEntry(a)
  <2>1. call[a].key \in Key /\ val[Slot(a)] \in Value
    BY <1>0, <1>5, OwnSlot DEF GetEntry
  <2> QED
    BY <1>0, <1>5, <2>1 DEF GetEntry, Locals
<1>6. CASE SetKey(a)
  BY <1>0, <1>6 DEF SetKey, Locals
<1>7. CASE SetVal(a)
  BY <1>0, <1>7 DEF SetVal, Locals
<1>8. CASE Publish(a)
  BY <1>0, <1>8, LeaveLocals DEF Publish, Locals
<1>9. CASE Mark(a)
  <2>1. Slot(a) \in Table
    BY <1>9, OwnSlot DEF Mark
  <2>2. PICK b \in Bit :
          \/ /\ mark' = [mark EXCEPT ![a] = [bit |-> b, low |-> used[Slot(a)]]]
             /\ Goto(a, IF used[Slot(a)] \in {ready, 3} THEN "readkey" ELSE "unmark")
             /\ UNCHANGED <<call, probe, expect, entry, got>>
          \/ Miss(a)
          \/ UNCHANGED <<pc, call, probe, expect, mark, entry, got>>
    BY <1>9 DEF Mark
  <2>3. [bit |-> b, low |-> used[Slot(a)]] \in [bit : Bit, low : {free, reserved, ready}]
    BY <1>0, <2>1
  <2> QED
    BY <1>0, <2>2, <2>3, MissLocals, SMTT(30) DEF Locals
<1>10. CASE ReadKey(a)
  <2>1. key[Slot(a)] \in Key \cup {NoKey}
    BY <1>0, <1>10, OwnSlot DEF ReadKey
  <2> QED
    BY <1>0, <1>10, <2>1 DEF ReadKey, Locals
<1>11. CASE ReadVal(a)
  <2>1. val[Slot(a)] \in Value
    BY <1>0, <1>11, OwnSlot DEF ReadVal
  <2> QED
    BY <1>0, <1>11, <2>1, SMTT(30) DEF ReadVal, Locals
<1>12. CASE Unmark(a)
  <2>1. CASE mark' = [mark EXCEPT ![a] = NoMark] /\ Goto(a, "mark")
             /\ UNCHANGED <<call, probe, expect, entry, got>>
    <3>1. NoMark \in [bit : Bit, low : {free, reserved, ready}]
      BY MapAssumption DEF NoMark
    <3> QED
      BY <1>0, <2>1, <3>1 DEF Locals
  <2>2. CASE Leave(a) /\ got' = [got EXCEPT ![a] = entry[a].val]
    BY <1>0, <2>2, LeaveLocals DEF Locals
  <2>3. CASE Miss(a)
    BY <1>0, <2>3, MissLocals
  <2> QED
    BY <1>12, <2>1, <2>2, <2>3 DEF Unmark
<1> QED
  BY <1>1, <1>2, <1>3, <1>4, <1>5, <1>6, <1>7, <1>8, <1>9, <1>10, <1>11, <1>12
     DEF Step

(* Words, keys and values of the slots keep their types.                   *)
LEMMA SlotsStep ==
  ASSUME Words, NEW a \in Actor, Step(a)
  PROVE  /\ used' \in [Table -> {free, reserved, ready}] /\ marks' \in [Table -> SUBSET Bit]
         /\ key' \in [Table -> Key \cup {NoKey}] /\ val' \in [Table -> Value]
<1>0. /\ used \in [Table -> {free, reserved, ready}] /\ marks \in [Table -> SUBSET Bit]
      /\ key \in [Table -> Key \cup {NoKey}] /\ val \in [Table -> Value]
      /\ entry \in [Actor -> [key : Key \cup {NoKey}, val : Value]]
  BY DEF Words, Typed, TypeOK, Copies
<1>5. Flip(Slot(a)) /\ Writing(a) => used' \in [Table -> {free, reserved, ready}]
  <2> SUFFICES ASSUME Flip(Slot(a)), Writing(a)
               PROVE  used' \in [Table -> {free, reserved, ready}]
    OBVIOUS
  <2>1. used[Slot(a)] = reserved
    BY DEF Words, OneWriter
  <2>2. used' = [used EXCEPT ![Slot(a)] = ready]
    BY <2>1 DEF Flip, reserved, ready
  <2> QED
    BY <1>0, <2>2
<1> USE DEF Step, Begin, Request, Reserve, Check, Release, GetEntry, SetKey,
        SetVal, Publish, Mark, ReadKey, ReadVal, Unmark, slots
<1>1. used' \in [Table -> {free, reserved, ready}]
  <2>1. CASE Flip(Slot(a)) /\ Writing(a)
    BY <1>5, <2>1
  <2>2. CASE ~(Flip(Slot(a)) /\ Writing(a))
    BY <1>0, <2>2 DEF Writing
  <2> QED
    BY <2>1, <2>2
<1>2. marks' \in [Table -> SUBSET Bit]
  BY <1>0
<1>3. key' \in [Table -> Key \cup {NoKey}]
  BY <1>0
<1>4. val' \in [Table -> Value]
  <2>1. CASE SetVal(a)
    <3>1. call[a] \in Ops /\ call[a].op \in {"insert", "modify"}
      BY <2>1 DEF Words, Threads, CallMatches, Writes, Writing
    <3>2. call[a].val \in Value /\ Fn(entry[a].val) \in Value
      BY <1>0, <3>1, OpFields, MapAssumption
    <3> QED
      BY <1>0, <2>1, <3>2 DEF NewVal
  <2>2. CASE ~SetVal(a)
    BY <1>0, <2>2
  <2> QED
    BY <2>1, <2>2
<1> QED
  BY <1>1, <1>2, <1>3, <1>4

(* What a thread writes is a write.                                        *)
LEMMA WriteIs ==
  ASSUME Words, NEW a \in Actor, pc[a] \in {"setkey", "setval"},
         NEW left \in SUBSET {"key", "val"}
  PROVE  Write(a, left) \in Record
<1>1. /\ call[a] \in Ops /\ call[a].op \in {"insert", "modify"}
      /\ entry[a].key = call[a].key
  BY DEF Words, Threads, CallMatches, WordKnows, Writes, Writing
<1>2. /\ calls[a] \in Nat /\ entry[a].val \in Value /\ Slot(a) \in Table
      /\ call[a].key \in Key
  BY OwnSlot DEF Words, Typed, Copies
<1>3. NewVal(a) \in Value
  BY <1>1, <1>2, OpFields, MapAssumption DEF NewVal
<1> QED
  BY <1>1, <1>2, <1>3 DEF Write, Record

(* What the map holds under a key is a value, or none.                     *)
LEMMA ValuesType ==
  ASSUME val \in [Table -> Value], NEW x \in Key
  PROVE  Values[x] \in Value \cup {NoValue}
BY DEF Values, Stored

(* The same after a step.                                                  *)
LEMMA ValuesTypeNext ==
  ASSUME val' \in [Table -> Value], NEW x \in Key
  PROVE  Values'[x] \in Value \cup {NoValue}
BY DEF Values, Stored

(* Types are kept.                                                         *)
LEMMA TypedStep ==
  ASSUME Words, NEW a \in Actor, Step(a), Remember
  PROVE  Typed'
<1>1. Locals' /\ Typed
  BY LocalsStep DEF Words
<1>2. call' = call \/ \E c \in Calls[a] \cup {NoCall} : call' = [call EXCEPT ![a] = c]
  BY DEF Step, Begin, Request, Reserve, Check, Release, GetEntry, SetKey,
        SetVal, Publish, Mark, ReadKey, ReadVal, Unmark, Miss, Leave
<1>3. \A b \in Actor : call'[b] \in Calls[b] \cup {NoCall}
  BY <1>1, <1>2 DEF Typed, TypeOK, Copies
<1>4. calls' = calls \/ (calls[a] < MaxCalls[a] /\ calls' = [calls EXCEPT ![a] = @ + 1])
  BY DEF Step, Begin, Request, Reserve, Check, Release, GetEntry, SetKey,
        SetVal, Publish, Mark, ReadKey, ReadVal, Unmark
<1>5. calls' \in [Actor -> Nat] /\ \A b \in Actor : calls'[b] \in 0 .. MaxCalls[b]
  <2>1. /\ calls \in [Actor -> Nat] /\ \A b \in Actor : calls[b] \in 0 .. MaxCalls[b]
        /\ \A b \in Actor : MaxCalls[b] \in Nat
    BY <1>1, MapAssumption DEF Typed, TypeOK, Copies
  <2> QED
    BY <1>4, <2>1
<1>6. could' \in [Actor -> SUBSET (Value \cup {NoValue})]
  <2>1. \A x \in Key : Values'[x] \in Value \cup {NoValue}
    BY SlotsStep, ValuesTypeNext
  <2>2. ASSUME NEW b \in Actor, call'[b].op = "find"
        PROVE  /\ Values'[call'[b].key] \in Value \cup {NoValue}
               /\ pc[b] # "idle" => Values'[call[b].key] \in Value \cup {NoValue}
    <3>1. call'[b] \in Ops
      BY <1>1, <2>2, OpFields DEF Locals
    <3>2. pc[b] # "idle" => call[b].key \in Key
      BY OwnSlot DEF Words
    <3> QED
      BY <2>1, <3>1, <3>2, OpFields
  <2> QED
    BY <1>1, <2>2 DEF Remember, Typed, Copies
<1>7. puts' \subseteq Record /\ home' \in Homes
  <2>1. puts \subseteq Record /\ home' \in Homes
    BY <1>1 DEF Typed, TypeOK, Record, Remember
  <2>2. CASE SetVal(a)
    BY <2>1, <2>2, WriteIs DEF SetVal
  <2>3. CASE ~SetVal(a)
    BY <2>1, <2>3 DEF Step, Begin, Request, Check, Release, GetEntry, SetKey, Publish,
       Mark, ReadKey, ReadVal, Unmark, slots
  <2> QED
    BY <2>1, <2>2, <2>3
<1> QED
  BY <1>1, <1>3, <1>5, <1>6, <1>7, SlotsStep
     DEF Typed, TypeOK, Copies, Locals, Table, Record

-----------------------------------------------------------------------------
(* What a thread knows of its slot's word after its own step.              *)
Knows(a) == CallMatches(a) /\ WordKnows(a)

(* A thread that returned need know nothing of a slot.                     *)
LEMMA AfterLeave ==
  ASSUME NEW a \in Actor, Left(a), Remember
  PROVE  Knows(a)'
<1>1. pc'[a] = "idle" /\ could'[a] = {} /\ expect'[a] = free /\ entry'[a].key = NoKey
  BY OpFields DEF Left, Remember, NoEntry
<1> QED
  BY <1>1 DEF Left, Knows, CallMatches, WordKnows, Writes, Writing, Finds, Holds, Reading

(* A thread at its next slot knows that the one before is taken.           *)
LEMMA AfterMiss ==
  ASSUME Words, NEW a \in Actor, Step(a), Restarts(a), Remember, Writes(a) \/ Finds(a),
         Writes(a) => used[Slot(a)] # free
  PROVE  Knows(a)'
<1>1. CallMatches(a) /\ WordKnows(a) /\ pc[a] # "idle"
  BY DEF Words, Threads, Writes, Writing, Finds, Holds, Reading
<1>2. call[a] \in Ops /\ probe[a] \in Nat
  BY <1>1, OwnSlot, TableOk DEF Words, Typed, TypeOK, Table
<1>3. CASE Writes(a)
  <2>1. call[a].op \in {"insert", "modify"} /\ ~Finds(a)
    BY <1>1, <1>3 DEF CallMatches, Writes, Writing, Finds, Holds, Reading
  <2>2. pc'[a] = "request" /\ could'[a] = {} /\ call'[a] = call[a] /\ expect'[a] = free
    BY <2>1 DEF Restarts, First, Remember
  <2>3. Behind(a)'
    <3> SUFFICES ASSUME NEW q \in 0 .. probe'[a] - 1
                 PROVE  used'[SlotOf(call[a].key, q)] # free
      BY <2>2 DEF Behind, SlotOf, get_probe
    <3>0. q \in 0 .. probe[a]
      BY <1>2 DEF Restarts
    <3>1. used[SlotOf(call[a].key, q)] # free
      BY <1>1, <1>2, <1>3, <3>0 DEF WordKnows, Slot, Behind
    <3>2. SlotOf(call[a].key, q) \in Table
      BY <1>1, <3>0, OwnSlot DEF Words
    <3> QED
      BY <3>1, <3>2, Taken
  <2>4. WordKnows(a)'
    BY <2>2, <2>3 DEF WordKnows, Holds, Reading, free, ready
  <2> QED
    BY <1>2, <2>1, <2>2, <2>4 DEF Knows, CallMatches, Writes, Writing, Finds, Holds, Reading
<1>4. CASE Finds(a)
  <2>1. call[a].op = "find"
    BY <1>1, <1>4 DEF CallMatches
  <2>2. pc'[a] = "mark" /\ call'[a] = call[a]
    BY <2>1 DEF Restarts, First
  <2> QED
    BY <1>2, <2>1, <2>2 DEF Knows, CallMatches, WordKnows, Writes, Writing, Finds, Holds,
       Reading
<1> QED
  BY <1>3, <1>4

(* A step that stays in the same call at the same slot.                    *)
LEMMA SameCall ==
  ASSUME Words, NEW a \in Actor, Step(a), Remember, pc[a] # "idle",
         call'[a] = call[a], probe'[a] = probe[a]
  PROVE  /\ Slot(a)' = Slot(a) /\ Slot(a) \in Table
         /\ Writes(a) /\ Writes(a)' => CallMatches(a)'
         /\ Finds(a) /\ Finds(a)' => CallMatches(a)'
         /\ Writes(a) => Behind(a)'
<1>1. CallMatches(a) /\ WordKnows(a) /\ call[a] \in Ops /\ Slot(a) \in Table
  BY OwnSlot DEF Words, Threads
<1>2. Slot(a)' = Slot(a)
  BY DEF Slot, SlotOf, get_probe
<1>3. call[a].op \in {"insert", "modify"} => could'[a] = {}
  BY DEF Remember
<1>4. Writes(a) /\ Writes(a)' => CallMatches(a)'
  BY <1>1, <1>3 DEF CallMatches, Writes, Writing, Finds, Holds, Reading
<1>5. Finds(a) /\ Finds(a)' => CallMatches(a)'
  BY <1>1 DEF CallMatches, Writes, Writing, Finds, Holds, Reading
<1>6. Writes(a) => Behind(a)'
  <2> SUFFICES ASSUME Writes(a), NEW q \in 0 .. probe[a] - 1
               PROVE  used'[SlotOf(call[a].key, q)] # free
    BY DEF Behind, SlotOf, get_probe
  <2>1. used[SlotOf(call[a].key, q)] # free
    BY <1>1 DEF WordKnows, Behind
  <2>2. q \in 0 .. probe[a]
    BY TableOk DEF Words, Typed, TypeOK, Table
  <2>3. SlotOf(call[a].key, q) \in Table
    BY <2>2, OwnSlot DEF Words
  <2> QED
    BY <2>1, <2>3, Taken
<1> QED
  BY <1>1, <1>2, <1>4, <1>5, <1>6

(* What the thread that steps knows of its slot's word is true after it.   *)
LEMMA OwnWords ==
  ASSUME Words, NEW a \in Actor, Step(a), Remember
  PROVE  Knows(a)'
<1>0. /\ Typed /\ Threads /\ CallMatches(a) /\ WordKnows(a) /\ Locals
      /\ used[Slot(a)] = reserved \/ ~Writing(a)
  BY DEF Words, Threads, OneWriter, Typed, TypeOK, Copies, Locals, Table
<1>1. /\ used \in [Table -> {free, reserved, ready}]
      /\ free # reserved /\ free # ready /\ reserved # ready
  BY <1>0 DEF Typed, TypeOK, free, reserved, ready
<1>2. CASE Begin(a)
  <2>1. PICK c \in Calls[a] : call'[a] = c /\ pc'[a] = First(c.op)
    BY <1>0, <1>2 DEF Begin, Goto, Locals
  <2>2. /\ c \in Ops /\ probe'[a] = 0 /\ expect'[a] = free
    BY <1>0, <1>2, <2>1, MapAssumption DEF Begin, CallMatches
  <2>3. c.op # "find" => could'[a] = {}
    BY <2>1 DEF Remember
  <2>4. Behind(a)'
    BY <2>2 DEF Behind
  <2>5. WordKnows(a)'
    BY <1>1, <2>1, <2>2, <2>4 DEF WordKnows, First, Holds, Reading
  <2> QED
    BY <2>1, <2>2, <2>3, <2>5, OpFields DEF Knows, CallMatches, First, Writes, Writing,
       Finds, Holds, Reading
<1>3. CASE Request(a)
  <2>1. /\ pc[a] = "request" /\ call'[a] = call[a] /\ probe'[a] = probe[a]
        /\ pc'[a] \in {"request", "get", "check"}
        /\ pc'[a] = "check" => expect'[a] = ready
        /\ pc'[a] = "request" => used'[Slot(a)] # free
    BY <1>0, <1>1, <1>3 DEF Request, Reserve, Goto, Locals
  <2>2. Slot(a)' = Slot(a) /\ Behind(a)' /\ CallMatches(a)'
    BY <2>1, SameCall DEF Writes, Writing
  <2>3. WordKnows(a)'
    BY <2>1, <2>2 DEF WordKnows, Holds, Reading
  <2> QED
    BY <2>2, <2>3 DEF Knows
<1>4. CASE Check(a) \/ GetEntry(a) \/ SetKey(a) \/ SetVal(a)
  <2>1. /\ pc[a] \in {"check", "get", "setkey", "setval"}
        /\ call'[a] = call[a] /\ probe'[a] = probe[a] /\ expect'[a] = expect[a]
        /\ pc'[a] \in {"get", "release", "setkey", "setval", "publish"}
        /\ pc'[a] = "release" => pc[a] = "check"
        /\ pc'[a] \in {"setkey", "setval"} => entry'[a].key = call[a].key
    BY <1>0, <1>4 DEF Check, GetEntry, SetKey, SetVal, Goto, Locals, WordKnows
  <2>2. Slot(a)' = Slot(a) /\ Behind(a)' /\ CallMatches(a)'
    BY <2>1, SameCall DEF Writes, Writing
  <2>3. WordKnows(a)'
    BY <1>0, <2>1, <2>2 DEF WordKnows, Holds, Reading
  <2> QED
    BY <2>2, <2>3 DEF Knows
<1>5. CASE Release(a)
  <2>1. pc[a] = "release" /\ Miss(a) /\ Writing(a)
    BY <1>5 DEF Release, Writing
  <2> QED
    BY <1>0, <1>1, <2>1, MissEffect, AfterMiss, AfterLeave DEF Writes
<1>6. CASE Publish(a)
  BY <1>0, <1>6, LeaveEffect, AfterLeave DEF Publish
<1>7. CASE Mark(a)
  <2>1. pc[a] = "mark" /\ Finds(a) /\ ~Writes(a) /\ used' = used /\ Slot(a) \in Table
    BY <1>0, <1>7, OwnSlot DEF Mark, Finds, Writes, Writing
  <2>2. PICK b \in Bit :
          \/ /\ mark' = [mark EXCEPT ![a] = [bit |-> b, low |-> used[Slot(a)]]]
             /\ Goto(a, IF used[Slot(a)] \in {ready, 3} THEN "readkey" ELSE "unmark")
             /\ UNCHANGED <<call, probe, expect, entry, got>>
          \/ Miss(a)
          \/ UNCHANGED <<pc, call, probe, expect, mark, entry, got>>
    BY <1>7 DEF Mark
  <2>3. CASE Miss(a)
    BY <1>0, <2>1, <2>3, MissEffect, AfterMiss, AfterLeave
  <2>4. CASE UNCHANGED <<pc, call, probe, expect, mark, entry, got>>
    <3>1. Slot(a)' = Slot(a) /\ (CallMatches(a)' \/ ~Finds(a)')
      BY <2>1, <2>4, SameCall
    <3> QED
      BY <2>1, <2>4, <3>1 DEF Knows, WordKnows, Writes, Writing, Finds, Holds, Reading
  <2>5. CASE /\ mark' = [mark EXCEPT ![a] = [bit |-> b, low |-> used[Slot(a)]]]
             /\ Goto(a, IF used[Slot(a)] \in {ready, 3} THEN "readkey" ELSE "unmark")
             /\ UNCHANGED <<call, probe, expect, entry, got>>
    <3>1. Slot(a)' = Slot(a) /\ (CallMatches(a)' \/ ~Finds(a)')
      BY <2>1, <2>5, SameCall
    <3>2. used[Slot(a)] \in {ready, 3} <=> used[Slot(a)] = ready
      BY <1>1, <2>1 DEF free, reserved, ready
    <3>3. /\ mark'[a].low = used[Slot(a)]
          /\ pc'[a] = IF used[Slot(a)] = ready THEN "readkey" ELSE "unmark"
      BY <1>0, <2>5, <3>2 DEF Goto, Locals
    <3> QED
      BY <2>1, <3>1, <3>3 DEF Knows, WordKnows, Writes, Writing, Finds, Holds, Reading
  <2> QED
    BY <2>2, <2>3, <2>4, <2>5
<1>8. CASE ReadKey(a) \/ ReadVal(a)
  <2>1. /\ pc[a] \in {"readkey", "readval"} /\ pc'[a] \in {"readval", "unmark"}
        /\ call'[a] = call[a] /\ probe'[a] = probe[a] /\ used' = used /\ mark' = mark
    BY <1>0, <1>8 DEF ReadKey, ReadVal, Goto, Locals, slots
  <2>2. Slot(a)' = Slot(a) /\ (CallMatches(a)' \/ ~Finds(a)')
    BY <2>1, SameCall DEF Finds, Holds, Reading
  <2> QED
    BY <1>0, <2>1, <2>2 DEF Knows, WordKnows, Writes, Writing, Finds, Holds, Reading
<1>9. CASE Unmark(a)
  <2>1. pc[a] = "unmark" /\ Finds(a) /\ ~Writes(a)
    BY <1>9 DEF Unmark, Finds, Holds, Writes, Writing
  <2>2. CASE Miss(a)
    BY <1>0, <2>1, <2>2, MissEffect, AfterMiss, AfterLeave
  <2>3. CASE Leave(a)
    BY <1>0, <2>3, LeaveEffect, AfterLeave
  <2>4. CASE ~Miss(a) /\ ~Leave(a)
    <3>1. pc'[a] = "mark" /\ call'[a] = call[a] /\ probe'[a] = probe[a]
      BY <1>0, <1>9, <2>4 DEF Unmark, Goto, Locals
    <3>2. CallMatches(a)' \/ ~Finds(a)'
      BY <2>1, <3>1, SameCall
    <3> QED
      BY <3>1, <3>2 DEF Knows, WordKnows, Writes, Writing, Finds, Holds, Reading
  <2> QED
    BY <2>2, <2>3, <2>4
<1> QED
  BY <1>2, <1>3, <1>4, <1>5, <1>6, <1>7, <1>8, <1>9 DEF Step

-----------------------------------------------------------------------------
(* How a step changes who has reserved a slot.                             *)
LEMMA WritingStep ==
  ASSUME Words, NEW a \in Actor, Step(a)
  PROVE  \/ /\ (Writing(a)' <=> Writing(a)) /\ (Writing(a) => Slot(a)' = Slot(a))
            /\ used' = used
         \/ /\ ~Writing(a) /\ Writing(a)' /\ Slot(a) \in Table /\ Slot(a)' = Slot(a)
            /\ used[Slot(a)] # reserved
            /\ used' = [used EXCEPT ![Slot(a)] = reserved]
         \/ /\ Writing(a) /\ ~Writing(a)' /\ Slot(a) \in Table
            /\ used' = [used EXCEPT ![Slot(a)] = ready]
<1>0. /\ Typed /\ Threads /\ Locals /\ (Writing(a) => used[Slot(a)] = reserved)
      /\ (pc[a] # "idle" => Slot(a) \in Table)
  BY OwnSlot DEF Words, OneWriter, Typed, TypeOK, Copies, Locals, Table
<1>1. call'[a] = call[a] /\ probe'[a] = probe[a] => Slot(a)' = Slot(a)
  BY DEF Slot, SlotOf, get_probe
<1>2. CASE Begin(a)
  <2>1. PICK c \in Calls[a] : pc'[a] = First(c.op)
    BY <1>0, <1>2 DEF Begin, Goto, Locals
  <2> QED
    BY <1>2, <2>1 DEF Begin, First, Writing, slots
<1>3. CASE Request(a)
  <2>1. CASE Reserve(a)
    <3>1. pc'[a] \in {"get", "check"}
      BY <1>0, <2>1 DEF Reserve, Goto, Locals
    <3>2. used[Slot(a)] # reserved
      BY <1>0, <2>1 DEF Reserve, Locals, free, reserved, ready
    <3> QED
      BY <1>0, <1>1, <1>3, <2>1, <3>1, <3>2 DEF Request, Reserve, Writing
  <2>2. CASE ~Reserve(a)
    BY <1>3, <2>2 DEF Request, Writing
  <2> QED
    BY <2>1, <2>2
<1>4. CASE Check(a) \/ GetEntry(a) \/ SetKey(a) \/ SetVal(a)
  BY <1>0, <1>1, <1>4 DEF Check, GetEntry, SetKey, SetVal, Goto, Locals, Writing, slots
<1>5. CASE Release(a) \/ Publish(a)
  <2>1. Writing(a) /\ Flip(Slot(a)) /\ pc[a] # "idle"
    BY <1>5 DEF Release, Publish, Writing
  <2>2. used' = [used EXCEPT ![Slot(a)] = ready]
    <3>1. used[Slot(a)] = reserved
      BY <1>0, <2>1
    <3> QED
      BY <2>1, <3>1 DEF Flip, reserved, ready
  <2>3. pc'[a] \in {"idle", "request", "mark"}
    BY <1>0, <1>5, MissEffect, LeaveEffect DEF Release, Publish, Restarts, Left, First
  <2> QED
    BY <1>0, <2>1, <2>2, <2>3 DEF Writing
<1>6. CASE Mark(a) \/ ReadKey(a) \/ ReadVal(a) \/ Unmark(a)
  <2>1. ~Writing(a) /\ used' = used
    BY <1>6 DEF Mark, ReadKey, ReadVal, Unmark, Writing, slots
  <2>2. CASE Miss(a)
    <3>1. call[a].op = "find"
      BY <1>0, <1>6 DEF Threads, CallMatches, Finds, Holds, Reading, Mark, ReadKey,
         ReadVal, Unmark
    <3> QED
      BY <1>0, <2>1, <2>2, <3>1, MissEffect DEF Restarts, Left, First, Writing
  <2>3. CASE Leave(a)
    BY <1>0, <2>1, <2>3, LeaveEffect DEF Left, Writing
  <2>4. CASE ~Miss(a) /\ ~Leave(a)
    <3>1. pc'[a] \in {"mark", "readkey", "readval", "unmark"}
      BY <1>0, <1>6, <2>4 DEF Mark, ReadKey, ReadVal, Unmark, Goto, Locals
    <3> QED
      BY <2>1, <3>1 DEF Writing
  <2> QED
    BY <2>2, <2>3, <2>4
<1> QED
  BY <1>2, <1>3, <1>4, <1>5, <1>6 DEF Step

(* No step reserves a slot that a writer has.                              *)
LEMMA OneWriterStep ==
  ASSUME Words, NEW a \in Actor, Step(a), Remember
  PROVE  OneWriter'
<1>1. /\ \A b \in Actor : Writing(b) => used[Slot(b)] = reserved /\ Slot(b) \in Table
      /\ \A s \in Table : used[s] = reserved => \E b \in Actor : Writing(b) /\ Slot(b) = s
      /\ \A b, c \in Actor : Writing(b) /\ Writing(c) /\ Slot(b) = Slot(c) => b = c
      /\ used \in [Table -> {free, reserved, ready}] /\ reserved # ready
  BY OwnSlot DEF Words, OneWriter, Writing, Typed, TypeOK, reserved, ready
<1>2. \A b \in Actor \ {a} : Slot(b)' = Slot(b) /\ (Writing(b)' <=> Writing(b))
  BY OthersWords
<1>3. CASE /\ (Writing(a)' <=> Writing(a)) /\ (Writing(a) => Slot(a)' = Slot(a))
           /\ used' = used
  BY <1>1, <1>2, <1>3 DEF OneWriter
<1>4. CASE /\ ~Writing(a) /\ Writing(a)' /\ Slot(a) \in Table /\ Slot(a)' = Slot(a)
           /\ used[Slot(a)] # reserved
           /\ used' = [used EXCEPT ![Slot(a)] = reserved]
  BY <1>1, <1>2, <1>4 DEF OneWriter
<1>5. CASE /\ Writing(a) /\ ~Writing(a)' /\ Slot(a) \in Table
           /\ used' = [used EXCEPT ![Slot(a)] = ready]
  BY <1>1, <1>2, <1>5 DEF OneWriter
<1> QED
  BY <1>3, <1>4, <1>5, WritingStep

(* How a step changes the marks.                                           *)
LEMMA HoldsStep ==
  ASSUME Words, NEW a \in Actor, Step(a)
  PROVE  \/ /\ (Holds(a)' <=> Holds(a)) /\ marks' = marks
            /\ (Holds(a) => Slot(a)' = Slot(a) /\ mark'[a] = mark[a])
         \/ /\ ~Holds(a) /\ Holds(a)' /\ Slot(a) \in Table /\ Slot(a)' = Slot(a)
            /\ mark'[a].bit \notin marks[Slot(a)]
            /\ marks' = [marks EXCEPT ![Slot(a)] = @ \cup {mark'[a].bit}]
         \/ /\ Holds(a) /\ ~Holds(a)' /\ Slot(a) \in Table
            /\ marks' = [marks EXCEPT ![Slot(a)] = @ \ {mark[a].bit}]
<1>0. /\ Typed /\ Threads /\ Locals /\ marks \in [Table -> SUBSET Bit]
      /\ (pc[a] # "idle" => Slot(a) \in Table)
  BY OwnSlot DEF Words, Typed, TypeOK, Copies, Locals, Table
<1>1. call'[a] = call[a] /\ probe'[a] = probe[a] => Slot(a)' = Slot(a)
  BY DEF Slot, SlotOf, get_probe
<1>2. CASE Begin(a)
  <2>1. PICK c \in Calls[a] : pc'[a] = First(c.op)
    BY <1>0, <1>2 DEF Begin, Goto, Locals
  <2> QED
    BY <1>2, <2>1 DEF Begin, First, Holds, Reading, slots
<1>3. CASE Request(a)
  <2>1. pc'[a] \in {"get", "check", "request"}
    BY <1>0, <1>3 DEF Request, Reserve, Goto, Locals
  <2> QED
    BY <1>3, <2>1 DEF Request, Holds, Reading
<1>4. CASE Check(a) \/ GetEntry(a) \/ SetKey(a) \/ SetVal(a)
  BY <1>0, <1>4 DEF Check, GetEntry, SetKey, SetVal, Goto, Locals, Holds, Reading, slots
<1>5. CASE Release(a) \/ Publish(a)
  <2>1. ~Holds(a) /\ marks' = marks
    BY <1>5 DEF Release, Publish, Holds, Reading
  <2>2. pc'[a] \in {"idle", "request", "mark"}
    BY <1>0, <1>5, MissEffect, LeaveEffect DEF Release, Publish, Restarts, Left, First
  <2> QED
    BY <2>1, <2>2 DEF Holds, Reading
<1>6. CASE Mark(a)
  <2>1. ~Holds(a) /\ Slot(a) \in Table /\ pc[a] = "mark"
    BY <1>0, <1>6 DEF Mark, Holds, Reading
  <2>2. PICK b \in Bit :
          /\ marks' = [marks EXCEPT ![Slot(a)] = @ \cup {b}]
          /\ \/ /\ b \notin marks[Slot(a)]
                /\ mark' = [mark EXCEPT ![a] = [bit |-> b, low |-> used[Slot(a)]]]
                /\ Goto(a, IF used[Slot(a)] \in {ready, 3} THEN "readkey" ELSE "unmark")
                /\ UNCHANGED <<call, probe, expect, entry, got>>
             \/ b \in marks[Slot(a)] /\ Miss(a)
             \/ /\ b \in marks[Slot(a)]
                /\ UNCHANGED <<pc, call, probe, expect, mark, entry, got>>
    BY <1>6 DEF Mark
  <2>3. CASE b \in marks[Slot(a)]
    <3>1. marks' = marks
      BY <1>0, <2>1, <2>2, <2>3
    <3>2. pc'[a] \in {"idle", "request", "mark"}
      BY <1>0, <2>1, <2>2, <2>3, MissEffect DEF Restarts, Left, First
    <3> QED
      BY <2>1, <3>1, <3>2 DEF Holds, Reading
  <2>4. CASE b \notin marks[Slot(a)]
    <3>1. mark'[a].bit = b /\ pc'[a] \in {"readkey", "unmark"} /\ Slot(a)' = Slot(a)
      BY <1>0, <1>1, <2>2, <2>4 DEF Goto, Locals
    <3> QED
      BY <2>1, <2>2, <2>4, <3>1 DEF Holds, Reading
  <2> QED
    BY <2>3, <2>4
<1>7. CASE ReadKey(a) \/ ReadVal(a)
  BY <1>0, <1>1, <1>7 DEF ReadKey, ReadVal, Goto, Locals, Holds, Reading, slots
<1>8. CASE Unmark(a)
  <2>1. /\ Holds(a) /\ Slot(a) \in Table
        /\ marks' = [marks EXCEPT ![Slot(a)] = @ \ {mark[a].bit}]
    BY <1>0, <1>8 DEF Unmark, Holds, Reading
  <2>2. CASE Miss(a)
    BY <1>0, <2>1, <2>2, MissEffect DEF Restarts, Left, First, Holds, Reading
  <2>3. CASE Leave(a)
    BY <1>0, <2>1, <2>3, LeaveEffect DEF Left, Holds, Reading
  <2>4. CASE ~Miss(a) /\ ~Leave(a)
    <3>1. pc'[a] = "mark"
      BY <1>0, <1>8, <2>4 DEF Unmark, Goto, Locals
    <3> QED
      BY <2>1, <3>1 DEF Holds, Reading
  <2> QED
    BY <2>2, <2>3, <2>4
<1> QED
  BY <1>2, <1>3, <1>4, <1>5, <1>6, <1>7, <1>8 DEF Step

(* No step puts a second reader behind one mark.                           *)
LEMMA OneMarkStep ==
  ASSUME Words, NEW a \in Actor, Step(a), Remember
  PROVE  OneMark'
<1>1. /\ \A b \in Actor : Holds(b) => mark[b].bit \in marks[Slot(b)] /\ Slot(b) \in Table
      /\ \A s \in Table : \A x \in marks[s] :
           \E b \in Actor : Holds(b) /\ Slot(b) = s /\ mark[b].bit = x
      /\ \A b, c \in Actor : Holds(b) /\ Holds(c) /\ Slot(b) = Slot(c)
                             /\ mark[b].bit = mark[c].bit => b = c
      /\ marks \in [Table -> SUBSET Bit]
  BY OwnSlot DEF Words, OneMark, Holds, Reading, Typed, TypeOK
<1>2. \A b \in Actor \ {a} :
        Slot(b)' = Slot(b) /\ (Holds(b)' <=> Holds(b)) /\ mark'[b] = mark[b]
  BY OthersWords, StepElsewhere DEF Elsewhere, Words
<1>3. CASE /\ (Holds(a)' <=> Holds(a)) /\ marks' = marks
           /\ (Holds(a) => Slot(a)' = Slot(a) /\ mark'[a] = mark[a])
  BY <1>1, <1>2, <1>3 DEF OneMark
<1>4. CASE /\ ~Holds(a) /\ Holds(a)' /\ Slot(a) \in Table /\ Slot(a)' = Slot(a)
           /\ mark'[a].bit \notin marks[Slot(a)]
           /\ marks' = [marks EXCEPT ![Slot(a)] = @ \cup {mark'[a].bit}]
  BY <1>1, <1>2, <1>4 DEF OneMark
<1>5. CASE /\ Holds(a) /\ ~Holds(a)' /\ Slot(a) \in Table
           /\ marks' = [marks EXCEPT ![Slot(a)] = @ \ {mark[a].bit}]
  BY <1>1, <1>2, <1>5 DEF OneMark
<1> QED
  BY <1>3, <1>4, <1>5, HoldsStep

-----------------------------------------------------------------------------
(* Every step of a thread that sends no put keeps the words.               *)
LEMMA WordsStep ==
  ASSUME Words, NEW a \in Actor, Step(a), Remember
  PROVE  Words'
<1>1. Threads'
  BY OthersWords, OwnWords DEF Threads, Knows
<1> QED
  BY <1>1, TypedStep, OneWriterStep, OneMarkStep DEF Words

(* What a find may answer stays a set of values when no call changes.      *)
LEMMA CouldKept ==
  ASSUME Words, Remember, call' = call, val' \in [Table -> Value]
  PROVE  /\ could' \in [Actor -> SUBSET (Value \cup {NoValue})]
         /\ \A b \in Actor : call[b].op # "find" => could'[b] = {}
<1>1. ASSUME NEW b \in Actor, call[b].op = "find"
      PROVE  Values'[call[b].key] \in Value \cup {NoValue}
  <2>1. call[b] \in Ops
    BY <1>1, OpFields DEF Words, Typed, Copies
  <2> QED
    BY <2>1, OpFields, ValuesTypeNext
<1>2. could \in [Actor -> SUBSET (Value \cup {NoValue})]
  BY DEF Words, Typed, Copies
<1> QED
  BY <1>1, <1>2 DEF Remember

(* A put leaves every word alone: its thread goes on to ready the slot.    *)
LEMMA PutWords ==
  ASSUME Words, NEW a \in Actor, Put(a), Remember
  PROVE  Words'
<1>0. /\ Typed /\ Threads /\ OneWriter /\ OneMark /\ Locals
      /\ pc[a] = "setkey" /\ pc' = [pc EXCEPT ![a] = "publish"]
      /\ UNCHANGED <<used, marks, key, val, call, probe, expect, mark, entry, got, calls>>
  BY DEF Words, Put, Goto, Typed, TypeOK, Copies, Locals, Table
<1>1. \A b \in Actor : /\ pc'[b] = IF b = a THEN "publish" ELSE pc[b]
                       /\ Slot(b)' = Slot(b)
  BY <1>0 DEF Locals, Slot, SlotOf, get_probe
<1>2. \A b \in Actor : /\ (Writes(b)' <=> Writes(b)) /\ (Writing(b)' <=> Writing(b))
                       /\ (Holds(b)' <=> Holds(b)) /\ (Reading(b)' <=> Reading(b))
                       /\ (Finds(b)' <=> Finds(b)) /\ (Behind(b)' <=> Behind(b))
  BY <1>0, <1>1 DEF Writes, Writing, Holds, Reading, Finds, Behind, SlotOf, get_probe
<1>3. /\ could' \in [Actor -> SUBSET (Value \cup {NoValue})]
      /\ \A b \in Actor : call[b].op # "find" => could'[b] = {}
  BY <1>0, CouldKept DEF Typed, TypeOK
<1>4. Typed'
  <2>1. puts \subseteq Record /\ Write(a, {"key", "val"}) \in Record
    BY <1>0, WriteIs DEF Typed, TypeOK, Record
  <2>2. puts' \subseteq Record
    BY <2>1 DEF Put
  <2>3. home' \in Homes
    BY <1>0 DEF Typed, TypeOK, Remember
  <2> QED
    BY <1>0, <1>3, <2>2, <2>3 DEF Typed, TypeOK, Copies, Record
<1>5. Threads'
  <2> SUFFICES ASSUME NEW b \in Actor PROVE CallMatches(b)' /\ WordKnows(b)'
    BY DEF Threads
  <2>1. CallMatches(b) /\ WordKnows(b)
    BY <1>0 DEF Threads
  <2>2. CallMatches(b)'
    BY <1>0, <1>1, <1>2, <1>3, <2>1, OpFields DEF CallMatches
  <2> QED
    BY <1>0, <1>1, <1>2, <2>1, <2>2 DEF WordKnows
<1>6. OneWriter' /\ OneMark'
  BY <1>0, <1>1, <1>2 DEF OneWriter, OneMark
<1> QED
  BY <1>4, <1>5, <1>6 DEF Words

(* The words hold as long as the threads stand still.                      *)
LEMMA Still ==
  ASSUME Words, UNCHANGED <<used, marks, pc, call, probe, expect, mark, entry>>,
         \A b \in Actor : call[b].op # "find" => could'[b] = {}
  PROVE  Threads' /\ OneWriter' /\ OneMark'
<1> USE DEF Writing, Reading, Holds, Finds, Writes, Slot, SlotOf, get_probe
<1>1. Threads'
  <2> SUFFICES ASSUME NEW a \in Actor PROVE CallMatches(a)' /\ WordKnows(a)'
    BY DEF Threads
  <2>1. CallMatches(a) /\ WordKnows(a)
    BY DEF Words, Threads
  <2>2. CallMatches(a)'
    BY <2>1, OpFields DEF CallMatches
  <2>3. WordKnows(a)'
    BY <2>1 DEF WordKnows, Behind
  <2> QED
    BY <2>2, <2>3
<1>2. OneWriter' /\ OneMark'
  BY DEF Words, OneWriter, OneMark
<1> QED
  BY <1>1, <1>2

(* What the arrival of a part does.                                        *)
LEMMA LandIs ==
  ASSUME Words, NEW w \in puts, LandKey(w) \/ LandVal(w)
  PROVE  /\ w \in Record
         /\ \E part \in w.left :
              /\ puts' = (puts \ {w}) \cup {[w EXCEPT !.left = @ \ {part}]}
              /\ part \in {"key", "val"}
              /\ key' = IF part = "key" THEN [key EXCEPT ![w.slot] = w.key] ELSE key
              /\ val' = IF part = "val" THEN [val EXCEPT ![w.slot] = w.val] ELSE val
         /\ UNCHANGED <<used, marks, pc, call, probe, expect, mark, entry, got, calls>>
<1>1. w \in Record
  BY DEF Words, Typed, TypeOK, Record
<1>2. CASE LandKey(w)
  BY <1>1, <1>2 DEF LandKey, Landed
<1>3. CASE LandVal(w)
  BY <1>1, <1>3 DEF LandVal, Landed
<1> QED
  BY <1>2, <1>3

(* A put that arrives leaves every word alone.                             *)
LEMMA LandWords ==
  ASSUME Words, Land, Remember
  PROVE  Words'
<1>1. PICK w \in puts : LandKey(w) \/ LandVal(w)
  BY DEF Land
<1>2. PICK part \in w.left :
        /\ puts' = (puts \ {w}) \cup {[w EXCEPT !.left = @ \ {part}]}
        /\ part \in {"key", "val"}
        /\ key' = IF part = "key" THEN [key EXCEPT ![w.slot] = w.key] ELSE key
        /\ val' = IF part = "val" THEN [val EXCEPT ![w.slot] = w.val] ELSE val
  BY <1>1, LandIs
<1>3. /\ w \in Record
      /\ UNCHANGED <<used, marks, pc, call, probe, expect, mark, entry, got, calls>>
  BY <1>1, LandIs
<1>4. /\ puts \subseteq Record /\ home' \in Homes
      /\ key \in [Table -> Key \cup {NoKey}] /\ val \in [Table -> Value]
  BY DEF Words, Typed, TypeOK, Record, Remember
<1>5. [w EXCEPT !.left = @ \ {part}] \in Record
  BY <1>3 DEF Record
<1>6. w.key \in Key /\ w.val \in Value
  BY <1>3 DEF Record
<1>7. key' \in [Table -> Key \cup {NoKey}] /\ val' \in [Table -> Value]
  BY <1>2, <1>4, <1>6
<1>8. /\ could' \in [Actor -> SUBSET (Value \cup {NoValue})]
      /\ \A b \in Actor : call[b].op # "find" => could'[b] = {}
  BY <1>3, <1>7, CouldKept
<1>9. puts' \subseteq Record
  BY <1>2, <1>4, <1>5
<1>10. Typed'
  BY <1>3, <1>4, <1>7, <1>8, <1>9 DEF Words, Typed, TypeOK, Copies, Record
<1> QED
  BY <1>3, <1>8, <1>10, Still DEF Words

(* The words hold in the empty map.                                        *)
LEMMA InitWords ==
  ASSUME Init PROVE Words
<1>1. /\ free # reserved /\ free # ready /\ NoKey \notin Key
      /\ Default \in Value /\ 0 \in Table
  BY MapAssumption, TableOk DEF free, reserved, ready
<1>2. NoMark \in [bit : Bit, low : {free, reserved, ready}]
  BY MapAssumption DEF NoMark
<1>3. NoEntry \in [key : Key \cup {NoKey}, val : Value] /\ NoEntry.key = NoKey
  BY MapAssumption DEF NoEntry
<1>4. Typed
  <2>1. \A a \in Actor : 0 \in 0 .. MaxCalls[a]
    BY MapAssumption
  <2> QED
    BY <1>1, <1>2, <1>3, <2>1 DEF Init, Typed, TypeOK, Copies, Table
<1>5. Threads
  BY <1>3 DEF Init, Threads, CallMatches, WordKnows, Writes, Writing, Finds, Holds, Reading
<1>6. OneWriter /\ OneMark
  BY <1>1 DEF Init, OneWriter, OneMark, Writing, Holds, Reading
<1> QED
  BY <1>4, <1>5, <1>6 DEF Words

(* Every transition is a step of a thread, its put, or an arrival.         *)
LEMMA NextSteps ==
  Next <=> Remember /\ ((\E a \in Actor : Step(a) \/ Put(a)) \/ Land)
BY DEF Next, Step, Advance

(* Stuttering keeps the words.                                             *)
LEMMA WordsUnchanged ==
  ASSUME Words, UNCHANGED vars
  PROVE  Words'
<1>1. \A b \in Actor : call[b].op # "find" => could'[b] = {}
  <2> SUFFICES ASSUME NEW b \in Actor, call[b].op # "find" PROVE could[b] = {}
    BY DEF vars
  <2> QED
    BY DEF Words, Threads, CallMatches, Writes, Writing, Finds, Holds, Reading, Typed, TypeOK
<1>2. Typed'
  BY DEF vars, Words, Typed, TypeOK, Copies
<1> QED
  BY <1>1, <1>2, Still DEF Words, vars

(* Words, marks and calls fit together in every state, whatever is on its  *)
(* way.                                                                    *)
LEMMA WordsInvariant == Spec => []Words
<1>1. Words /\ [Next]_vars => Words'
  BY NextSteps, WordsStep, PutWords, LandWords, WordsUnchanged
<1> QED
  BY InitWords, <1>1, PTL DEF Spec

(* The state of slots and threads is of the declared types: no probe runs  *)
(* past the table and the low bits of a slot's word are never 3.           *)
THEOREM MapTypeCorrect == Spec => []TypeOK
<1>1. Words => TypeOK
  BY DEF Words, Typed
<1> QED
  BY WordsInvariant, <1>1, PTL

(* However the atomics on the words of slots interleave, a reserved slot   *)
(* has one thread in its writing code and none in its reading code. This   *)
(* is the reservation alone: a put it sent may arrive after it.            *)
THEOREM ReservedExclusive == Spec => []Exclusive
<1>1. ASSUME Words PROVE Exclusive
  <2>1. /\ \A a \in Actor : Writing(a) => used[Slot(a)] = reserved
        /\ \A s \in Table : used[s] = reserved =>
              \E a \in Actor : Writing(a) /\ Slot(a) = s
        /\ \A a, b \in Actor : Writing(a) /\ Writing(b) /\ Slot(a) = Slot(b) => a = b
    BY <1>1 DEF Words, OneWriter
  <2>2. \A a \in Actor : Reading(a) => used[Slot(a)] # reserved
    BY <1>1 DEF Words, Threads, WordKnows, Holds, reserved, ready
  <2> QED
    BY <2>1, <2>2 DEF Exclusive
<1> QED
  BY WordsInvariant, <1>1, PTL

(* The marks on a slot are those of the finds that have set one and not    *)
(* yet cleared it, and no two finds share one.                             *)
THEOREM MarksAreReaders == Spec => []MarksCounted
<1>1. ASSUME Words PROVE MarksCounted
  <2>1. /\ \A a \in Actor : Holds(a) => mark[a].bit \in marks[Slot(a)]
        /\ \A s \in Table : \A b \in marks[s] :
              \E a \in Actor : Holds(a) /\ Slot(a) = s /\ mark[a].bit = b
        /\ \A a, b \in Actor : Holds(a) /\ Holds(b) /\ Slot(a) = Slot(b)
                               /\ mark[a].bit = mark[b].bit => a = b
    BY <1>1 DEF Words, OneMark
  <2>2. ASSUME NEW s \in Table
        PROVE  marks[s] = {mark[a].bit : a \in {b \in Actor :
                              (Reading(b) \/ pc[b] = "unmark") /\ Slot(b) = s}}
    BY <2>1 DEF Holds
  <2> QED
    BY <2>1, <2>2 DEF MarksCounted, Holds
<1> QED
  BY WordsInvariant, <1>1, PTL

-----------------------------------------------------------------------------
(* Threads that write an entry, and threads that take the slot to have     *)
(* been written.                                                           *)
Edits(a) == pc[a] \in {"get", "setkey", "setval", "publish"}
Relies(a) == pc[a] \in {"check", "release", "publish"}
Given(s) == \E w \in puts : w.slot = s
Arrived(s) == {w \in puts : w.slot = s /\ "val" \notin w.left}

(* A slot is given one key only, the one of the thread that has it.        *)
OneName ==
  /\ \A s \in Table : \A j, k \in Names(s) : j = k
  /\ \A s \in Table : used[s] = free => Names(s) = {}
  /\ \A a \in Actor : Edits(a) => Names(Slot(a)) \subseteq {call[a].key}
  /\ \A a \in Actor : pc[a] = "setval" => key[Slot(a)] = call[a].key

(* The slots before it on the key's path are taken.                        *)
PathTaken ==
  \A s \in Table : \A k \in Names(s) :
    \E p \in Table : /\ SlotOf(k, p) = s
                     /\ \A q \in 0 .. p - 1 : used[SlotOf(k, q)] # free

(* What has arrived is there, and a slot is ready only for a write.        *)
Arrivals ==
  /\ \A w \in puts : "key" \notin w.left => key[w.slot] = w.key
  /\ \A s \in Table : Arrived(s) # {} => \E w \in Arrived(s) : val[s] = w.val
  /\ \A s \in Table : used[s] = ready => Given(s)
  /\ \A a \in Actor : Relies(a) => Given(Slot(a))

NameInv == Words /\ OneName /\ PathTaken /\ Arrivals
Move == Remember /\ ((\E a \in Actor : Step(a) \/ Put(a)) \/ Land)

(* The names of a slot, one by one.                                        *)
LEMMA NamesAre ==
  \A s, k : k \in Names(s) <=>
    k # NoKey /\ (key[s] = k \/ \E w \in puts : w.slot = s /\ w.key = k)
BY DEF Names

(* The same after a step.                                                  *)
LEMMA NamesAreNext ==
  \A s, k : k \in Names(s)' <=>
    k # NoKey /\ (key'[s] = k \/ \E w \in puts' : w.slot = s /\ w.key = k)
BY DEF Names

(* The writes of a thread name its slot and its key.                       *)
LEMMA WriteFields ==
  ASSUME Words, NEW a \in Actor, pc[a] \in {"setkey", "setval"}, NEW left
  PROVE  /\ Write(a, left).slot = Slot(a) /\ Write(a, left).key = call[a].key
         /\ Write(a, left).val = NewVal(a) /\ Write(a, left).left = left
         /\ Slot(a) \in Table /\ call[a].key \in Key /\ call[a].key # NoKey
BY OwnSlot DEF Words, Threads, WordKnows, Write

(* How a step of a thread changes the entries and the writes of them.      *)
LEMMA DataStep ==
  ASSUME Words, NEW a \in Actor, Step(a) \/ Put(a)
  PROVE  \/ UNCHANGED <<key, val, puts>> /\ ~SetKey(a) /\ ~SetVal(a) /\ ~Put(a)
         \/ /\ SetKey(a) /\ pc[a] = "setkey" /\ UNCHANGED <<val, puts>>
            /\ key' = [key EXCEPT ![Slot(a)] = call[a].key]
         \/ /\ SetVal(a) /\ pc[a] = "setval" /\ UNCHANGED key
            /\ val' = [val EXCEPT ![Slot(a)] = NewVal(a)]
            /\ puts' = puts \cup {Write(a, {})}
         \/ /\ Put(a) /\ pc[a] = "setkey" /\ UNCHANGED <<key, val>>
            /\ puts' = puts \cup {Write(a, {"key", "val"})}
<1>1. WordKnows(a)
  BY DEF Words, Threads
<1>2. CASE SetKey(a)
  BY <1>1, <1>2 DEF SetKey, WordKnows
<1>3. CASE SetVal(a)
  BY <1>3 DEF SetVal
<1>4. CASE Put(a)
  BY <1>4 DEF Put
<1> QED
  BY <1>2, <1>3, <1>4 DEF Step, Begin, Request, Check, Release, GetEntry, Publish, Mark,
     ReadKey, ReadVal, Unmark, slots

(* A slot that was taken is never free again, whatever happens.            *)
LEMMA TakenMove ==
  ASSUME Words, Move, NEW s \in Table, used[s] # free
  PROVE  used'[s] # free
<1>1. ASSUME NEW a \in Actor, Put(a) PROVE used' = used
  BY <1>1 DEF Put
<1>2. ASSUME Land PROVE used' = used
  BY <1>2 DEF Land, LandKey, LandVal
<1> QED
  BY <1>1, <1>2, Taken DEF Move

(* Where a thread that writes an entry comes from.                         *)
LEMMA EditsMove ==
  ASSUME Words, Move, NEW b \in Actor
  PROVE  /\ Edits(b)' =>
              /\ Slot(b)' = Slot(b) /\ call'[b].key = call[b].key /\ Slot(b) \in Table
              /\ \/ Edits(b)
                 \/ used[Slot(b)] = free
                 \/ pc[b] = "check" /\ key[Slot(b)] = call[b].key
         /\ pc'[b] = "setval" => pc[b] = "setval" \/ SetKey(b)
<1>0. Locals /\ Typed
  BY DEF Words, Typed, TypeOK, Copies, Locals, Table
<1>1. CASE \E a \in Actor \ {b} : Step(a) \/ Put(a)
  <2>1. pc'[b] = pc[b] /\ call'[b] = call[b] /\ probe'[b] = probe[b]
    BY <1>0, <1>1, StepElsewhere DEF Elsewhere, Put, Goto, Locals
  <2>2. Edits(b) => Slot(b) \in Table
    BY OwnSlot DEF Words, Edits
  <2> QED
    BY <2>1, <2>2 DEF Edits, Slot, SlotOf, get_probe
<1>2. CASE Land
  <2>1. pc' = pc /\ call' = call /\ probe' = probe
    BY <1>2 DEF Land, LandKey, LandVal
  <2>2. Edits(b) => Slot(b) \in Table
    BY OwnSlot DEF Words, Edits
  <2> QED
    BY <2>1, <2>2 DEF Edits, Slot, SlotOf, get_probe
<1>3. CASE Step(b) \/ Put(b)
  <2>1. pc[b] # "idle" => Slot(b) \in Table
    BY OwnSlot DEF Words
  <2>2. call'[b] = call[b] /\ probe'[b] = probe[b] => Slot(b)' = Slot(b)
    BY DEF Slot, SlotOf, get_probe
  <2>3. CASE Request(b)
    BY <1>0, <2>1, <2>2, <2>3 DEF Request, Reserve, Goto, Locals, Edits, free, ready
  <2>4. CASE Check(b)
    BY <1>0, <2>1, <2>2, <2>4 DEF Check, Goto, Locals, Edits
  <2>5. CASE GetEntry(b) \/ SetKey(b) \/ SetVal(b) \/ Put(b)
    BY <1>0, <2>1, <2>2, <2>5 DEF GetEntry, SetKey, SetVal, Put, Goto, Locals, Edits
  <2>6. CASE Begin(b)
    <3>1. pc'[b] \in {"mark", "request"}
      BY <1>0, <2>6 DEF Begin, Goto, Locals, First
    <3> QED
      BY <3>1 DEF Edits
  <2>7. CASE Release(b) \/ Publish(b)
    <3>1. pc'[b] \in {"idle", "request", "mark"}
      BY <1>0, <2>7, MissEffect, LeaveEffect DEF Release, Publish, Restarts, Left, First
    <3> QED
      BY <3>1 DEF Edits
  <2>8. CASE Mark(b) \/ ReadKey(b) \/ ReadVal(b) \/ Unmark(b)
    <3>1. pc'[b] \in {"idle", "request", "mark", "readkey", "readval", "unmark"}
      <4>1. CASE Miss(b) \/ Leave(b)
        BY <1>0, <4>1, MissEffect, LeaveEffect DEF Restarts, Left, First
      <4>2. CASE ~Miss(b) /\ ~Leave(b)
        BY <1>0, <2>8, <4>2 DEF Mark, ReadKey, ReadVal, Unmark, Goto, Locals
      <4> QED
        BY <4>1, <4>2
    <3> QED
      BY <3>1 DEF Edits
  <2> QED
    BY <1>3, <2>3, <2>4, <2>5, <2>6, <2>7, <2>8 DEF Step
<1> QED
  BY <1>1, <1>2, <1>3 DEF Move

(* Where a thread that relies on a write comes from.                       *)
LEMMA ReliesMove ==
  ASSUME Words, Move, NEW b \in Actor, Relies(b)'
  PROVE  /\ Slot(b)' = Slot(b) /\ Slot(b) \in Table
         /\ Relies(b) \/ used[Slot(b)] = ready \/ SetVal(b) \/ Put(b)
<1>0. Locals /\ Typed /\ free # ready
  BY DEF Words, Typed, TypeOK, Copies, Locals, Table, free, ready
<1>1. CASE \E a \in Actor \ {b} : Step(a) \/ Put(a)
  <2>1. pc'[b] = pc[b] /\ call'[b] = call[b] /\ probe'[b] = probe[b]
    BY <1>0, <1>1, StepElsewhere DEF Elsewhere, Put, Goto, Locals
  <2>2. Relies(b) => Slot(b) \in Table
    BY OwnSlot DEF Words, Relies
  <2> QED
    BY <2>1, <2>2 DEF Relies, Slot, SlotOf, get_probe
<1>2. CASE Land
  <2>1. pc' = pc /\ call' = call /\ probe' = probe
    BY <1>2 DEF Land, LandKey, LandVal
  <2>2. Relies(b) => Slot(b) \in Table
    BY OwnSlot DEF Words, Relies
  <2> QED
    BY <2>1, <2>2 DEF Relies, Slot, SlotOf, get_probe
<1>3. CASE Step(b) \/ Put(b)
  <2>1. pc[b] # "idle" => Slot(b) \in Table
    BY OwnSlot DEF Words
  <2>2. call'[b] = call[b] /\ probe'[b] = probe[b] => Slot(b)' = Slot(b)
    BY DEF Slot, SlotOf, get_probe
  <2>3. CASE Request(b)
    BY <1>0, <2>1, <2>2, <2>3 DEF Request, Reserve, Goto, Locals, Relies
  <2>4. CASE Check(b)
    BY <1>0, <2>1, <2>2, <2>4 DEF Check, Goto, Locals, Relies
  <2>5. CASE GetEntry(b) \/ SetKey(b) \/ SetVal(b) \/ Put(b)
    BY <1>0, <2>1, <2>2, <2>5 DEF GetEntry, SetKey, SetVal, Put, Goto, Locals, Relies
  <2>6. CASE Begin(b)
    <3>1. pc'[b] \in {"mark", "request"}
      BY <1>0, <2>6 DEF Begin, Goto, Locals, First
    <3> QED
      BY <3>1 DEF Relies
  <2>7. CASE Release(b) \/ Publish(b)
    <3>1. pc'[b] \in {"idle", "request", "mark"}
      BY <1>0, <2>7, MissEffect, LeaveEffect DEF Release, Publish, Restarts, Left, First
    <3> QED
      BY <3>1 DEF Relies
  <2>8. CASE Mark(b) \/ ReadKey(b) \/ ReadVal(b) \/ Unmark(b)
    <3>1. pc'[b] \in {"idle", "request", "mark", "readkey", "readval", "unmark"}
      <4>1. CASE Miss(b) \/ Leave(b)
        BY <1>0, <4>1, MissEffect, LeaveEffect DEF Restarts, Left, First
      <4>2. CASE ~Miss(b) /\ ~Leave(b)
        BY <1>0, <2>8, <4>2 DEF Mark, ReadKey, ReadVal, Unmark, Goto, Locals
      <4> QED
        BY <4>1, <4>2
    <3> QED
      BY <3>1 DEF Relies
  <2> QED
    BY <1>3, <2>3, <2>4, <2>5, <2>6, <2>7, <2>8 DEF Step
<1> QED
  BY <1>1, <1>2, <1>3 DEF Move

(* An arrival brings the slot no other key than it was given.              *)
LEMMA LandNames ==
  ASSUME NameInv, Land, NEW s \in Table
  PROVE  Names(s)' = Names(s) /\ (key[s] # NoKey => key'[s] = key[s])
<1>1. PICK w \in puts : LandKey(w) \/ LandVal(w)
  BY DEF Land
<1>2. PICK part \in w.left :
        /\ puts' = (puts \ {w}) \cup {[w EXCEPT !.left = @ \ {part}]}
        /\ key' = IF part = "key" THEN [key EXCEPT ![w.slot] = w.key] ELSE key
  BY <1>1, LandIs DEF NameInv
<1>3. w \in Record /\ key \in [Table -> Key \cup {NoKey}] /\ NoKey \notin Key
  BY <1>1, LandIs, MapAssumption DEF NameInv, Words, Typed, TypeOK
<1> DEFINE v == [w EXCEPT !.left = @ \ {part}]
<1>4. v.slot = w.slot /\ v.key = w.key /\ w.key \in Key /\ w.slot \in Table
  BY <1>3 DEF Record
<1>5. /\ key[s] # NoKey => key[s] \in Names(s)
      /\ s = w.slot => w.key \in Names(s)
      /\ \A j, k \in Names(s) : j = k
  BY <1>3, <1>4, NamesAre DEF NameInv, OneName
<1>6. key'[s] = key[s] \/ (s = w.slot /\ key'[s] = w.key)
  BY <1>2, <1>3
<1>7. key[s] # NoKey => key'[s] = key[s]
  BY <1>5, <1>6
<1>8. \A k : (\E x \in puts' : x.slot = s /\ x.key = k)
             <=> (\E x \in puts : x.slot = s /\ x.key = k)
  BY <1>2, <1>4
<1>9. ASSUME NEW k PROVE k \in Names(s)' <=> k \in Names(s)
  BY <1>3, <1>4, <1>5, <1>6, <1>7, <1>8, NamesAre, NamesAreNext
<1> QED
  BY <1>7, <1>9

(* A slot is given a key by the thread that has it, and only its key.      *)
LEMMA NamesMove ==
  ASSUME NameInv, Move, NEW s \in Table
  PROVE  /\ \/ Names(s)' = Names(s)
            \/ \E a \in Actor : /\ SetKey(a) \/ SetVal(a) \/ Put(a)
                                /\ s = Slot(a) /\ Edits(a) /\ Writing(a) /\ Writes(a)
                                /\ call[a].key \in Key
                                /\ Names(s)' \subseteq {call[a].key}
         /\ key[s] # NoKey => key'[s] = key[s]
<1>1. CASE Land
  BY <1>1, LandNames
<1>2. ASSUME NEW a \in Actor, Step(a) \/ Put(a)
      PROVE  /\ \/ Names(s)' = Names(s)
                \/ /\ SetKey(a) \/ SetVal(a) \/ Put(a)
                   /\ s = Slot(a) /\ Edits(a) /\ Writing(a) /\ Writes(a)
                   /\ call[a].key \in Key
                   /\ Names(s)' \subseteq {call[a].key}
             /\ key[s] # NoKey => key'[s] = key[s]
  <2>1. CASE UNCHANGED <<key, puts>>
    BY <2>1 DEF Names
  <2>2. CASE SetKey(a) \/ SetVal(a) \/ Put(a)
    <3>1. pc[a] \in {"setkey", "setval"} /\ Edits(a) /\ Writing(a) /\ Writes(a)
      BY <2>2 DEF SetKey, SetVal, Put, Edits, Writing, Writes
    <3>2. /\ \A left : /\ Write(a, left).slot = Slot(a)
                       /\ Write(a, left).key = call[a].key
          /\ Slot(a) \in Table /\ call[a].key \in Key /\ call[a].key # NoKey
      BY <3>1, WriteFields DEF NameInv
    <3>3. Names(Slot(a)) \subseteq {call[a].key}
      BY <3>1 DEF NameInv, OneName
    <3>4. key \in [Table -> Key \cup {NoKey}]
      BY DEF NameInv, Words, Typed, TypeOK
    <3>5. /\ key' = key \/ key' = [key EXCEPT ![Slot(a)] = call[a].key]
          /\ puts' = puts \/ \E left : puts' = puts \cup {Write(a, left)}
      BY <1>2, DataStep DEF NameInv
    <3>6. key[s] # NoKey => key'[s] = key[s]
      BY <3>2, <3>3, <3>4, <3>5, NamesAre
    <3>7. CASE s = Slot(a)
      <4>1. \A k : k \in Names(s)' => k \in Names(s) \/ k = call[a].key
        BY <3>2, <3>4, <3>5, <3>7, NamesAre, NamesAreNext
      <4> QED
        BY <2>2, <3>1, <3>2, <3>3, <3>6, <3>7, <4>1
    <3>8. CASE s # Slot(a)
      <4>1. key'[s] = key[s]
        BY <3>4, <3>5, <3>8
      <4>2. \A k : (\E w \in puts' : w.slot = s /\ w.key = k)
                   <=> (\E w \in puts : w.slot = s /\ w.key = k)
        BY <3>2, <3>5, <3>8
      <4>3. \A k : k \in Names(s)' <=> k \in Names(s)
        BY <4>1, <4>2, NamesAre, NamesAreNext
      <4> QED
        BY <3>6, <4>3
    <3> QED
      BY <3>7, <3>8
  <2> QED
    BY <1>2, <2>1, <2>2, DataStep DEF NameInv
<1> QED
  BY <1>1, <1>2 DEF Move

(* Every step keeps a slot to one key.                                     *)
LEMMA OneNameMove ==
  ASSUME NameInv, Move
  PROVE  OneName'
<1>0. Words /\ OneName
  BY DEF NameInv
<1>1. ASSUME NEW s \in Table PROVE \A j, k \in Names(s)' : j = k
  BY <1>0, NamesMove DEF OneName
<1>2. ASSUME NEW s \in Table, used'[s] = free PROVE Names(s)' = {}
  <2>1. used[s] = free /\ Names(s) = {}
    BY <1>0, <1>2, TakenMove DEF OneName
  <2>2. ASSUME NEW a \in Actor, Writing(a), s = Slot(a) PROVE FALSE
    BY <1>0, <2>1, <2>2 DEF Words, OneWriter, free, reserved
  <2> QED
    BY <2>1, <2>2, NamesMove
<1>3. ASSUME NEW b \in Actor, Edits(b)' PROVE Names(Slot(b))' \subseteq {call'[b].key}
  <2>1. /\ Slot(b)' = Slot(b) /\ call'[b].key = call[b].key /\ Slot(b) \in Table
        /\ Edits(b) \/ used[Slot(b)] = free \/ (pc[b] = "check" /\ key[Slot(b)] = call[b].key)
    BY <1>0, <1>3, EditsMove
  <2>2. Names(Slot(b)) \subseteq {call[b].key}
    <3>1. CASE pc[b] = "check" /\ key[Slot(b)] = call[b].key
      <4>1. call[b].key # NoKey
        BY <1>0, <3>1, OwnSlot DEF Words
      <4>2. call[b].key \in Names(Slot(b))
        BY <3>1, <4>1, NamesAre
      <4> QED
        BY <1>0, <2>1, <4>2 DEF OneName
    <3> QED
      BY <1>0, <2>1, <3>1 DEF OneName
  <2>3. ASSUME NEW a \in Actor, Slot(b) = Slot(a), Edits(a), Writing(a) PROVE a = b
    <3>1. used[Slot(b)] = reserved /\ free # reserved
      BY <1>0, <2>3 DEF Words, OneWriter, free, reserved
    <3>2. Writing(b)
      BY <2>1, <3>1 DEF Edits, Writing
    <3> QED
      BY <1>0, <2>3, <3>2 DEF Words, OneWriter
  <2>4. \A s \in Table : s = Slot(b) => Names(s)' \subseteq {call[b].key}
    BY <2>1, <2>2, <2>3, NamesMove
  <2> QED
    BY <2>1, <2>4 DEF Names
<1>4. ASSUME NEW b \in Actor, pc'[b] = "setval" PROVE key'[Slot(b)'] = call'[b].key
  <2>1. Edits(b)' /\ (pc[b] = "setval" \/ SetKey(b))
    BY <1>0, <1>4, EditsMove DEF Edits
  <2>2. Slot(b)' = Slot(b) /\ call'[b].key = call[b].key /\ Slot(b) \in Table
    BY <1>0, <2>1, EditsMove
  <2>3. CASE pc[b] = "setval"
    <3>1. key[Slot(b)] = call[b].key /\ call[b].key # NoKey
      BY <1>0, <2>3, OwnSlot DEF Words, OneName
    <3> QED
      BY <2>2, <3>1, NamesMove
  <2>4. CASE SetKey(b)
    <3>1. entry[b].key = call[b].key /\ key \in [Table -> Key \cup {NoKey}]
      BY <1>0, <2>4 DEF Words, Threads, WordKnows, SetKey, Typed, TypeOK
    <3> QED
      BY <2>2, <2>4, <3>1 DEF SetKey
  <2> QED
    BY <2>1, <2>3, <2>4
<1>5. \A s \in Table : (\A j, k \in Names(s)' : j = k) /\ (used'[s] = free => Names(s)' = {})
  BY <1>1, <1>2
<1>6. \A b \in Actor : /\ Edits(b)' => Names(Slot(b))' \subseteq {call'[b].key}
                       /\ pc'[b] = "setval" => key'[Slot(b)'] = call'[b].key
  BY <1>3, <1>4
<1> QED
  BY <1>5, <1>6 DEF OneName, Names, Slot, SlotOf, get_probe, Edits

(* Every step keeps the paths taken.                                       *)
LEMMA PathTakenMove ==
  ASSUME NameInv, Move
  PROVE  PathTaken'
<1>0. Words /\ OneName /\ PathTaken /\ \A s \in Table : Names(s) \subseteq Key
  <2>1. puts \subseteq Record /\ key \in [Table -> Key \cup {NoKey}]
    BY DEF NameInv, Words, Typed, TypeOK, Record
  <2> QED
    BY <2>1, NamesAre DEF NameInv, Record
<1>1. ASSUME NEW x \in Key, NEW q \in Nat, used[SlotOf(x, q)] # free
      PROVE  used'[SlotOf(x, q)] # free
  BY <1>0, <1>1, SlotInTable, TakenMove
<1>2. ASSUME NEW s \in Table, NEW k \in Names(s)'
      PROVE  \E p \in Table : /\ SlotOf(k, p) = s
                              /\ \A q \in 0 .. p - 1 : used'[SlotOf(k, q)] # free
  <2>1. CASE k \in Names(s)
    <3>1. PICK p \in Table : /\ SlotOf(k, p) = s
                             /\ \A q \in 0 .. p - 1 : used[SlotOf(k, q)] # free
      BY <1>0, <2>1 DEF PathTaken
    <3>2. k \in Key /\ \A q \in 0 .. p - 1 : q \in Nat
      BY <1>0, <2>1, TableOk
    <3> QED
      BY <1>1, <3>1, <3>2
  <2>2. CASE k \notin Names(s)
    <3>1. PICK a \in Actor : /\ s = Slot(a) /\ Writes(a) /\ k = call[a].key
                             /\ call[a].key \in Key
      BY <1>2, <2>2, NamesMove
    <3>2. Behind(a) /\ probe[a] \in Table
      BY <1>0, <3>1 DEF Words, Threads, WordKnows, Typed, TypeOK, Table
    <3>3. \A q \in 0 .. probe[a] - 1 : q \in Nat /\ used[SlotOf(k, q)] # free
      BY <3>1, <3>2, TableOk DEF Behind
    <3>4. \A q \in 0 .. probe[a] - 1 : used'[SlotOf(k, q)] # free
      BY <1>1, <3>1, <3>3
    <3> QED
      BY <3>1, <3>2, <3>4 DEF Slot
  <2> QED
    BY <2>1, <2>2
<1> QED
  BY <1>2 DEF PathTaken, Names, SlotOf, get_probe

(* No write is forgotten.                                                  *)
LEMMA GivenMove ==
  ASSUME Words, Move, NEW s \in Table, Given(s)
  PROVE  Given(s)'
<1>1. CASE Land
  <2>1. PICK w \in puts : LandKey(w) \/ LandVal(w)
    BY <1>1 DEF Land
  <2>2. /\ w \in Record
        /\ \E part : puts' = (puts \ {w}) \cup {[w EXCEPT !.left = @ \ {part}]}
    BY <2>1, LandIs
  <2>3. \A part : [w EXCEPT !.left = @ \ {part}].slot = w.slot
    BY <2>2 DEF Record
  <2> QED
    BY <2>2, <2>3 DEF Given
<1>2. CASE \E a \in Actor : Step(a) \/ Put(a)
  <2>1. puts \subseteq puts'
    BY <1>2, DataStep
  <2> QED
    BY <2>1 DEF Given
<1> QED
  BY <1>1, <1>2 DEF Move

(* A slot turns ready only when its thread flips the word.                 *)
LEMMA ReadyMove ==
  ASSUME Words, Move, NEW s \in Table, used'[s] = ready, used[s] # ready
  PROVE  \E a \in Actor : Relies(a) /\ s = Slot(a)
<1>0. used \in [Table -> {free, reserved, ready}] /\ reserved # ready
  BY DEF Words, Typed, TypeOK, reserved, ready
<1>1. used' # used
  BY <1>0
<1>2. PICK a \in Actor : Step(a) \/ Put(a)
  BY <1>1 DEF Move, Land, LandKey, LandVal
<1>3. CASE Request(a)
  BY <1>0, <1>3 DEF Request, Reserve
<1>4. CASE Release(a) \/ Publish(a)
  BY <1>0, <1>4 DEF Release, Publish, Flip, Relies
<1> QED
  BY <1>1, <1>2, <1>3, <1>4 DEF Step, Begin, Check, GetEntry, SetKey, SetVal, Put, Mark,
     ReadKey, ReadVal, Unmark, slots

(* The arrival of a part of a write shows in the entry.                    *)
LEMMA LandArrivals ==
  ASSUME NameInv, Land
  PROVE  /\ \A w \in puts' : "key" \notin w.left => key'[w.slot] = w.key
         /\ \A s \in Table : Arrived(s)' # {} => \E w \in Arrived(s)' : val'[s] = w.val
<1>1. PICK w \in puts : LandKey(w) \/ LandVal(w)
  BY DEF Land
<1>2. PICK part \in w.left :
        /\ puts' = (puts \ {w}) \cup {[w EXCEPT !.left = @ \ {part}]}
        /\ part \in {"key", "val"}
        /\ key' = IF part = "key" THEN [key EXCEPT ![w.slot] = w.key] ELSE key
        /\ val' = IF part = "val" THEN [val EXCEPT ![w.slot] = w.val] ELSE val
  BY <1>1, LandIs DEF NameInv
<1>3. /\ w \in Record /\ puts \subseteq Record /\ NoKey \notin Key
      /\ key \in [Table -> Key \cup {NoKey}] /\ val \in [Table -> Value]
      /\ \A x \in puts : "key" \notin x.left => key[x.slot] = x.key
      /\ \A s \in Table : Arrived(s) # {} => \E x \in Arrived(s) : val[s] = x.val
  BY <1>1, LandIs, MapAssumption DEF NameInv, Arrivals, Words, Typed, TypeOK, Record
<1> DEFINE v == [w EXCEPT !.left = @ \ {part}]
<1>4. /\ v.slot = w.slot /\ v.key = w.key /\ v.val = w.val /\ v.left = w.left \ {part}
      /\ w.slot \in Table /\ w.key \in Key
  BY <1>3 DEF Record
<1>5. ASSUME NEW x \in puts', "key" \notin x.left PROVE key'[x.slot] = x.key
  <2>1. CASE x \in puts
    <3>1. key[x.slot] = x.key /\ x.slot \in Table /\ x.key \in Key
      BY <1>3, <1>5, <2>1 DEF Record
    <3> QED
      BY <1>3, <3>1, LandNames
  <2>2. CASE x = v
    BY <1>1, <1>2, <1>3, <1>4, <1>5, <2>2
  <2> QED
    BY <1>2, <2>1, <2>2
<1>6. ASSUME NEW s \in Table, Arrived(s)' # {}
      PROVE  \E x \in Arrived(s)' : val'[s] = x.val
  <2>1. CASE part = "val" /\ s = w.slot
    <3>1. v \in Arrived(s)'
      BY <1>2, <1>4, <2>1 DEF Arrived
    <3>2. val'[s] = v.val
      BY <1>2, <1>3, <1>4, <2>1
    <3> QED
      BY <3>1, <3>2
  <2>2. CASE ~(part = "val" /\ s = w.slot)
    <3>1. val'[s] = val[s]
      BY <1>2, <1>3, <1>4, <2>2
    <3>2. \A x \in Arrived(s)' : x \in Arrived(s) \/ (x = v /\ w \in Arrived(s))
      BY <1>1, <1>2, <1>4, <2>2 DEF Arrived
    <3>3. PICK x \in Arrived(s) : val[s] = x.val
      BY <1>3, <1>6, <3>2
    <3>4. CASE x = w
      <4>1. v \in Arrived(s)'
        BY <1>2, <1>4, <3>3, <3>4 DEF Arrived
      <4> QED
        BY <1>4, <3>1, <3>3, <3>4, <4>1
    <3>5. CASE x # w
      <4>1. x \in Arrived(s)'
        BY <1>2, <3>3, <3>5 DEF Arrived
      <4> QED
        BY <3>1, <3>3, <4>1
    <3> QED
      BY <3>4, <3>5
  <2> QED
    BY <2>1, <2>2
<1> QED
  BY <1>5, <1>6

(* So does what a thread writes in its own rank.                           *)
LEMMA StepArrivals ==
  ASSUME NameInv, Move, NEW a \in Actor, Step(a) \/ Put(a)
  PROVE  /\ \A w \in puts' : "key" \notin w.left => key'[w.slot] = w.key
         /\ \A s \in Table : Arrived(s)' # {} => \E w \in Arrived(s)' : val'[s] = w.val
<1>0. /\ Words /\ NoKey \notin Key /\ puts \subseteq Record
      /\ key \in [Table -> Key \cup {NoKey}] /\ val \in [Table -> Value]
      /\ \A w \in puts : "key" \notin w.left => key[w.slot] = w.key
      /\ \A s \in Table : Arrived(s) # {} => \E w \in Arrived(s) : val[s] = w.val
  BY MapAssumption DEF NameInv, Arrivals, Words, Typed, TypeOK, Record
<1>1. \A w \in puts : "key" \notin w.left => key'[w.slot] = w.key
  <2> SUFFICES ASSUME NEW w \in puts, "key" \notin w.left PROVE key'[w.slot] = w.key
    OBVIOUS
  <2>1. key[w.slot] = w.key /\ w.slot \in Table /\ w.key \in Key
    BY <1>0 DEF Record
  <2> QED
    BY <1>0, <2>1, NamesMove
<1>2. pc[a] \in {"setkey", "setval"} =>
        /\ \A left : /\ Write(a, left).slot = Slot(a) /\ Write(a, left).key = call[a].key
                     /\ Write(a, left).val = NewVal(a) /\ Write(a, left).left = left
        /\ Slot(a) \in Table
  BY <1>0, WriteFields
<1>3. CASE UNCHANGED <<val, puts>>
  BY <1>0, <1>1, <1>3 DEF Arrived
<1>4. CASE SetVal(a)
  <2>1. /\ key' = key /\ val' = [val EXCEPT ![Slot(a)] = NewVal(a)]
        /\ puts' = puts \cup {Write(a, {})} /\ pc[a] = "setval"
    BY <1>4 DEF SetVal
  <2>2. key[Slot(a)] = call[a].key
    BY <2>1 DEF NameInv, OneName
  <2>3. ASSUME NEW s \in Table, Arrived(s)' # {}
        PROVE  \E w \in Arrived(s)' : val'[s] = w.val
    <3>1. CASE s = Slot(a)
      <4>1. Write(a, {}) \in Arrived(s)' /\ val'[s] = Write(a, {}).val
        BY <1>0, <1>2, <2>1, <3>1 DEF Arrived
      <4> QED
        BY <4>1
    <3>2. CASE s # Slot(a)
      <4>1. Arrived(s)' = Arrived(s) /\ val'[s] = val[s]
        BY <1>0, <1>2, <2>1, <3>2 DEF Arrived
      <4> QED
        BY <1>0, <2>3, <4>1
    <3> QED
      BY <3>1, <3>2
  <2> QED
    BY <1>1, <1>2, <2>1, <2>2, <2>3
<1>5. CASE Put(a)
  <2>1. UNCHANGED <<key, val>> /\ puts' = puts \cup {Write(a, {"key", "val"})}
        /\ pc[a] = "setkey"
    BY <1>5 DEF Put
  <2>2. \A s \in Table : Arrived(s)' = Arrived(s)
    BY <1>2, <2>1 DEF Arrived
  <2> QED
    BY <1>0, <1>1, <1>2, <2>1, <2>2
<1> QED
  BY <1>0, <1>3, <1>4, <1>5, DataStep

(* Every step keeps what has arrived.                                      *)
LEMMA ArrivalsMove ==
  ASSUME NameInv, Move
  PROVE  Arrivals'
<1>0. Words /\ Arrivals
  BY DEF NameInv
<1>1. /\ \A w \in puts' : "key" \notin w.left => key'[w.slot] = w.key
      /\ \A s \in Table : Arrived(s)' # {} => \E w \in Arrived(s)' : val'[s] = w.val
  BY LandArrivals, StepArrivals DEF Move
<1>2. ASSUME NEW s \in Table, used'[s] = ready PROVE Given(s)'
  <2>1. Given(s)
    BY <1>0, <1>2, ReadyMove DEF Arrivals
  <2> QED
    BY <1>0, <2>1, GivenMove
<1>3. ASSUME NEW b \in Actor, Relies(b)' PROVE \E w \in puts' : w.slot = Slot(b)'
  <2>1. /\ Slot(b)' = Slot(b) /\ Slot(b) \in Table
        /\ Relies(b) \/ used[Slot(b)] = ready \/ SetVal(b) \/ Put(b)
    BY <1>0, <1>3, ReliesMove
  <2>2. CASE SetVal(b) \/ Put(b)
    <3>1. /\ pc[b] \in {"setkey", "setval"} /\ \E left : Write(b, left) \in puts'
      BY <2>2 DEF SetVal, Put
    <3>2. \A left : Write(b, left).slot = Slot(b)
      BY <1>0, <3>1, WriteFields
    <3> QED
      BY <2>1, <3>1, <3>2
  <2>3. CASE Relies(b) \/ used[Slot(b)] = ready
    <3>1. \A s \in Table : s = Slot(b) => Given(s)
      BY <1>0, <2>3 DEF Arrivals
    <3>2. \A s \in Table : s = Slot(b) => Given(s)'
      BY <1>0, <3>1, GivenMove
    <3> QED
      BY <2>1, <3>2 DEF Given
  <2> QED
    BY <2>1, <2>2, <2>3
<1> QED
  BY <1>1, <1>2, <1>3 DEF Arrivals, Given, Arrived, Relies, Slot, SlotOf, get_probe

(* The names and arrivals hold in the empty map.                           *)
LEMMA InitNames ==
  ASSUME Init PROVE OneName /\ PathTaken /\ Arrivals
<1>1. \A s \in Table : Names(s) = {} /\ Arrived(s) = {} /\ used[s] # ready
  BY NamesAre DEF Init, Arrived, free, ready
<1>2. \A a \in Actor : ~Edits(a) /\ ~Relies(a) /\ pc[a] # "setval"
  BY DEF Init, Edits, Relies
<1>3. puts = {}
  BY DEF Init
<1> QED
  BY <1>1, <1>2, <1>3 DEF OneName, PathTaken, Arrivals

(* Stuttering keeps them.                                                  *)
LEMMA NamesUnchanged ==
  ASSUME NameInv, UNCHANGED vars
  PROVE  NameInv'
<1>1. OneName'
  <2>1. \A b \in Actor : (Edits(b)' <=> Edits(b)) /\ Slot(b)' = Slot(b)
    BY DEF vars, Edits, Slot, SlotOf, get_probe
  <2>2. \A s : Names(s)' = Names(s)
    BY DEF vars, Names
  <2>3. \A b \in Actor : Names(Slot(b))' = Names(Slot(b))
    BY <2>1 DEF vars, Names
  <2> QED
    BY <2>1, <2>2, <2>3 DEF vars, NameInv, OneName
<1>2. PathTaken'
  BY DEF vars, NameInv, PathTaken, Names, SlotOf, get_probe
<1>3. Arrivals'
  BY DEF vars, NameInv, Arrivals, Arrived, Given, Relies, Slot, SlotOf, get_probe
<1> QED
  BY <1>1, <1>2, <1>3, WordsUnchanged DEF NameInv

(* Every step keeps the words, the names and the arrivals.                 *)
LEMMA NameInvMove ==
  ASSUME NameInv, Move
  PROVE  NameInv'
<1>1. Words'
  BY WordsStep, PutWords, LandWords DEF NameInv, Move
<1> QED
  BY <1>1, OneNameMove, PathTakenMove, ArrivalsMove DEF NameInv

(* One key for a slot, its path taken and its writes kept: in every state. *)
LEMMA NamesInvariant == Spec => []NameInv
<1>1. Init => NameInv
  BY InitWords, InitNames DEF NameInv
<1>2. NameInv /\ [Next]_vars => NameInv'
  BY NextSteps, NameInvMove, NamesUnchanged DEF Move
<1> QED
  BY <1>1, <1>2, PTL DEF Spec

(* No put, however late it arrives and whatever was written after it,      *)
(* turns a slot over to another key.                                       *)
THEOREM LatePutsKeepKeys == Spec => SlotKeepsKey
<1>1. NameInv /\ [Next]_vars =>
        [\A s \in Table : key[s] # NoKey => key'[s] = key[s]]_vars
  BY NextSteps, NamesMove DEF Move
<1> QED
  BY NamesInvariant, <1>1, PTL DEF Spec, SlotKeepsKey

(* When nothing is on its way to a ready slot, its entry is one that a     *)
(* call wrote there: a barrier leaves no slot empty or torn between keys.  *)
THEOREM BarrierSettles == Spec => []Settled
<1>1. ASSUME NameInv PROVE Settled
  <2> SUFFICES ASSUME NEW s \in Table, used[s] = ready,
                      \A w \in puts : w.slot = s => w.left = {}
               PROVE  /\ \E w \in {x \in puts : x.slot = s} : val[s] = w.val
                      /\ \A w \in {x \in puts : x.slot = s} : key[s] = w.key
    BY DEF Settled
  <2>1. Arrived(s) # {} /\ Arrived(s) = {x \in puts : x.slot = s}
    BY <1>1 DEF NameInv, Arrivals, Arrived, Given
  <2> QED
    BY <1>1, <2>1 DEF NameInv, Arrivals
<1> QED
  BY NamesInvariant, <1>1, PTL

-----------------------------------------------------------------------------
(* Where all writes are local: what a writer knows of the entries of its   *)
(* slot and of those it has left behind.                                   *)
Passed(a) == \A q \in 0 .. probe[a] - 1 :
               key[SlotOf(call[a].key, q)] \in Key \ {call[a].key}
WriterKnows(a) ==
  /\ Writes(a) => Passed(a)
  /\ pc[a] \in {"check", "release"} => key[Slot(a)] \in Key
  /\ pc[a] = "release" => key[Slot(a)] # call[a].key
  /\ pc[a] \in {"get", "setkey"} =>
       key[Slot(a)] = IF expect[a] = free THEN NoKey ELSE call[a].key
  /\ pc[a] \in {"setval", "publish"} => key[Slot(a)] = call[a].key
  /\ pc[a] \in {"setkey", "setval"} => entry[a].val = val[Slot(a)]
  /\ pc[a] = "setval" /\ expect[a] = free => val[Slot(a)] = Default

(* What a find knows of the entry of the slot it has marked.               *)
ReaderKnows(a) ==
  /\ pc[a] \in {"mark", "readkey"} \/ (pc[a] = "unmark" /\ mark[a].low # ready) =>
       entry[a].key = NoKey
  /\ pc[a] = "readval" \/ (pc[a] = "unmark" /\ mark[a].low = ready) =>
       entry[a].key = key[Slot(a)]
  /\ pc[a] = "unmark" /\ mark[a].low = ready => entry[a].val = val[Slot(a)]
Data == \A a \in Actor : WriterKnows(a) /\ ReaderKnows(a)

(* What the state of a slot says of its entry.                             *)
Entries ==
  \A s \in Table : /\ used[s] = free => key[s] = NoKey
                   /\ used[s] = ready => key[s] \in Key
                   /\ key[s] = NoKey => val[s] = Default

(* A key is in one slot, and the slots before it on its path have keys.    *)
OneSlot == \A s, t \in Table : key[s] \in Key /\ key[s] = key[t] => s = t
Path == \A s \in Table : key[s] \in Key =>
          \E p \in Table : /\ SlotOf(key[s], p) = s
                           /\ \A q \in 0 .. p - 1 :
                                key[SlotOf(key[s], q)] \in Key \ {key[s]}

(* Nothing is on its way.                                                  *)
AllLanded == \A w \in puts : w.left = {}

SlotInv == NameInv /\ LocalWrites /\ AllLanded /\ Data /\ Entries /\ OneSlot /\ Path

(* What a find may answer: the present value, and nothing if the key may   *)
(* have been absent when it passed the slot the key is in now.             *)
Recalled ==
  \A a \in Actor : Finds(a) =>
    /\ Values[call[a].key] \in could[a]
    /\ \/ NoValue \in could[a]
       \/ \A q \in 0 .. probe[a] - 1 : key[SlotOf(call[a].key, q)] # call[a].key

MapInv == SlotInv /\ Recalled

-----------------------------------------------------------------------------
(* No put is sent where all writes are local.                              *)
LEMMA NoPut ==
  ASSUME SlotInv
  PROVE  ~Land /\ \A a \in Actor : ~Put(a)
<1>1. ~Land
  BY DEF SlotInv, AllLanded, Land, LandKey, LandVal
<1>2. ASSUME NEW a \in Actor, Put(a) PROVE FALSE
  <2>1. /\ call[a] \in Ops /\ call[a].op # "find"
        /\ call[a] \in Calls[a] \cup {NoCall} /\ probe[a] \in Table
    BY <1>2 DEF Put, SlotInv, NameInv, Words, Threads, CallMatches, Writes, Writing, Typed,
       TypeOK, Table
  <2>2. SlotOf(call[a].key, probe[a]) \in home[a]
    BY <2>1, OpFields DEF SlotInv, LocalWrites
  <2> QED
    BY <1>2, <2>2 DEF Put, Slot
<1> QED
  BY <1>1, <1>2

(* A key stays where it is, and a slot that was taken is never free again. *)
LEMMA Stable ==
  ASSUME SlotInv, NEW a \in Actor, Step(a), Remember, NEW s \in Table
  PROVE  /\ key[s] \in Key => key'[s] = key[s]
         /\ used[s] # free => used'[s] # free
BY NamesMove, Taken, MapAssumption DEF SlotInv, NameInv, Move

(* What a step of a thread keeps, and its words.                           *)
LEMMA WordsKept ==
  ASSUME SlotInv, NEW a \in Actor, Step(a), Remember
  PROVE  NameInv' /\ Words'
BY NameInvMove DEF SlotInv, NameInv, Move

(* A step of one thread keeps what another knows of entries.               *)
LEMMA OthersData ==
  ASSUME SlotInv, NEW a \in Actor, Step(a), Remember, NEW b \in Actor \ {a}
  PROVE  WriterKnows(b)' /\ ReaderKnows(b)'
<1>0. Words
  BY DEF SlotInv, NameInv
<1>1. /\ pc'[b] = pc[b] /\ call'[b] = call[b] /\ probe'[b] = probe[b]
      /\ expect'[b] = expect[b] /\ mark'[b] = mark[b] /\ entry'[b] = entry[b]
  BY <1>0, StepElsewhere DEF Elsewhere, Words
<1>2. /\ Slot(b)' = Slot(b) /\ (Writes(b)' = Writes(b)) /\ (Writing(b)' = Writing(b))
      /\ (Holds(b)' = Holds(b)) /\ (Reading(b)' = Reading(b)) /\ (Finds(b)' = Finds(b))
  BY <1>1 DEF Slot, SlotOf, Writes, Writing, Holds, Reading, Finds
<1>3. WordKnows(b) /\ WriterKnows(b) /\ ReaderKnows(b)
  BY <1>0 DEF SlotInv, Words, Threads, Data
<1>4. WriterKnows(b)'
  <2>1. Writes(b) => Passed(b)'
    <3> SUFFICES ASSUME Writes(b), NEW q \in 0 .. probe[b] - 1
                 PROVE  key'[SlotOf(call[b].key, q)] \in Key \ {call[b].key}
      BY <1>1 DEF Passed, SlotOf, get_probe
    <3>1. key[SlotOf(call[b].key, q)] \in Key \ {call[b].key}
      BY <1>3 DEF WriterKnows, Passed
    <3>2. q \in 0 .. probe[b] /\ pc[b] # "idle"
      BY <1>0, TableOk DEF Words, Typed, TypeOK, Table, Writes, Writing
    <3>3. SlotOf(call[b].key, q) \in Table
      BY <1>0, <3>2, OwnSlot DEF Words
    <3> QED
      BY <3>1, <3>3, Stable
  <2>2. Writing(b) => Same(Slot(b))
    BY <1>0, Untouched
  <2>3. Writing(b) => WriterKnows(b)'
    BY <1>1, <1>2, <1>3, <2>1, <2>2 DEF WriterKnows, Same, Writing, Writes
  <2>4. ~Writing(b) => WriterKnows(b)'
    BY <1>1, <1>2, <2>1 DEF WriterKnows, Writing, Writes
  <2> QED
    BY <2>3, <2>4
<1>5. ReaderKnows(b)'
  <2>1. CASE Holds(b) /\ mark[b].low # reserved
    BY <1>0, <1>1, <1>2, <1>3, <2>1, Untouched DEF ReaderKnows, Same, Holds, Reading
  <2>2. CASE ~Holds(b) \/ mark[b].low = reserved
    BY <1>1, <1>2, <1>3, <2>2
       DEF ReaderKnows, WordKnows, Holds, Reading, reserved, ready
  <2> QED
    BY <2>1, <2>2
<1> QED
  BY <1>4, <1>5

-----------------------------------------------------------------------------
(* What a thread knows of entries after its own step.                      *)
Informed(a) == WriterKnows(a) /\ ReaderKnows(a)

(* A thread that returned need know nothing of an entry.                   *)
LEMMA LeftData ==
  ASSUME NEW a \in Actor, Left(a)
  PROVE  Informed(a)'
BY DEF Left, Informed, WriterKnows, ReaderKnows, Writes, Writing

(* A thread at its next slot knows that the one before holds another key.  *)
LEMMA MissedData ==
  ASSUME SlotInv, NEW a \in Actor, Step(a), Restarts(a), Remember, Writes(a) \/ Finds(a),
         Writes(a) => key[Slot(a)] \in Key \ {call[a].key}
  PROVE  Informed(a)'
<1>0. Words
  BY DEF SlotInv, NameInv
<1>1. CallMatches(a) /\ WriterKnows(a) /\ pc[a] # "idle" /\ probe[a] \in Nat
  BY <1>0, TableOk DEF SlotInv, Words, Threads, Data, Writes, Writing, Finds, Holds,
     Reading, Typed, TypeOK, Table
<1>2. CASE Writes(a)
  <2>1. call[a].op \in {"insert", "modify"}
    BY <1>1, <1>2 DEF CallMatches
  <2>2. pc'[a] = "request" /\ call'[a] = call[a]
    BY <2>1 DEF Restarts, First
  <2>3. Passed(a)'
    <3> SUFFICES ASSUME NEW q \in 0 .. probe'[a] - 1
                 PROVE  key'[SlotOf(call[a].key, q)] \in Key \ {call[a].key}
      BY <2>2 DEF Passed, SlotOf, get_probe
    <3>0. q \in 0 .. probe[a]
      BY <1>1 DEF Restarts
    <3>1. key[SlotOf(call[a].key, q)] \in Key \ {call[a].key}
      BY <1>1, <1>2, <3>0 DEF WriterKnows, Slot, Passed
    <3>2. SlotOf(call[a].key, q) \in Table
      BY <1>0, <1>1, <3>0, OwnSlot DEF Words
    <3> QED
      BY <3>1, <3>2, Stable
  <2> QED
    BY <2>2, <2>3 DEF Informed, WriterKnows, ReaderKnows
<1>3. CASE Finds(a)
  <2>1. call[a].op = "find"
    BY <1>1, <1>3 DEF CallMatches
  <2>2. pc'[a] = "mark" /\ entry'[a].key = NoKey
    BY <2>1 DEF Restarts, First, NoEntry
  <2> QED
    BY <2>2 DEF Informed, WriterKnows, ReaderKnows, Writes, Writing
<1> QED
  BY <1>2, <1>3

(* A step that stays in the same call at the same slot.                    *)
LEMMA SameData ==
  ASSUME SlotInv, NEW a \in Actor, Step(a), Remember, pc[a] # "idle",
         call'[a] = call[a], probe'[a] = probe[a]
  PROVE  /\ Slot(a)' = Slot(a) /\ Slot(a) \in Table
         /\ Writes(a) => Passed(a)'
<1>0. Words
  BY DEF SlotInv, NameInv
<1>1. WriterKnows(a) /\ Slot(a) \in Table /\ Slot(a)' = Slot(a)
  BY <1>0, SameCall DEF SlotInv, Data
<1>2. Writes(a) => Passed(a)'
  <2> SUFFICES ASSUME Writes(a), NEW q \in 0 .. probe[a] - 1
               PROVE  key'[SlotOf(call[a].key, q)] \in Key \ {call[a].key}
    BY DEF Passed, SlotOf, get_probe
  <2>1. key[SlotOf(call[a].key, q)] \in Key \ {call[a].key}
    BY <1>1 DEF WriterKnows, Passed
  <2>2. q \in 0 .. probe[a]
    BY <1>0, TableOk DEF Words, Typed, TypeOK, Table
  <2>3. SlotOf(call[a].key, q) \in Table
    BY <1>0, <2>2, OwnSlot DEF Words
  <2> QED
    BY <2>1, <2>3, Stable
<1> QED
  BY <1>1, <1>2

(* What the thread that steps knows of its entry is true after it.         *)
LEMMA OwnData ==
  ASSUME SlotInv, NEW a \in Actor, Step(a), Remember
  PROVE  Informed(a)'
<1>0. /\ Words /\ Typed /\ CallMatches(a) /\ WordKnows(a) /\ WriterKnows(a) /\ ReaderKnows(a)
      /\ used[Slot(a)] = reserved \/ ~Writing(a)
  BY DEF SlotInv, NameInv, Words, Threads, Data, OneWriter
<1>1. /\ used \in [Table -> {free, reserved, ready}] /\ marks \in [Table -> SUBSET Bit]
      /\ key \in [Table -> Key \cup {NoKey}] /\ val \in [Table -> Value] /\ Locals
      /\ NoKey \notin Key
  BY <1>0, MapAssumption DEF Typed, TypeOK, Copies, Locals, Table
<1>5. \A s \in Table : /\ (used[s] = free => key[s] = NoKey)
                       /\ (used[s] = ready => key[s] \in Key)
  BY DEF SlotInv, NameInv, Words, Entries
<1>2. CASE Begin(a)
  <2>1. PICK c \in Calls[a] : call'[a] = c /\ pc'[a] = First(c.op)
    BY <1>1, <1>2 DEF Begin, Goto, Locals
  <2>2. /\ c \in Ops /\ probe'[a] = 0 /\ expect'[a] = free /\ entry'[a].key = NoKey
    BY <1>0, <1>2, <2>1, MapAssumption DEF Begin, CallMatches
  <2>3. c.op # "find" => could'[a] = {}
    BY <2>1 DEF Remember
  <2>4. Passed(a)'
    BY <2>2 DEF Passed
  <2>5. WriterKnows(a)'
    BY <2>1, <2>2, <2>4 DEF WriterKnows, First, free, ready
  <2> QED
    BY <2>1, <2>2, <2>3, <2>5, OpFields DEF Informed, ReaderKnows, First, Writes,
       Writing, Finds, Holds, Reading
<1>3. CASE Request(a)
  <2>1. /\ pc[a] = "request" /\ call'[a] = call[a] /\ probe'[a] = probe[a]
        /\ key' = key /\ UNCHANGED entry
    BY <1>3 DEF Request
  <2>2. Slot(a)' = Slot(a) /\ Slot(a) \in Table /\ Passed(a)'
    BY <2>1, SameData DEF Writes
  <2>3. CASE Reserve(a)
    <3>1. /\ used[Slot(a)] = expect[a] /\ expect'[a] = expect[a]
          /\ pc'[a] = IF expect[a] = free THEN "get" ELSE "check"
      BY <1>1, <2>3 DEF Reserve, Goto, Locals
    <3>2. /\ used[Slot(a)] = free => key[Slot(a)] = NoKey
          /\ used[Slot(a)] = ready => key[Slot(a)] \in Key
      BY <1>5, <2>2
    <3>3. expect[a] \in {free, ready} /\ free # ready
      BY <1>1 DEF Locals, free, ready
    <3>5. WriterKnows(a)'
      BY <2>1, <2>2, <3>1, <3>2, <3>3 DEF WriterKnows, Writes, Writing
    <3> QED
      BY <2>1, <2>2, <3>1, <3>5 DEF Informed, ReaderKnows, Writes, Writing, Holds,
         Reading
  <2>4. CASE ~Reserve(a)
    <3>1. used[Slot(a)] # free /\ used' = used /\ pc'[a] = "request"
      BY <1>3, <2>4 DEF Request
    <3>2. WriterKnows(a)'
      BY <2>1, <2>2, <3>1 DEF WriterKnows
    <3> QED
      BY <2>2, <3>1, <3>2 DEF Informed, ReaderKnows, Writes, Writing, Holds, Reading
  <2> QED
    BY <2>3, <2>4
<1>4. CASE Check(a)
  <2>1. /\ pc[a] = "check" /\ call'[a] = call[a] /\ probe'[a] = probe[a] /\ key' = key
        /\ pc'[a] = IF key[Slot(a)] = call[a].key THEN "get" ELSE "release"
        /\ expect'[a] = expect[a]
    BY <1>1, <1>4 DEF Check, Goto, Locals, slots
  <2>2. Slot(a)' = Slot(a) /\ Passed(a)'
    BY <2>1, SameData DEF Writes, Writing
  <2>3. expect[a] = ready /\ key[Slot(a)] \in Key /\ free # ready
    BY <1>0, <2>1 DEF WriterKnows, free, ready, WordKnows
  <2>4. WriterKnows(a)'
    BY <2>1, <2>2, <2>3 DEF WriterKnows
  <2> QED
    BY <2>1, <2>2, <2>4 DEF Informed, ReaderKnows, Writes, Writing, Holds, Reading
<1>6. CASE Release(a)
  <2>1. pc[a] = "release" /\ Miss(a) /\ Writes(a)
    BY <1>6 DEF Release, Writes, Writing
  <2>2. key[Slot(a)] \in Key \ {call[a].key}
    BY <1>0, <2>1 DEF WriterKnows, WordKnows
  <2> QED
    BY <1>0, <2>1, <2>2, MissEffect, MissedData, LeftData
<1>7. CASE GetEntry(a)
  <2>1. /\ pc[a] = "get" /\ call'[a] = call[a] /\ probe'[a] = probe[a] /\ key' = key
        /\ val' = val /\ pc'[a] = "setkey" /\ expect'[a] = expect[a]
        /\ entry'[a] = [key |-> call[a].key, val |-> val[Slot(a)]]
    BY <1>1, <1>7 DEF GetEntry, Goto, Locals, slots
  <2>2. Slot(a)' = Slot(a) /\ Passed(a)'
    BY <2>1, SameData DEF Writes, Writing
  <2>3. WriterKnows(a)'
    BY <1>0, <2>1, <2>2 DEF WriterKnows
  <2> QED
    BY <2>1, <2>2, <2>3 DEF Informed, ReaderKnows, Writes, Writing, Holds, Reading
<1>8. CASE SetKey(a)
  <2>1. /\ pc[a] = "setkey" /\ call'[a] = call[a] /\ probe'[a] = probe[a]
        /\ val' = val /\ pc'[a] = "setval" /\ expect'[a] = expect[a]
        /\ entry'[a] = entry[a] /\ key' = [key EXCEPT ![Slot(a)] = entry[a].key]
    BY <1>1, <1>8 DEF SetKey, Goto, Locals
  <2>2. /\ Slot(a)' = Slot(a) /\ Slot(a) \in Table /\ Passed(a)'
    BY <2>1, SameData DEF Writes, Writing
  <2>3. /\ entry[a].key = call[a].key /\ entry[a].val = val[Slot(a)]
        /\ expect[a] = free => key[Slot(a)] = NoKey
    BY <1>0, <2>1 DEF WriterKnows, WordKnows
  <2>4. key'[Slot(a)] = call[a].key
    BY <1>1, <2>1, <2>2, <2>3
  <2>5. expect[a] = free => val[Slot(a)] = Default
    BY <2>2, <2>3 DEF SlotInv, NameInv, Words, Entries
  <2>6. WriterKnows(a)'
    BY <2>1, <2>2, <2>3, <2>4, <2>5 DEF WriterKnows
  <2> QED
    BY <2>1, <2>2, <2>6 DEF Informed, ReaderKnows, Writes, Writing, Holds, Reading
<1>9. CASE SetVal(a)
  <2>1. /\ pc[a] = "setval" /\ call'[a] = call[a] /\ probe'[a] = probe[a]
        /\ key' = key /\ pc'[a] = "publish"
    BY <1>1, <1>9 DEF SetVal, Goto, Locals
  <2>2. Slot(a)' = Slot(a) /\ Passed(a)'
    BY <2>1, SameData DEF Writes, Writing
  <2>3. WriterKnows(a)'
    BY <1>0, <2>1, <2>2 DEF WriterKnows
  <2> QED
    BY <2>1, <2>2, <2>3 DEF Informed, ReaderKnows, Writes, Writing, Holds, Reading
<1>10. CASE Publish(a)
  BY <1>0, <1>10, LeaveEffect, LeftData DEF Publish
<1>11. CASE Mark(a)
  <2>1. pc[a] = "mark" /\ Finds(a) /\ ~Writes(a) /\ key' = key /\ used' = used
    BY <1>11 DEF Mark, Finds, Writes, Writing
  <2>2. Slot(a) \in Table /\ entry[a].key = NoKey
    BY <1>0, <2>1, OwnSlot DEF ReaderKnows, Words
  <2>3. PICK b \in Bit :
          \/ /\ mark' = [mark EXCEPT ![a] = [bit |-> b, low |-> used[Slot(a)]]]
             /\ Goto(a, IF used[Slot(a)] \in {ready, 3} THEN "readkey" ELSE "unmark")
             /\ UNCHANGED <<call, probe, expect, entry, got>>
          \/ Miss(a)
          \/ UNCHANGED <<pc, call, probe, expect, mark, entry, got>>
    BY <1>11 DEF Mark
  <2>4. CASE Miss(a)
    BY <1>0, <2>1, <2>4, MissEffect, MissedData, LeftData
  <2>5. CASE UNCHANGED <<pc, call, probe, expect, mark, entry, got>>
    <3>1. Slot(a)' = Slot(a)
      BY <2>1, <2>5, SameData
    <3> QED
      BY <2>1, <2>2, <2>5, <3>1 DEF Informed, WriterKnows, ReaderKnows, Writes, Writing,
         Finds, Holds, Reading
  <2>6. CASE /\ mark' = [mark EXCEPT ![a] = [bit |-> b, low |-> used[Slot(a)]]]
             /\ Goto(a, IF used[Slot(a)] \in {ready, 3} THEN "readkey" ELSE "unmark")
             /\ UNCHANGED <<call, probe, expect, entry, got>>
    <3>1. Slot(a)' = Slot(a)
      BY <2>1, <2>6, SameData
    <3>2. used[Slot(a)] \in {ready, 3} <=> used[Slot(a)] = ready
      BY <1>1, <2>2 DEF free, reserved, ready
    <3>3. /\ mark'[a].low = used[Slot(a)]
          /\ pc'[a] = IF used[Slot(a)] = ready THEN "readkey" ELSE "unmark"
      BY <1>1, <2>6, <3>2 DEF Goto, Locals
    <3> QED
      BY <2>1, <2>2, <2>6, <3>1, <3>3 DEF Informed, WriterKnows, ReaderKnows, Writes,
         Writing, Finds, Holds, Reading
  <2> QED
    BY <2>3, <2>4, <2>5, <2>6
<1>12. CASE ReadKey(a)
  <2>1. /\ pc[a] = "readkey" /\ call'[a] = call[a] /\ probe'[a] = probe[a] /\ key' = key
        /\ used' = used /\ pc'[a] = "readval" /\ mark' = mark
        /\ entry'[a].key = key[Slot(a)]
    BY <1>1, <1>12 DEF ReadKey, Goto, Locals, slots
  <2>2. Slot(a)' = Slot(a)
    BY <2>1, SameData DEF Finds, Holds, Reading
  <2> QED
    BY <1>0, <2>1, <2>2 DEF Informed, WriterKnows, ReaderKnows, Writes, Writing, Finds,
       Holds, Reading
<1>13. CASE ReadVal(a)
  <2>1. /\ pc[a] = "readval" /\ call'[a] = call[a] /\ probe'[a] = probe[a] /\ key' = key
        /\ val' = val /\ used' = used /\ pc'[a] = "unmark" /\ mark' = mark
        /\ entry'[a].key = entry[a].key /\ entry'[a].val = val[Slot(a)]
    BY <1>1, <1>13 DEF ReadVal, Goto, Locals, slots
  <2>2. Slot(a)' = Slot(a)
    BY <2>1, SameData DEF Finds, Holds, Reading
  <2> QED
    BY <1>0, <2>1, <2>2 DEF Informed, WriterKnows, WordKnows, ReaderKnows, Writes,
       Writing, Finds, Holds, Reading
<1>14. CASE Unmark(a)
  <2>1. pc[a] = "unmark" /\ Finds(a) /\ ~Writes(a) /\ key' = key /\ used' = used
    BY <1>14 DEF Unmark, Finds, Holds, Writes, Writing
  <2>2. CASE Miss(a)
    BY <1>0, <2>1, <2>2, MissEffect, MissedData, LeftData
  <2>3. CASE Leave(a)
    BY <1>0, <2>3, LeaveEffect, LeftData
  <2>4. CASE ~Miss(a) /\ ~Leave(a)
    <3>1. /\ mark[a].low = reserved /\ pc'[a] = "mark" /\ call'[a] = call[a]
          /\ probe'[a] = probe[a] /\ entry' = entry
      BY <1>1, <1>14, <2>4 DEF Unmark, Goto, Locals
    <3>2. Slot(a)' = Slot(a)
      BY <2>1, <3>1, SameData
    <3>3. entry[a].key = NoKey
      BY <1>0, <2>1, <3>1 DEF ReaderKnows, reserved, ready, WordKnows
    <3> QED
      BY <3>1, <3>2, <3>3 DEF Informed, WriterKnows, ReaderKnows, Writes, Writing,
         Finds, Holds, Reading
  <2> QED
    BY <2>2, <2>3, <2>4
<1> QED
  BY <1>2, <1>3, <1>4, <1>6, <1>7, <1>8, <1>9, <1>10, <1>11, <1>12, <1>13, <1>14
     DEF Step
-----------------------------------------------------------------------------
(* How a step changes the entries.                                         *)
LEMMA EntryStep ==
  ASSUME SlotInv, NEW a \in Actor, Step(a)
  PROVE  \/ key' = key /\ val' = val
         \/ /\ SetKey(a) /\ Slot(a) \in Table /\ val' = val
            /\ key' = [key EXCEPT ![Slot(a)] = call[a].key]
            /\ key[Slot(a)] \in {NoKey, call[a].key} /\ call[a].key \in Key
         \/ /\ SetVal(a) /\ Slot(a) \in Table /\ key' = key /\ key[Slot(a)] \in Key
            /\ val' = [val EXCEPT ![Slot(a)] = NewVal(a)]
<1>1. /\ WriterKnows(a) /\ WordKnows(a)
      /\ (pc[a] # "idle" => Slot(a) \in Table /\ call[a].key \in Key)
  BY OwnSlot DEF SlotInv, NameInv, Words, Threads, Data
<1>2. CASE SetKey(a)
  <2>1. key[Slot(a)] \in {NoKey, call[a].key} /\ entry[a].key = call[a].key
    BY <1>1, <1>2 DEF SetKey, WriterKnows, WordKnows
  <2> QED
    BY <1>1, <1>2, <2>1 DEF SetKey
<1>3. CASE SetVal(a)
  BY <1>1, <1>3 DEF SetVal, WriterKnows, WordKnows
<1> QED
  BY <1>2, <1>3 DEF Step, Begin, Request, Check, Release, GetEntry, Publish, Mark,
     ReadKey, ReadVal, Unmark, slots

(* A slot that was never reserved has no key.                              *)
LEMMA EntriesStep ==
  ASSUME SlotInv, NEW a \in Actor, Step(a), Remember
  PROVE  Entries'
<1> SUFFICES ASSUME NEW s \in Table
             PROVE  /\ used'[s] = free => key'[s] = NoKey
                    /\ used'[s] = ready => key'[s] \in Key
                    /\ key'[s] = NoKey => val'[s] = Default
  BY DEF Entries
<1>1. /\ used[s] = free => key[s] = NoKey
      /\ used[s] = ready => key[s] \in Key
      /\ key[s] = NoKey => val[s] = Default
      /\ key[s] \in Key => key'[s] = key[s]
      /\ used[s] # free => used'[s] # free
      /\ used[s] \in {free, reserved, ready} /\ key[s] \in Key \cup {NoKey}
      /\ NoKey \notin Key /\ free # reserved /\ free # ready /\ reserved # ready
  BY Stable, MapAssumption DEF SlotInv, NameInv, Words, Entries, Typed, TypeOK, free,
     reserved, ready
<1>2. /\ WriterKnows(a) /\ WordKnows(a) /\ (Writing(a) => used[Slot(a)] = reserved)
      /\ (pc[a] # "idle" => call[a].key \in Key)
      /\ used \in [Table -> {free, reserved, ready}] /\ key \in [Table -> Key \cup {NoKey}]
      /\ val \in [Table -> Value]
  BY OwnSlot DEF SlotInv, NameInv, Words, OneWriter, Threads, Data, Typed, TypeOK
<1>3. used'[s] = free => key'[s] = NoKey
  <2>1. CASE SetKey(a) /\ s = Slot(a)
    BY <1>1, <1>2, <2>1 DEF SetKey, Writing
  <2> QED
    BY <1>1, <1>2, <2>1, EntryStep
<1>4. used'[s] = ready => key'[s] \in Key
  <2>1. CASE used[s] # ready /\ used'[s] = ready
    <3>1. s = Slot(a) /\ (Release(a) \/ Publish(a))
      <4>1. ~Takes(a) /\ s = Slot(a) /\ Writing(a)
        <5>1. Takes(a) => used'[Slot(a)] # ready \/ s # Slot(a)
          BY <1>1, <1>2, <2>1 DEF Step, Begin, Request, Reserve, Check, Release,
             GetEntry, SetKey, SetVal, Publish, Mark, ReadKey, ReadVal, Unmark, Takes
        <5> QED
          BY <2>1, <5>1, StepSlots DEF SlotInv, NameInv, Words, Same
      <4> QED
        BY <2>1, <4>1 DEF Step, Begin, Request, Check, GetEntry, SetKey, SetVal, Mark,
           ReadKey, ReadVal, Unmark, Writing, slots
    <3>2. key[s] \in Key
      BY <1>2, <3>1 DEF Release, Publish, WriterKnows, WordKnows
    <3> QED
      BY <1>1, <3>2
  <2> QED
    BY <1>1, <2>1
<1>5. key'[s] = NoKey => val'[s] = Default
  BY <1>1, <1>2, EntryStep
<1> QED
  BY <1>3, <1>4, <1>5

(* The key of a thread that meets a slot without a key is in no slot.      *)
LEMMA Absent ==
  ASSUME SlotInv, NEW a \in Actor, Writes(a), key[Slot(a)] \notin Key,
         NEW t \in Table
  PROVE  key[t] # call[a].key
<1> SUFFICES ASSUME key[t] = call[a].key PROVE FALSE
  OBVIOUS
<1>1. call[a].key \in Key /\ Passed(a) /\ probe[a] \in Table
  BY OwnSlot DEF SlotInv, NameInv, Words, Threads, Data, WriterKnows, Writes, Writing,
     Typed, TypeOK, Table, WordKnows
<1>2. PICK p \in Table : /\ SlotOf(call[a].key, p) = t
                         /\ \A q \in 0 .. p - 1 :
                              key[SlotOf(call[a].key, q)] \in Key \ {call[a].key}
  BY <1>1 DEF SlotInv, NameInv, Words, Path
<1>3. p \in Nat /\ probe[a] \in Nat
  BY <1>1, TableOk
<1>4. CASE p < probe[a]
  BY <1>1, <1>2, <1>3, <1>4 DEF Passed
<1>5. CASE p = probe[a]
  BY <1>1, <1>2, <1>5 DEF Slot
<1>6. CASE p > probe[a]
  <2>1. probe[a] \in 0 .. p - 1
    BY <1>3, <1>6
  <2> QED
    BY <1>2, <2>1 DEF Slot
<1> QED
  BY <1>3, <1>4, <1>5, <1>6

(* A key stays in one slot, and the slots before it stay in use.           *)
LEMMA OneSlotStep ==
  ASSUME SlotInv, NEW a \in Actor, Step(a), Remember
  PROVE  OneSlot' /\ Path'
<1>0. OneSlot /\ Path
  BY DEF SlotInv, NameInv, Words
<1>1. CASE key' = key
  BY <1>0, <1>1 DEF OneSlot, Path, SlotOf, get_probe
<1>2. CASE key' # key
  <2>1. /\ SetKey(a) /\ Slot(a) \in Table /\ key[Slot(a)] \in {NoKey, call[a].key}
        /\ key' = [key EXCEPT ![Slot(a)] = call[a].key] /\ call[a].key \in Key
    BY <1>2, EntryStep
  <2>2. key \in [Table -> Key \cup {NoKey}] /\ NoKey \notin Key
    BY MapAssumption DEF SlotInv, NameInv, Words, Typed, TypeOK
  <2>3. key[Slot(a)] = NoKey
    BY <1>2, <2>1, <2>2
  <2>4. Writes(a) /\ Passed(a) /\ probe[a] \in Table
    BY <2>1 DEF SetKey, Writes, Writing, SlotInv, NameInv, Words, Threads, Data,
       WriterKnows, Typed, TypeOK, Table, WordKnows
  <2>5. \A t \in Table : key[t] # call[a].key
    BY <2>2, <2>3, <2>4, Absent
  <2>6. OneSlot'
    BY <1>0, <2>1, <2>2, <2>5 DEF OneSlot
  <2>7. ASSUME NEW x \in Key, NEW q \in Nat, key[SlotOf(x, q)] \in Key
        PROVE  key'[SlotOf(x, q)] = key[SlotOf(x, q)]
    BY <2>7, SlotInTable, Stable
  <2>8. ASSUME NEW s \in Table, key'[s] \in Key
        PROVE  \E p \in Table : /\ SlotOf(key'[s], p) = s
                                /\ \A q \in 0 .. p - 1 :
                                     key'[SlotOf(key'[s], q)] \in Key \ {key'[s]}
    <3>1. CASE s = Slot(a)
      <4>1. key'[s] = call[a].key /\ SlotOf(call[a].key, probe[a]) = s
        BY <2>1, <2>2, <3>1 DEF Slot
      <4>2. \A q \in 0 .. probe[a] - 1 : q \in Nat
        BY <2>4, TableOk
      <4>3. \A q \in 0 .. probe[a] - 1 :
              key'[SlotOf(call[a].key, q)] \in Key \ {call[a].key}
        BY <2>1, <2>4, <2>7, <4>2 DEF Passed
      <4> QED
        BY <2>4, <4>1, <4>3
    <3>2. CASE s # Slot(a)
      <4>1. key'[s] = key[s]
        BY <2>1, <2>2, <3>2
      <4>2. PICK p \in Table : /\ SlotOf(key[s], p) = s
                               /\ \A q \in 0 .. p - 1 :
                                    key[SlotOf(key[s], q)] \in Key \ {key[s]}
        BY <1>0, <2>8, <4>1 DEF Path
      <4>3. \A q \in 0 .. p - 1 : q \in Nat
        BY TableOk
      <4>4. \A q \in 0 .. p - 1 : key'[SlotOf(key[s], q)] \in Key \ {key[s]}
        BY <2>7, <2>8, <4>1, <4>2, <4>3
      <4> QED
        BY <4>1, <4>2, <4>4
    <3> QED
      BY <3>1, <3>2
  <2>9. Path'
    BY <2>8 DEF Path, SlotOf, get_probe
  <2> QED
    BY <2>6, <2>9
<1> QED
  BY <1>1, <1>2

(* Every step keeps the invariant of the entries.                          *)
LEMMA SlotInvStep ==
  ASSUME SlotInv, NEW a \in Actor, Step(a), Remember
  PROVE  SlotInv'
<1>1. Data'
  BY OthersData, OwnData DEF Data, Informed
<1>2. LocalWrites'
  BY DEF SlotInv, LocalWrites, Remember, SlotOf, get_probe
<1>3. AllLanded'
  <2>1. puts' = puts \/ (puts' = puts \cup {Write(a, {})} /\ pc[a] = "setval")
    BY NoPut, DataStep DEF SlotInv, NameInv
  <2>2. pc[a] = "setval" => Write(a, {}).left = {}
    BY WriteFields DEF SlotInv, NameInv
  <2> QED
    BY <2>1, <2>2 DEF SlotInv, AllLanded
<1> QED
  BY <1>1, <1>2, <1>3, WordsKept, EntriesStep, OneSlotStep DEF SlotInv

(* It holds in the empty map.                                              *)
LEMMA InitSlot ==
  ASSUME Init, LocalWrites PROVE SlotInv
<1>1. NoKey \notin Key /\ free # ready /\ NoEntry.key = NoKey
  BY MapAssumption DEF free, ready, NoEntry
<1>2. Data
  BY <1>1 DEF Init, Data, WriterKnows, ReaderKnows, Writes, Writing
<1>3. Entries /\ OneSlot /\ Path /\ AllLanded
  BY <1>1 DEF Init, Entries, OneSlot, Path, AllLanded
<1> QED
  BY <1>2, <1>3, InitWords, InitNames DEF SlotInv, NameInv

(* Every transition is then a step of a thread.                            *)
LEMMA LocalSteps ==
  ASSUME SlotInv, Next
  PROVE  \E a \in Actor : Step(a) /\ Remember
BY NextSteps, NoPut

(* Stuttering keeps it.                                                    *)
LEMMA SlotInvUnchanged ==
  ASSUME SlotInv, UNCHANGED vars
  PROVE  SlotInv'
<1>1. NameInv'
  BY NamesUnchanged DEF SlotInv
<1> USE DEF vars, Writing, Reading, Holds, Finds, Writes, Slot, SlotOf, get_probe
<1>2. Data'
  <2> SUFFICES ASSUME NEW a \in Actor PROVE WriterKnows(a)' /\ ReaderKnows(a)'
    BY DEF Data
  <2>1. WriterKnows(a) /\ ReaderKnows(a)
    BY DEF SlotInv, Data
  <2>2. WriterKnows(a)'
    BY <2>1 DEF WriterKnows, Passed
  <2>3. ReaderKnows(a)'
    BY <2>1 DEF ReaderKnows
  <2> QED
    BY <2>2, <2>3
<1>3. Entries' /\ OneSlot' /\ Path' /\ AllLanded' /\ LocalWrites'
  BY DEF SlotInv, Entries, OneSlot, Path, AllLanded, LocalWrites
<1> QED
  BY <1>1, <1>2, <1>3 DEF SlotInv

(* Where all writes are local, words, entries and calls fit together in    *)
(* every state.                                                            *)
LEMMA SlotInvariant == Spec => [](LocalWrites => SlotInv)
<1>1. Init => (LocalWrites => SlotInv)
  BY InitSlot
<1>2. (LocalWrites => SlotInv) /\ [Next]_vars => (LocalWrites => SlotInv)'
  <2>1. [Next]_vars => (LocalWrites' <=> LocalWrites)
    BY NextSteps DEF LocalWrites, Remember, vars, SlotOf, get_probe
  <2> QED
    BY <2>1, LocalSteps, SlotInvStep, SlotInvUnchanged
<1> QED
  BY <1>1, <1>2, PTL DEF Spec

(* A key that was given a slot is met there before any free slot; where    *)
(* all writes are local it has no other slot.                              *)
THEOREM StoredFindable == Spec => []Findable
<1>1. ASSUME NameInv, LocalWrites => SlotInv PROVE Findable
  <2>1. PathTaken
    BY <1>1 DEF NameInv
  <2>2. ASSUME LocalWrites, NEW s \in Table, NEW k \in Names(s) PROVE k \in Key /\ key[s] = k
    <3>1. SlotInv /\ key \in [Table -> Key \cup {NoKey}] /\ k # NoKey
      BY <1>1, <2>2, NamesAre DEF NameInv, Words, Typed, TypeOK
    <3>2. CASE key[s] = k
      BY <3>1, <3>2
    <3>3. CASE \E w \in puts : w.slot = s /\ w.key = k
      <4>1. PICK w \in puts : w.slot = s /\ w.key = k
        BY <3>3
      <4>2. "key" \notin w.left
        BY <3>1 DEF SlotInv, AllLanded
      <4>3. key[s] = k
        BY <1>1, <4>1, <4>2 DEF NameInv, Arrivals
      <4> QED
        BY <3>1, <4>3
    <3> QED
      BY <3>2, <3>3, NamesAre
  <2>3. ASSUME LocalWrites, NEW s \in Table, NEW t \in Table, Names(s) \cap Names(t) # {}
        PROVE  s = t
    <3>1. OneSlot
      BY <1>1, <2>3 DEF SlotInv
    <3> QED
      BY <2>2, <2>3, <3>1 DEF OneSlot
  <2> QED
    BY <2>1, <2>3 DEF Findable, PathTaken
<1> QED
  BY NamesInvariant, SlotInvariant, <1>1, PTL

-----------------------------------------------------------------------------
(* What Values says: the value of the one slot that holds the key, once    *)
(* its entry is complete.                                                  *)
LEMMA ValueThere ==
  ASSUME OneSlot, NEW s \in Table, key[s] \in Key, ~Fresh(s)
  PROVE  Values[key[s]] = val[s]
<1> DEFINE Here(t) == key[t] = key[s] /\ ~Fresh(t)
<1>1. \A t \in Table : Here(t) <=> t = s
  BY DEF OneSlot
<1>2. (CHOOSE t \in Table : Here(t)) = s
  BY <1>1
<1> QED
  BY <1>1, <1>2 DEF Values, Stored

(* After a step, the map holds the value of a slot that is not fresh.      *)
LEMMA ValueThereNext ==
  ASSUME OneSlot', NEW s \in Table, key'[s] \in Key, ~Fresh(s)'
  PROVE  Values'[key'[s]] = val'[s]
<1> DEFINE Here(t) == key'[t] = key'[s] /\ ~Fresh(t)'
<1>1. \A t \in Table : Here(t) <=> t = s
  BY DEF OneSlot, Fresh, Slot, SlotOf, get_probe
<1>2. (CHOOSE t \in Table : Here(t)) = s
  BY <1>1
<1>3. Values'[key'[s]] = IF \E t \in Table : Here(t)
                         THEN val'[CHOOSE t \in Table : Here(t)] ELSE NoValue
  BY DEF Values, Stored
<1> QED
  BY <1>1, <1>2, <1>3

(* A key that is in no slot, or in a fresh one, is not in the map.         *)
LEMMA ValueNone ==
  ASSUME NEW x \in Key, \A s \in Table : key[s] = x => Fresh(s)
  PROVE  Values[x] = NoValue
BY DEF Values, Stored

(* The same after a step.                                                  *)
LEMMA ValueNoneNext ==
  ASSUME NEW x \in Key, \A s \in Table : key'[s] = x => Fresh(s)'
  PROVE  Values'[x] = NoValue
BY DEF Values, Stored

(* A writer that inserts a new key.                                        *)
Inserts(a) == pc[a] \in {"get", "setkey", "setval"} /\ expect[a] = free

(* Except in SetVal, a thread goes on inserting, or reserves a slot        *)
(* without a key.                                                          *)
LEMMA InsertsStep ==
  ASSUME SlotInv, NEW a \in Actor, Step(a), Remember, ~SetVal(a)
  PROVE  \/ Inserts(a)' = Inserts(a) /\ (Inserts(a) => Slot(a)' = Slot(a))
         \/ ~Inserts(a) /\ key' = key /\ Slot(a)' = Slot(a) /\ key[Slot(a)] = NoKey
<1>0. /\ Words /\ Locals /\ Typed /\ WordKnows(a) /\ WriterKnows(a) /\ Entries
      /\ (pc[a] # "idle" => Slot(a) \in Table)
      /\ free # ready
  BY OwnSlot DEF SlotInv, NameInv, Words, Threads, Data, Typed, TypeOK, Copies, Locals,
     Table, free, ready
<1>1. call'[a] = call[a] /\ probe'[a] = probe[a] => Slot(a)' = Slot(a)
  BY DEF Slot, SlotOf, get_probe
<1>2. CASE Request(a) /\ Reserve(a)
  <2>1. CASE expect[a] = free
    BY <1>0, <1>1, <1>2, <2>1 DEF Request, Reserve, Inserts, Entries
  <2>2. CASE expect[a] # free
    BY <1>0, <1>2, <2>2 DEF Request, Reserve, Inserts, Goto, Locals
  <2> QED
    BY <2>1, <2>2
<1>3. CASE Request(a) /\ ~Reserve(a)
  BY <1>0, <1>3 DEF Request, Inserts
<1>4. CASE Check(a)
  BY <1>0, <1>4 DEF Check, Inserts, WriterKnows, slots, WordKnows
<1>5. CASE GetEntry(a) \/ SetKey(a)
  BY <1>0, <1>1, <1>5 DEF GetEntry, SetKey, Inserts, Goto, Locals, slots
<1>6. CASE Begin(a) \/ Release(a) \/ Publish(a) \/ Mark(a) \/ ReadKey(a) \/ ReadVal(a) \/ Unmark(a)
  <2>1. ~Inserts(a)
    BY <1>6 DEF Begin, Release, Publish, Mark, ReadKey, ReadVal, Unmark, Inserts
  <2>2. used \in [Table -> {free, reserved, ready}] /\ reserved # ready
    BY <1>0 DEF Typed, TypeOK, reserved, ready
  <2>3. CASE Release(a) \/ Publish(a)
    <3>1. Writing(a) /\ Flip(Slot(a)) /\ Slot(a) \in Table /\ used[Slot(a)] = reserved
      BY <1>0, <2>3 DEF Release, Publish, Writing, SlotInv, NameInv, Words, OneWriter
    <3>2. used' # used
      BY <2>2, <3>1 DEF Flip, reserved
    <3> QED
      BY <1>0, <2>1, <3>1, <3>2, WritingStep DEF Inserts, Writing
  <2>4. CASE ~Release(a) /\ ~Publish(a)
    <3>1. ~Writing(a) /\ used' = used
      BY <1>6, <2>4 DEF Begin, Mark, ReadKey, ReadVal, Unmark, Writing, slots
    <3>2. ~Writing(a)'
      BY <1>0, <2>2, <3>1, WritingStep
    <3> QED
      BY <2>1, <3>2 DEF Inserts, Writing
  <2> QED
    BY <2>3, <2>4
<1> QED
  BY <1>2, <1>3, <1>4, <1>5, <1>6 DEF Step

(* The fresh slots are those of the threads that insert.                   *)
LEMMA FreshAre ==
  \A s : Fresh(s) <=> \E a \in Actor : Inserts(a) /\ Slot(a) = s
BY DEF Fresh, Inserts

(* The same after a step.                                                  *)
LEMMA FreshAreNext ==
  \A s : Fresh(s)' <=> \E a \in Actor : Inserts(a)' /\ Slot(a)' = s
BY DEF Fresh, Inserts

(* Whether another thread inserts does not change.                         *)
LEMMA InsertsElsewhere ==
  ASSUME SlotInv, NEW a \in Actor, Step(a), Remember, NEW b \in Actor \ {a}
  PROVE  (Inserts(b)' <=> Inserts(b)) /\ Slot(b)' = Slot(b)
BY OthersWords, StepElsewhere DEF Elsewhere, Inserts, SlotInv, NameInv, Words

(* Only writing a value changes the map.                                   *)
LEMMA ValuesKept ==
  ASSUME SlotInv, SlotInv', NEW a \in Actor, Step(a), Remember, ~SetVal(a)
  PROVE  Values' = Values
<1>1. /\ \A s \in Table : key[s] \in Key => key'[s] = key[s]
      /\ key \in [Table -> Key \cup {NoKey}] /\ NoKey \notin Key /\ val' = val
      /\ OneSlot /\ OneSlot'
  BY Stable, EntryStep, MapAssumption DEF SlotInv, NameInv, Words, Typed, TypeOK
<1>2. \A s \in Table : key[s] \in Key => (Fresh(s)' <=> Fresh(s))
  BY <1>1, InsertsStep, InsertsElsewhere, FreshAre, FreshAreNext
<1>3. ASSUME NEW s \in Table, key'[s] \in Key, key[s] \notin Key
      PROVE  Fresh(s)'
  <2>1. SetKey(a) /\ s = Slot(a) /\ key' # key
    BY <1>1, <1>3, EntryStep
  <2>2. Inserts(a)
    BY <1>1, <1>3, <2>1, OwnSlot DEF SlotInv, NameInv, Words, Threads, Data,
       WriterKnows, SetKey, Inserts, WordKnows
  <2>3. Inserts(a)' /\ Slot(a)' = s
    BY <2>1, <2>2, InsertsStep
  <2> QED
    BY <2>3, FreshAreNext
<1>4. ASSUME NEW x \in Key PROVE Values'[x] = Values[x]
  <2>1. CASE \E s \in Table : key[s] = x /\ ~Fresh(s)
    <3>1. PICK s \in Table : key[s] = x /\ ~Fresh(s)
      BY <2>1
    <3>2. key'[s] = x /\ ~Fresh(s)'
      BY <1>1, <1>2, <3>1
    <3> QED
      BY <1>1, <3>1, <3>2, ValueThere, ValueThereNext
  <2>2. CASE \A s \in Table : key[s] = x => Fresh(s)
    <3>1. \A s \in Table : key'[s] = x => Fresh(s)'
      BY <1>1, <1>2, <1>3, <2>2
    <3> QED
      BY <2>2, <3>1, ValueNone, ValueNoneNext
  <2> QED
    BY <2>1, <2>2
<1> QED
  BY <1>4 DEF Values

(* Writing a value maps the key to it, from the value it had.              *)
LEMMA ValueSet ==
  ASSUME SlotInv, SlotInv', NEW a \in Actor, SetVal(a), Step(a), Remember
  PROVE  /\ call[a].key \in Key
         /\ entry[a].val = IF Values[call[a].key] = NoValue THEN Default
                                                           ELSE Values[call[a].key]
         /\ Values' = [Values EXCEPT ![call[a].key] = NewVal(a)]
<1> DEFINE new == NewVal(a)
<1>1. /\ Slot(a) \in Table /\ call[a].key \in Key /\ key[Slot(a)] = call[a].key
      /\ key' = key /\ val' = [val EXCEPT ![Slot(a)] = new] /\ pc[a] = "setval"
      /\ pc'[a] = "publish" /\ Slot(a)' = Slot(a)
      /\ entry[a].val = val[Slot(a)] /\ (expect[a] = free => val[Slot(a)] = Default)
  <2>1. pc[a] = "setval" /\ call' = call /\ probe' = probe /\ pc'[a] = "publish"
    BY DEF SetVal, Goto, SlotInv, NameInv, Words, Typed, TypeOK
  <2>2. WordKnows(a) /\ WriterKnows(a)
    BY DEF SlotInv, NameInv, Words, Threads, Data
  <2>3. entry[a].val = val[Slot(a)]
    BY <2>1, <2>2 DEF WriterKnows, WordKnows
  <2> QED
    BY <2>1, <2>2, <2>3, OwnSlot DEF SetVal, WriterKnows, SlotInv, NameInv, Words, Slot,
       SlotOf, get_probe, WordKnows
<1>2. /\ val \in [Table -> Value] /\ OneSlot /\ OneSlot' /\ NoValue \notin Value
      /\ expect[a] \in {free, ready} /\ NoKey \notin Key
      /\ key \in [Table -> Key \cup {NoKey}]
  BY MapAssumption DEF SlotInv, NameInv, Words, Typed, TypeOK
<1>3. \A b \in Actor : Inserts(b) /\ Slot(b) = Slot(a) => b = a
  BY <1>1 DEF SlotInv, NameInv, Words, OneWriter, Writing, Inserts
<1>4. ~Inserts(a)' /\ (Inserts(a) <=> expect[a] = free)
  BY <1>1 DEF Inserts
<1>5. \A s \in Table : s = Slot(a) => ~Fresh(s)' /\ (Fresh(s) <=> expect[a] = free)
  <2> SUFFICES ASSUME NEW s \in Table, s = Slot(a)
               PROVE  ~Fresh(s)' /\ (Fresh(s) <=> expect[a] = free)
    OBVIOUS
  <2>1. \A b \in Actor \ {a} : ~(Inserts(b)' /\ Slot(b)' = s)
    BY <1>3, InsertsElsewhere
  <2>2. ~Fresh(s)'
    BY <1>4, <2>1, FreshAreNext
  <2> QED
    BY <1>3, <1>4, <2>2, FreshAre
<1>6. Values[call[a].key] = IF expect[a] = free THEN NoValue ELSE val[Slot(a)]
  <2>1. CASE expect[a] = free
    <3>1. \A s \in Table : key[s] = call[a].key => Fresh(s)
      BY <1>1, <1>2, <1>5, <2>1 DEF OneSlot
    <3> QED
      BY <1>1, <2>1, <3>1, ValueNone
  <2>2. CASE expect[a] # free
    BY <1>1, <1>2, <1>5, <2>2, ValueThere
  <2> QED
    BY <2>1, <2>2
<1>7. Values'[call[a].key] = new
  BY <1>1, <1>2, <1>5, ValueThereNext
<1>8. ASSUME NEW x \in Key, x # call[a].key PROVE Values'[x] = Values[x]
  <2>1. \A s \in Table : key[s] = x => s # Slot(a) /\ val'[s] = val[s]
    BY <1>1, <1>2, <1>8
  <2>2. \A s \in Table : key[s] = x => (Fresh(s)' <=> Fresh(s))
    BY <1>1, <1>4, <2>1, FreshAre, FreshAreNext, InsertsElsewhere
  <2>3. CASE \E s \in Table : key[s] = x /\ ~Fresh(s)
    <3>1. PICK s \in Table : key[s] = x /\ ~Fresh(s)
      BY <2>3
    <3> QED
      BY <1>1, <1>2, <2>1, <2>2, <3>1, ValueThere, ValueThereNext
  <2>4. CASE \A s \in Table : key[s] = x => Fresh(s)
    BY <1>1, <2>2, <2>4, ValueNone, ValueNoneNext
  <2> QED
    BY <2>3, <2>4
<1>9. Values' = [Values EXCEPT ![call[a].key] = new]
  BY <1>1, <1>7, <1>8 DEF Values
<1> QED
  BY <1>1, <1>2, <1>6, <1>9

-----------------------------------------------------------------------------
(* The slots a find has left behind without its key.                       *)
Without(a) == \A q \in 0 .. probe[a] - 1 : key[SlotOf(call[a].key, q)] # call[a].key

(* How a find goes on.                                                     *)
LEMMA FindStep ==
  ASSUME SlotInv, NEW a \in Actor, Finds(a), Step(a)
  PROVE  /\ UNCHANGED <<used, key, val>>
         /\ \/ /\ call'[a] = call[a] /\ probe'[a] = probe[a] /\ Finds(a)' /\ got' = got
            \/ Restarts(a) /\ got' = got /\ key[Slot(a)] # call[a].key
            \/ /\ Left(a) /\ probe[a] + 1 >= Capacity
               /\ got' = [got EXCEPT ![a] = NoValue] /\ key[Slot(a)] # call[a].key
            \/ /\ Left(a) /\ got' = [got EXCEPT ![a] = val[Slot(a)]]
               /\ key[Slot(a)] = call[a].key /\ used[Slot(a)] = ready
<1>0. /\ Typed /\ Locals /\ WordKnows(a) /\ ReaderKnows(a)
      /\ call[a].op = "find" /\ call[a].key \in Key
      /\ Slot(a) \in Table /\ NoKey \notin Key
      /\ (used[Slot(a)] = free => key[Slot(a)] = NoKey)
  BY OwnSlot, MapAssumption DEF SlotInv, NameInv, Words, Threads, Data, CallMatches,
     Typed, TypeOK, Copies, Locals, Table, Entries, Finds, Holds, Reading
<1>1. Mark(a) \/ ReadKey(a) \/ ReadVal(a) \/ Unmark(a)
  BY DEF Step, Begin, Request, Check, Release, GetEntry, SetKey, SetVal, Publish, Finds,
     Holds, Reading
<1>2. UNCHANGED <<used, key, val>>
  BY <1>1 DEF Mark, ReadKey, ReadVal, Unmark, slots
<1>3. CASE ReadKey(a) \/ ReadVal(a)
  BY <1>0, <1>2, <1>3 DEF ReadKey, ReadVal, Goto, Locals, Finds, Holds, Reading
<1>4. CASE Mark(a)
  <2>1. PICK b \in Bit :
          \/ /\ mark' = [mark EXCEPT ![a] = [bit |-> b, low |-> used[Slot(a)]]]
             /\ Goto(a, IF used[Slot(a)] \in {ready, 3} THEN "readkey" ELSE "unmark")
             /\ UNCHANGED <<call, probe, expect, entry, got>>
          \/ used[Slot(a)] = free /\ Miss(a)
          \/ UNCHANGED <<pc, call, probe, expect, mark, entry, got>>
    BY <1>4 DEF Mark
  <2>2. CASE used[Slot(a)] = free /\ Miss(a)
    BY <1>0, <1>2, <2>2, MissEffect
  <2>3. CASE UNCHANGED <<pc, call, probe, expect, mark, entry, got>>
    BY <1>2, <2>3 DEF Finds, Holds, Reading
  <2>4. CASE /\ Goto(a, IF used[Slot(a)] \in {ready, 3} THEN "readkey" ELSE "unmark")
             /\ UNCHANGED <<call, probe, expect, entry, got>>
    BY <1>0, <1>2, <2>4 DEF Goto, Locals, Finds, Holds, Reading
  <2> QED
    BY <2>1, <2>2, <2>3, <2>4
<1>5. CASE Unmark(a)
  <2>1. /\ pc[a] = "unmark" /\ mark[a].low \in {free, reserved, ready}
        /\ (mark[a].low # reserved => used[Slot(a)] = mark[a].low)
        /\ (mark[a].low # ready => entry[a].key = NoKey)
        /\ (mark[a].low = ready => entry[a].key = key[Slot(a)] /\ entry[a].val = val[Slot(a)])
    BY <1>0, <1>5 DEF Unmark, ReaderKnows, Holds, Locals, WordKnows
  <2>2. CASE Goto(a, "mark") /\ UNCHANGED <<call, probe, expect, entry, got>>
    BY <1>0, <1>2, <2>2 DEF Goto, Locals, Finds
  <2>3. CASE /\ mark[a].low # reserved /\ entry[a].key = call[a].key
             /\ got' = [got EXCEPT ![a] = entry[a].val] /\ Leave(a)
    BY <1>0, <1>2, <2>1, <2>3, LeaveEffect
  <2>4. CASE mark[a].low # reserved /\ entry[a].key # call[a].key /\ Miss(a)
    <3>1. key[Slot(a)] # call[a].key
      BY <1>0, <2>1, <2>4
    <3> QED
      BY <1>0, <1>2, <2>4, <3>1, MissEffect
  <2> QED
    BY <1>5, <2>2, <2>3, <2>4 DEF Unmark
<1> QED
  BY <1>1, <1>3, <1>4, <1>5

(* A thread begins to find only by beginning a call at its first slot.     *)
LEMMA FindsStay ==
  ASSUME SlotInv, NEW a \in Actor, Step(a), ~Finds(a), Finds(a)'
  PROVE  Begin(a) /\ pc[a] = "idle" /\ probe'[a] = 0
<1>0. /\ Locals /\ Typed /\ CallMatches(a)
  BY DEF SlotInv, NameInv, Words, Threads, Data, Typed, TypeOK, Copies, Locals, Table
<1>1. CASE Begin(a)
  BY <1>0, <1>1 DEF Begin, CallMatches
<1>2. CASE ~Begin(a)
  <2>1. pc[a] # "idle" /\ Writes(a)
    BY <1>0, <1>2 DEF Step, Request, Check, Release, GetEntry, SetKey, SetVal, Publish,
       Mark, ReadKey, ReadVal, Unmark, Writes, Writing, Finds, Holds, Reading
  <2>2. call[a].op # "find"
    BY <1>0, <2>1 DEF CallMatches
  <2>3. CASE Release(a) \/ Publish(a)
    <3>1. pc'[a] \in {"request", "idle"}
      BY <1>0, <2>2, <2>3, MissEffect, LeaveEffect DEF Release, Publish, Restarts, Left,
         First
    <3> QED
      BY <3>1 DEF Finds, Holds, Reading
  <2>4. CASE Request(a)
    BY <1>0, <2>4 DEF Request, Reserve, Goto, Locals, Finds, Holds, Reading
  <2>5. CASE Check(a) \/ GetEntry(a) \/ SetKey(a) \/ SetVal(a)
    BY <1>0, <2>5 DEF Check, GetEntry, SetKey, SetVal, Goto, Locals, Finds, Holds,
       Reading
  <2> QED
    BY <1>2, <2>1, <2>3, <2>4, <2>5 DEF Step, Mark, ReadKey, ReadVal, Unmark, Writes,
       Writing
<1> QED
  BY <1>1, <1>2

(* A find in progress may return what the map holds under its key.         *)
LEMMA FindKeeps ==
  ASSUME MapInv, SlotInv', NEW a \in Actor, Step(a), Remember, NEW b \in Actor, Finds(b)'
  PROVE  /\ Values'[call'[b].key] \in could'[b]
         /\ NoValue \in could'[b] \/ Without(b)'
<1>1. call'[b].op = "find" /\ SlotInv
  BY DEF MapInv, SlotInv, NameInv, Words, Threads, Data, CallMatches
<1>2. ASSUME pc[b] = "idle"
      PROVE  Values'[call'[b].key] \in could'[b]
  BY <1>1, <1>2 DEF Remember
<1>3. ASSUME Finds(b), call'[b] = call[b]
      PROVE  could'[b] = could[b] \cup {Values'[call'[b].key]}
  <2>1. pc[b] # "idle"
    BY <1>3 DEF Finds, Holds, Reading
  <2> QED
    BY <1>1, <1>3, <2>1 DEF Remember
<1>4. CASE b = a /\ ~Finds(a)
  <2>1. pc[b] = "idle" /\ probe'[b] = 0
    BY <1>1, <1>4, FindsStay
  <2> QED
    BY <1>2, <2>1 DEF Without
<1>5. CASE b = a /\ Finds(a)
  <2>1. \/ call'[a] = call[a] /\ probe'[a] = probe[a]
        \/ Restarts(a) /\ key[Slot(a)] # call[a].key
    BY <1>1, <1>5, FindStep DEF Left, Finds, Holds, Reading
  <2>2. call'[a] = call[a] /\ key' = key
    BY <1>1, <1>5, <2>1, FindStep DEF Restarts
  <2>3. NoValue \in could[a] \/ Without(a)
    BY <1>5 DEF MapInv, Recalled, Without
  <2>4. probe[a] \in Nat
    BY <1>1, TableOk DEF SlotInv, NameInv, Words, Typed, TypeOK, Table
  <2>5. Without(a) => Without(a)'
    BY <2>1, <2>2, <2>4 DEF Without, Restarts, Slot, SlotOf, get_probe
  <2> QED
    BY <1>3, <1>5, <2>2, <2>3, <2>5
<1>6. CASE b # a
  <2>1. Finds(b) /\ call'[b] = call[b] /\ probe'[b] = probe[b]
    BY <1>1, <1>6, StepElsewhere DEF Elsewhere, SlotInv, NameInv, Words, Finds, Holds,
       Reading
  <2>2. Values[call[b].key] \in could[b] /\ (NoValue \in could[b] \/ Without(b))
    BY <2>1 DEF MapInv, Recalled, Without
  <2>3. CASE Values[call[b].key] = NoValue
    BY <1>3, <2>1, <2>2, <2>3
  <2>4. CASE Values[call[b].key] # NoValue
    <3>1. call[b].key \in Key
      BY <1>1, <2>1, OwnSlot DEF Finds, Holds, Reading, SlotInv, NameInv, Words
    <3>2. PICK t \in Table : key[t] = call[b].key
      BY <2>4, <3>1, ValueNone
    <3>3. ASSUME NEW s \in Table, key'[s] = call[b].key PROVE key[s] = call[b].key
      <4>1. key'[t] = call[b].key
        BY <1>1, <3>1, <3>2, Stable
      <4> QED
        BY <3>1, <3>2, <3>3, <4>1 DEF SlotInv, NameInv, Words, OneSlot
    <3>4. Without(b) => Without(b)'
      <4> SUFFICES ASSUME Without(b), NEW q \in 0 .. probe[b] - 1
                   PROVE  key'[SlotOf(call[b].key, q)] # call[b].key
        BY <2>1 DEF Without, SlotOf, get_probe
      <4>1. SlotOf(call[b].key, q) \in Table
        <5>1. q \in Nat
          BY <1>1, TableOk DEF SlotInv, NameInv, Words, Typed, TypeOK, Table
        <5> QED
          BY <3>1, <5>1, SlotInTable
      <4> QED
        BY <3>3, <4>1 DEF Without
    <3> QED
      BY <1>3, <2>1, <2>2, <3>4
  <2> QED
    BY <2>3, <2>4
<1> QED
  BY <1>4, <1>5, <1>6

(* Every step keeps the invariant of the refinement.                       *)
LEMMA MapInvStep ==
  ASSUME MapInv, NEW a \in Actor, Step(a), Remember
  PROVE  MapInv'
<1>1. SlotInv'
  BY SlotInvStep DEF MapInv
<1>2. Recalled'
  BY <1>1, FindKeeps DEF Recalled, Without, SlotOf, get_probe
<1> QED
  BY <1>1, <1>2 DEF MapInv

-----------------------------------------------------------------------------
(* Each step is one of ConcurrentMap, or none.                             *)
LEMMA InitMap ==
  ASSUME Init PROVE CM!MInit
<1>1. Values = [x \in Key |-> NoValue]
  BY MapAssumption DEF Init, Values, Stored
<1>2. Doing = [a \in Actor |-> [phase |-> "none", call |-> NoCall]]
  BY DEF Init, Doing
<1> QED
  BY <1>1, <1>2 DEF Init, CM!MInit, CM!NoCall, NoCall

(* What a step does not change for the other threads.                      *)
LEMMA OthersMap ==
  ASSUME MapInv, NEW a \in Actor, Step(a), Remember, NEW b \in Actor \ {a}
  PROVE  /\ Doing'[b] = Doing[b]
         /\ could'[b] = IF call[b].op = "find" THEN could[b] \cup {Values'[call[b].key]}
                                              ELSE could[b]
         /\ Values' = Values => could'[b] = could[b]
         /\ call[b].op = "find" =>
              call[b].key \in Key /\ Values[call[b].key] \in could[b]
<1>1. pc'[b] = pc[b] /\ call'[b] = call[b] /\ CallMatches(b)
  BY StepElsewhere DEF Elsewhere, MapInv, SlotInv, NameInv, Words, Threads, Data
<1>2. Doing'[b] = Doing[b]
  BY <1>1 DEF Doing
<1>3. CASE call[b].op = "find"
  <2>1. Finds(b) /\ pc[b] # "idle"
    BY <1>1, <1>3, OpFields
       DEF CallMatches, Finds, Writes, Writing, Holds, Reading, MapInv, SlotInv,
          NameInv, Words, Typed, TypeOK
  <2>2. Values[call[b].key] \in could[b] /\ call[b].key \in Key
    BY <2>1, OwnSlot DEF MapInv, SlotInv, NameInv, Words, Recalled
  <2> QED
    BY <1>1, <1>2, <1>3, <2>1, <2>2 DEF Remember
<1>4. CASE call[b].op # "find"
  <2>1. could[b] = {}
    BY <1>1, <1>4 DEF CallMatches, Finds, Writes, Writing, Holds, Reading, MapInv,
       SlotInv, NameInv, Words, Typed, TypeOK
  <2> QED
    BY <1>1, <1>2, <1>4, <2>1 DEF Remember
<1> QED
  BY <1>3, <1>4

(* The variables of the map's specification have their types.              *)
LEMMA MapTypes ==
  ASSUME SlotInv
  PROVE  /\ could \in [Actor -> SUBSET (Value \cup {NoValue})]
         /\ got \in [Actor -> Value \cup {NoValue}]
         /\ \A a \in Actor : /\ Doing[a].call = call[a]
              /\ Doing[a].phase = IF pc[a] = "idle" THEN "none"
                                  ELSE IF pc[a] = "publish" THEN "done" ELSE "busy"
BY DEF SlotInv, NameInv, Words, Typed, TypeOK, Copies, Doing

(* A step inside a call.                                                   *)
LEMMA StutterMap ==
  ASSUME MapInv, SlotInv', NEW a \in Actor, Step(a), Remember, pc[a] # "idle",
         pc'[a] # "idle", call'[a] = call[a], got' = got, Values' = Values,
         pc'[a] = "publish" <=> pc[a] = "publish"
  PROVE  UNCHANGED CM!mvars
<1>1. Doing' = Doing
  <2>1. \A b \in Actor \ {a} : Doing'[b] = Doing[b]
    BY OthersMap
  <2>2. Doing'[a] = Doing[a]
    BY DEF Doing
  <2> QED
    BY <2>1, <2>2 DEF Doing
<1>2. could'[a] = could[a]
  <2>1. CASE call[a].op = "find"
    <3>1. Finds(a)
      BY <2>1 DEF MapInv, SlotInv, NameInv, Words, Threads, Data, CallMatches, Finds,
         Writes, Writing, Holds, Reading, Typed, TypeOK
    <3> QED
      BY <2>1, <3>1 DEF MapInv, Recalled, Remember
  <2>2. CASE call[a].op # "find"
    <3>1. could[a] = {}
      BY <2>2 DEF MapInv, SlotInv, NameInv, Words, Threads, Data, CallMatches, Finds,
         Writes, Writing, Holds, Reading, Typed, TypeOK
    <3> QED
      BY <2>2, <3>1 DEF Remember
  <2> QED
    BY <2>1, <2>2
<1>3. could' = could
  <2>1. \A b \in Actor \ {a} : could'[b] = could[b]
    BY OthersMap
  <2> QED
    BY <1>2, <2>1, MapTypes DEF MapInv, SlotInv, NameInv, Words, Typed, Copies
<1> QED
  BY <1>1, <1>3 DEF CM!mvars

(* The return of a call.                                                   *)
LEMMA ReturnMap ==
  ASSUME MapInv, SlotInv', NEW a \in Actor, Step(a), Remember, Left(a), Values' = Values
  PROVE  /\ Doing' = [Doing EXCEPT ![a] = [phase |-> "none", call |-> NoCall]]
         /\ could' = [could EXCEPT ![a] = {}]
         /\ could[a] = {} => could' = could
<1>1. Doing' = [Doing EXCEPT ![a] = [phase |-> "none", call |-> NoCall]]
  <2>1. \A b \in Actor \ {a} : Doing'[b] = Doing[b]
    BY OthersMap
  <2>2. Doing'[a] = [phase |-> "none", call |-> NoCall]
    BY DEF Doing, Left
  <2> QED
    BY <2>1, <2>2 DEF Doing
<1>2. could'[a] = {}
  BY OpFields DEF Left, Remember
<1>3. could' \in [Actor -> SUBSET (Value \cup {NoValue})]
  BY DEF SlotInv, NameInv, Words, Typed, Copies
<1>4. \A b \in Actor \ {a} : could'[b] = could[b]
  BY OthersMap
<1>5. could \in [Actor -> SUBSET (Value \cup {NoValue})]
  BY DEF MapInv, SlotInv, NameInv, Words, Typed, Copies
<1> QED
  BY <1>1, <1>2, <1>3, <1>4, <1>5

(* No slot of the table holds a key that none of its probes has.           *)
LEMMA NowhereNoValue ==
  ASSUME SlotInv, NEW a \in Actor, pc[a] # "idle", probe[a] + 1 >= Capacity,
         Without(a), key[Slot(a)] # call[a].key
  PROVE  Values[call[a].key] = NoValue
<1>1. call[a].key \in Key /\ probe[a] \in Nat
  BY OwnSlot, TableOk DEF SlotInv, NameInv, Words, Typed, TypeOK, Table
<1>2. ASSUME NEW s \in Table, key[s] = call[a].key PROVE FALSE
  <2>1. PICK p \in Table : SlotOf(call[a].key, p) = s
    BY <1>1, <1>2 DEF SlotInv, NameInv, Words, Path
  <2>2. p \in 0 .. probe[a] - 1 \/ p = probe[a]
    BY <1>1, <2>1, TableOk
  <2> QED
    BY <1>2, <2>1, <2>2 DEF Without, Slot
<1> QED
  BY <1>1, <1>2, ValueNone

(* Every step is one of the map's specification, or changes nothing there. *)
LEMMA MapStep ==
  ASSUME MapInv, NEW a \in Actor, Step(a), Remember
  PROVE  CM!MNext \/ UNCHANGED CM!mvars
<1>0. /\ SlotInv /\ SlotInv' /\ Typed /\ Locals /\ CallMatches(a)
      /\ WordKnows(a) /\ WriterKnows(a)
      /\ Doing[a].call = call[a]
  BY SlotInvStep DEF MapInv, SlotInv, NameInv, Words, Threads, Data, Typed, TypeOK,
     Copies, Locals, Table, Doing
<1>1. CASE Begin(a)
  <2>1. PICK c \in Calls[a] : call' = [call EXCEPT ![a] = c] /\ pc'[a] = First(c.op)
    BY <1>0, <1>1 DEF Begin, Goto, Locals
  <2>2. c \in CM!AnyCall /\ c \in Ops /\ call'[a] = c /\ got' = got /\ pc[a] = "idle"
    BY <1>0, <1>1, <2>1, MapAssumption DEF CM!AnyCall, Ops, Begin, Locals
  <2>3. Values' = Values
    BY <1>0, <1>1, ValuesKept DEF Begin, SetVal
  <2>4. Doing' = [Doing EXCEPT ![a] = [phase |-> "busy", call |-> c]]
    <3>1. \A b \in Actor \ {a} : Doing'[b] = Doing[b]
      BY OthersMap
    <3>2. Doing'[a] = [phase |-> "busy", call |-> c]
      BY <2>1, <2>2 DEF Doing, First
    <3> QED
      BY <3>1, <3>2 DEF Doing
  <2>5. could' = [could EXCEPT ![a] = IF c.op = "find" THEN {Values[c.key]} ELSE {}]
    <3>1. \A b \in Actor \ {a} : could'[b] = could[b]
      BY <2>3, OthersMap
    <3>2. could'[a] = IF c.op = "find" THEN {Values[c.key]} ELSE {}
      BY <2>2, <2>3 DEF Remember
    <3>3. could \in [Actor -> SUBSET (Value \cup {NoValue})]
          /\ could' \in [Actor -> SUBSET (Value \cup {NoValue})]
      BY <1>0 DEF SlotInv, NameInv, Words, Typed, Copies
    <3> QED
      BY <3>1, <3>2, <3>3
  <2>6. Doing[a].phase = "none"
    BY <2>2 DEF Doing
  <2> QED
    BY <2>2, <2>3, <2>4, <2>5, <2>6 DEF CM!MNext, CM!Start
<1>2. CASE SetVal(a)
  <2> DEFINE c == call[a]
             new == NewVal(a)
  <2>1. /\ c.key \in Key /\ Values' = [Values EXCEPT ![c.key] = new]
        /\ entry[a].val = IF Values[c.key] = NoValue THEN Default ELSE Values[c.key]
    BY <1>0, <1>2, ValueSet
  <2>2. /\ pc[a] = "setval" /\ pc'[a] = "publish" /\ call' = call /\ got' = got
    BY <1>0, <1>2 DEF SetVal, Goto, Locals
  <2>3. c.op \in {"insert", "modify"} /\ could[a] = {}
    BY <1>0, <2>2 DEF CallMatches, Writes, Writing
  <2>4. Doing' = [Doing EXCEPT ![a].phase = "done"]
    <3>1. \A b \in Actor \ {a} : Doing'[b] = Doing[b]
      BY OthersMap
    <3>2. Doing'[a] = [phase |-> "done", call |-> c] /\ Doing[a] = [phase |-> "busy", call |-> c]
      BY <2>2 DEF Doing
    <3> QED
      BY <3>1, <3>2 DEF Doing
  <2>5. \A b \in Actor : could'[b] = IF call[b].op = "find" /\ call[b].key = c.key
                                     THEN could[b] \cup {new} ELSE could[b]
    <3> SUFFICES ASSUME NEW b \in Actor
                 PROVE  could'[b] = IF call[b].op = "find" /\ call[b].key = c.key
                                    THEN could[b] \cup {new} ELSE could[b]
      OBVIOUS
    <3>1. CASE b = a
      BY <2>2, <2>3, <3>1 DEF Remember
    <3>2. CASE b # a /\ call[b].op = "find"
      <4>1. /\ could'[b] = could[b] \cup {Values'[call[b].key]} /\ call[b].key \in Key
            /\ Values[call[b].key] \in could[b]
        BY <3>2, OthersMap
      <4>2. Values'[call[b].key] = IF call[b].key = c.key THEN new ELSE Values[call[b].key]
        BY <2>1, <4>1 DEF Values
      <4> QED
        BY <3>2, <4>1, <4>2
    <3>3. CASE b # a /\ call[b].op # "find"
      BY <3>3, OthersMap
    <3> QED
      BY <3>1, <3>2, <3>3
  <2>6. could' = [b \in Actor |->
           IF Doing[b].call.op = "find" /\ Doing[b].call.key = c.key
           THEN could[b] \cup {new} ELSE could[b]]
    BY <1>0, <2>5, MapTypes DEF SlotInv, NameInv, Words, Typed, Copies
  <2>7. Doing[a].phase = "busy"
    BY <2>2 DEF Doing
  <2>8. CM!Take(a)
    BY <1>0, <2>1, <2>2, <2>3, <2>4, <2>6, <2>7 DEF CM!Take, CM!Phase, NewVal
  <2> QED
    BY <2>8 DEF CM!MNext
<1>3. ASSUME ~Begin(a), ~SetVal(a)
      PROVE  Values' = Values /\ pc[a] # "idle"
  BY <1>0, <1>3, ValuesKept DEF Step, Request, Check, Release, GetEntry, SetKey, SetVal,
     Publish, Mark, ReadKey, ReadVal, Unmark
<1>4. CASE Publish(a)
  <2>1. Left(a) /\ got' = got /\ pc[a] = "publish" /\ Values' = Values
    BY <1>0, <1>3, <1>4, LeaveEffect DEF Publish, Begin, SetVal
  <2>2. could[a] = {} /\ Doing[a].phase = "done"
    BY <1>0, <2>1 DEF CallMatches, Writes, Writing, Doing
  <2> QED
    BY <1>0, <2>1, <2>2, ReturnMap DEF CM!MNext, CM!Return, CM!Finish, CM!NoCall, NoCall
<1>5. CASE Release(a)
  <2>1. pc[a] = "release" /\ Values' = Values /\ Miss(a)
    BY <1>0, <1>3, <1>5 DEF Release, Begin, SetVal
  <2>2. /\ call[a].op \in {"insert", "modify"} /\ could[a] = {}
        /\ Doing[a].phase = "busy" /\ Passed(a) /\ key[Slot(a)] # call[a].key
    BY <1>0, <2>1 DEF CallMatches, WriterKnows, Writes, Writing, Doing, WordKnows
  <2>3. got' = got
    BY <1>0, <2>1, <2>2, MissEffect
  <2>4. CASE Restarts(a)
    BY <1>0, <2>1, <2>2, <2>3, <2>4, StutterMap DEF Restarts, First
  <2>5. CASE Left(a) /\ probe[a] + 1 >= Capacity
    <3>1. Values[call[a].key] = NoValue
      BY <1>0, <2>1, <2>2, <2>5, NowhereNoValue DEF Without, Passed
    <3> QED
      BY <1>0, <2>1, <2>2, <2>3, <2>5, <3>1, ReturnMap
         DEF CM!MNext, CM!Refuse, CM!Finish, CM!NoCall, NoCall
  <2> QED
    BY <1>0, <2>1, <2>4, <2>5, MissEffect
<1>6. CASE Request(a) \/ Check(a) \/ GetEntry(a) \/ SetKey(a)
  <2>1. Values' = Values /\ pc[a] # "idle"
    BY <1>0, <1>3, <1>6 DEF Request, Check, GetEntry, SetKey, Begin, SetVal
  <2>2. /\ call'[a] = call[a] /\ got' = got /\ pc'[a] # "idle" /\ pc[a] # "publish"
        /\ pc'[a] # "publish"
    BY <1>0, <1>6 DEF Request, Reserve, Check, GetEntry, SetKey, Goto, Locals
  <2> QED
    BY <1>0, <2>1, <2>2, StutterMap
<1>7. CASE Finds(a)
  <2>1. Values' = Values /\ pc[a] # "idle" /\ pc[a] # "publish"
    BY <1>0, <1>3, <1>7 DEF Finds, Holds, Reading, Begin, SetVal
  <2>2. /\ call[a].op = "find" /\ Values[call[a].key] \in could[a]
        /\ NoValue \in could[a] \/ Without(a)
    BY <1>0, <1>7 DEF CallMatches, MapInv, Recalled, Without
  <2>3. CASE call'[a] = call[a] /\ Finds(a)' /\ got' = got
    BY <1>0, <2>1, <2>3, StutterMap DEF Finds, Holds, Reading
  <2>4. CASE Restarts(a) /\ got' = got
    BY <1>0, <2>1, <2>4, StutterMap DEF Restarts, First
  <2>5. ASSUME Left(a), NEW v \in could[a], got' = [got EXCEPT ![a] = v]
        PROVE  CM!MNext
    BY <1>0, <2>1, <2>2, <2>5, ReturnMap DEF CM!MNext, CM!Answer, CM!Finish, CM!NoCall,
       NoCall
  <2>6. CASE /\ Left(a) /\ probe[a] + 1 >= Capacity
             /\ got' = [got EXCEPT ![a] = NoValue] /\ key[Slot(a)] # call[a].key
    <3>1. NoValue \in could[a]
      BY <1>0, <2>1, <2>2, <2>6, NowhereNoValue
    <3> QED
      BY <2>5, <2>6, <3>1
  <2>7. CASE /\ Left(a) /\ got' = [got EXCEPT ![a] = val[Slot(a)]]
             /\ key[Slot(a)] = call[a].key /\ used[Slot(a)] = ready
    <3>1. Slot(a) \in Table /\ call[a].key \in Key
      BY <1>0, <2>1, OwnSlot DEF SlotInv, NameInv, Words
    <3>2. ~Fresh(Slot(a))
      BY <1>0, <2>7 DEF Fresh, SlotInv, NameInv, Words, OneWriter, Writing, reserved,
         ready
    <3>3. Values[call[a].key] = val[Slot(a)]
      BY <1>0, <2>7, <3>1, <3>2, ValueThere DEF SlotInv, NameInv, Words
    <3> QED
      BY <2>2, <2>5, <2>7, <3>3
  <2> QED
    BY <1>0, <1>7, <2>3, <2>4, <2>6, <2>7, FindStep
<1> QED
  BY <1>1, <1>2, <1>4, <1>5, <1>6, <1>7 DEF Step, Mark, ReadKey, ReadVal, Unmark, Finds,
     Holds, Reading

(* Stuttering is stuttering there.                                         *)
LEMMA MapUnchanged ==
  ASSUME MapInv, UNCHANGED vars
  PROVE  MapInv' /\ UNCHANGED CM!mvars
<1> USE DEF vars, Slot, SlotOf, get_probe
<1>1. SlotInv'
  BY SlotInvUnchanged DEF MapInv
<1>2. Values' = Values
  BY DEF Values, Stored, Fresh
<1>3. Doing' = Doing
  BY DEF Doing
<1> QED
  BY <1>1, <1>2, <1>3 DEF MapInv, Recalled, Finds, Holds, Reading, CM!mvars

(* Where all writes are local, whatever threads call at once, on colliding *)
(* keys or not, the calls that return behave as those of one atomic map.   *)
THEOREM ImplementsMap == Spec => KeepsMap
<1>1. Init => (LocalWrites => MapInv) /\ (LocalWrites => CM!MInit)
  BY InitSlot, InitMap DEF MapInv, Recalled, Init, Finds, Holds, Reading
<1>2. [Next]_vars => (LocalWrites' <=> LocalWrites)
  BY NextSteps DEF LocalWrites, Remember, vars, SlotOf, get_probe
<1>3. (LocalWrites => MapInv) /\ [Next]_vars => (LocalWrites => MapInv)'
  BY <1>2, LocalSteps, MapInvStep, MapUnchanged DEF MapInv
<1>4. (LocalWrites => MapInv) /\ [Next]_vars =>
        [LocalWrites => (CM!MNext \/ UNCHANGED CM!mvars)]_vars
  BY LocalSteps, MapStep DEF MapInv
<1> QED
  BY <1>1, <1>3, <1>4, PTL DEF Spec, KeepsMap
=============================================================================
