----------------------------- MODULE BclHashMap -----------------------------
(***************************************************************************)
(* BCL::HashMap (bcl/containers/HashMap.hpp): an open-addressing table     *)
(* whose slots live on all ranks and are used by threads of any rank with  *)
(* one-sided atomics. The word "used" of a slot is its lock: its two low   *)
(* bits say free, reserved or ready, the others mark finds that are        *)
(* reading. A writer needs the whole word to be free, or ready with no     *)
(* mark; a find waits until the slot is not reserved. Nothing is deleted.  *)
(* An entry is written by memcpy to a slot of the thread's own rank, and   *)
(* by a put to any other: the put is complete at the target only at the    *)
(* next barrier, and no flush stands between it and the ready word, so the *)
(* slot may be ready, and reserved again, with the entry still on its way. *)
(***************************************************************************)
EXTENDS Integers, FiniteSets

CONSTANTS Actor,     \* threads
          Key, Value, NoKey, NoValue,
          Default,   \* the value of an entry nothing was written to
          Hash,      \* the hash function
          Capacity,
          Bit,       \* the marks a find chooses from at random (30 in the code)
          Fn(_),     \* the function modify applies
          Calls,     \* the calls each thread may make
          Homes,     \* choices of the slots on the rank of each thread
          MaxCalls   \* bound on the calls of each thread

Ops == [op : {"insert", "modify"}, key : Key, val : Value]
         \cup [op : {"find"}, key : Key, val : {NoValue}]
NoCall == [op |-> "none"]

Table == 0 .. Capacity - 1

ASSUME MapAssumption ==
  /\ IsFiniteSet(Actor) /\ IsFiniteSet(Bit) /\ Bit # {}
  /\ Capacity \in Nat \ {0} /\ MaxCalls \in [Actor -> Nat] /\ Hash \in [Key -> Nat]
  /\ NoKey \notin Key /\ NoValue \notin Value /\ Default \in Value
  /\ \A v \in Value : Fn(v) \in Value
  /\ Calls \in [Actor -> SUBSET Ops] /\ Homes \subseteq [Actor -> SUBSET Table]

free == 0
reserved == 1
ready == 2

VARIABLES
  used,    \* low bits of the word of a slot
  marks,   \* its other bits
  key,     \* the entry of a slot
  val,
  puts,    \* the writes of entries, with what of each is on its way yet
  home,    \* the slots on the rank of a thread
  pc,      \* where a thread is in its call
  call,    \* its call
  probe,   \* how many slots it has left behind
  expect,  \* current_value: what its compare-and-swap expects
  mark,    \* its read_bit, and what the fetch-and-or of it returned
  entry,   \* its copy of an entry
  got,     \* what its last find answered
  calls,   \* number of its calls
  could    \* history: the values of its key since its find started

slots == <<used, marks, key, val, puts>>
vars == <<used, marks, key, val, puts, home, pc, call, probe, expect, mark, entry, got,
          calls, could>>

NoEntry == [key |-> NoKey, val |-> Default]
NoMark == [bit |-> CHOOSE b \in Bit : TRUE, low |-> free]

Init == /\ used = [s \in Table |-> free]
        /\ marks = [s \in Table |-> {}]
        /\ key = [s \in Table |-> NoKey]
        /\ val = [s \in Table |-> Default]
        /\ puts = {}
        /\ home \in Homes
        /\ pc = [a \in Actor |-> "idle"]
        /\ call = [a \in Actor |-> NoCall]
        /\ probe = [a \in Actor |-> 0]
        /\ expect = [a \in Actor |-> free]
        /\ mark = [a \in Actor |-> NoMark]
        /\ entry = [a \in Actor |-> NoEntry]
        /\ got = [a \in Actor |-> NoValue]
        /\ calls = [a \in Actor |-> 0]
        /\ could = [a \in Actor |-> {}]

get_probe(p) == p * p
SlotOf(k, p) == (Hash[k] + get_probe(p)) % Capacity
Slot(a) == SlotOf(call[a].key, probe[a])
Goto(a, label) == pc' = [pc EXCEPT ![a] = label]
First(op) == IF op = "find" THEN "mark" ELSE "request"

(* insert_or_assign, modify or find (and find_or_insert, the same code).   *)
Begin(a) ==
  /\ pc[a] = "idle" /\ calls[a] < MaxCalls[a]
  /\ \E c \in Calls[a] : /\ call' = [call EXCEPT ![a] = c]
                         /\ Goto(a, First(c.op))
  /\ calls' = [calls EXCEPT ![a] = @ + 1]
  /\ UNCHANGED <<slots, probe, expect, mark, entry, got>>

(* The call returns; the copies it made are gone.                          *)
Leave(a) == /\ Goto(a, "idle")
            /\ call' = [call EXCEPT ![a] = NoCall]
            /\ probe' = [probe EXCEPT ![a] = 0]
            /\ expect' = [expect EXCEPT ![a] = free]
            /\ mark' = [mark EXCEPT ![a] = NoMark]
            /\ entry' = [entry EXCEPT ![a] = NoEntry]

(* MUTANT of Miss: the loop probes once more than there are slots.         *)
MissLate(a) ==
  \/ /\ probe[a] < Capacity
     /\ probe' = [probe EXCEPT ![a] = @ + 1]
     /\ expect' = [expect EXCEPT ![a] = free]
     /\ mark' = [mark EXCEPT ![a] = NoMark]
     /\ entry' = [entry EXCEPT ![a] = NoEntry]
     /\ Goto(a, First(call[a].op))
     /\ UNCHANGED <<call, got>>
  \/ /\ probe[a] >= Capacity
     /\ got' = IF call[a].op = "find" THEN [got EXCEPT ![a] = NoValue] ELSE got
     /\ Leave(a)
(* This slot was not the one: probe the next, or return false.             *)
Miss(a) ==
  \/ /\ probe[a] + 1 < Capacity
     /\ probe' = [probe EXCEPT ![a] = @ + 1]
     /\ expect' = [expect EXCEPT ![a] = free]
     /\ mark' = [mark EXCEPT ![a] = NoMark]
     /\ entry' = [entry EXCEPT ![a] = NoEntry]
     /\ Goto(a, First(call[a].op))
     /\ UNCHANGED <<call, got>>
  \/ /\ probe[a] + 1 >= Capacity
     /\ got' = IF call[a].op = "find" THEN [got EXCEPT ![a] = NoValue] ELSE got
     /\ Leave(a)

(* MUTANT of Reserve: the marks of readers are masked out.                 *)
ReserveAmongReaders(a) == /\ used[Slot(a)] = expect[a]
                          /\ used' = [used EXCEPT ![Slot(a)] = reserved]
                          /\ Goto(a, IF expect[a] = free THEN "get" ELSE "check")
                          /\ UNCHANGED expect
(* request_slot: the compare-and-swap that succeeds, and the one that only *)
(* learns that the slot will never be free again.                          *)
Reserve(a) == /\ used[Slot(a)] = expect[a] /\ marks[Slot(a)] = {}
              /\ used' = [used EXCEPT ![Slot(a)] = reserved]
              /\ Goto(a, IF expect[a] = free THEN "get" ELSE "check")
              /\ UNCHANGED expect
(* MUTANT of Request: a reserved slot is passed over, not waited for.      *)
RequestPasses(a) ==
  /\ pc[a] = "request"
  /\ \/ Reserve(a) /\ UNCHANGED <<call, probe, mark, entry, got>>
     \/ /\ used[Slot(a)] = ready /\ expect[a] = free
        /\ expect' = [expect EXCEPT ![a] = ready]
        /\ UNCHANGED <<used, pc, call, probe, mark, entry, got>>
     \/ used[Slot(a)] = reserved /\ Miss(a) /\ UNCHANGED used
  /\ UNCHANGED <<marks, key, val, puts, calls>>
Request(a) ==
  /\ pc[a] = "request"
  /\ \/ Reserve(a)
     \/ /\ used[Slot(a)] # free /\ expect[a] = free
        /\ expect' = [expect EXCEPT ![a] = ready]
        /\ UNCHANGED <<used, pc>>
  /\ UNCHANGED <<marks, key, val, puts, call, probe, mark, entry, got, calls>>

(* MUTANT of Check: an entry without a key is taken for an empty slot.     *)
CheckEmpty(a) == /\ pc[a] = "check"
                 /\ Goto(a, IF key[Slot(a)] \in {call[a].key, NoKey} THEN "get"
                                                                    ELSE "release")
                 /\ UNCHANGED <<slots, call, probe, expect, mark, entry, got, calls>>
(* A slot that was ready: is it the key's?                                 *)
Check(a) == /\ pc[a] = "check"
            /\ Goto(a, IF key[Slot(a)] = call[a].key THEN "get" ELSE "release")
            /\ UNCHANGED <<slots, call, probe, expect, mark, entry, got, calls>>

Flip(s) == used' = [used EXCEPT ![s] = 3 - @]   \* fetch-and-xor of 0x3

(* MUTANT of Release: a slot that is another key's stays reserved.         *)
ReleaseNothing(a) == /\ pc[a] = "release"
                     /\ Miss(a)
                     /\ UNCHANGED <<slots, calls>>
Release(a) == /\ pc[a] = "release"
              /\ Flip(Slot(a)) /\ Miss(a)
              /\ UNCHANGED <<marks, key, val, puts, calls>>

GetEntry(a) == /\ pc[a] = "get"
               /\ entry' = [entry EXCEPT ![a] = [key |-> call[a].key,
                                                 val |-> val[Slot(a)]]]
               /\ Goto(a, "setkey")
               /\ UNCHANGED <<slots, call, probe, expect, mark, got, calls>>

(* What the call makes of the entry, and a write of it to the slot.        *)
NewVal(a) == IF call[a].op = "insert" THEN call[a].val ELSE Fn(entry[a].val)
Write(a, left) == [by |-> a, n |-> calls[a], slot |-> Slot(a),
                   key |-> entry[a].key, val |-> NewVal(a), left |-> left]

(* set_entry to a slot of the own rank: one memcpy of key and value, which *)
(* is done when it returns and which readers could see half done.          *)
SetKey(a) == /\ pc[a] = "setkey" /\ Slot(a) \in home[a]
             /\ key' = [key EXCEPT ![Slot(a)] = entry[a].key]
             /\ Goto(a, "setval")
             /\ UNCHANGED <<used, marks, val, puts, call, probe, expect, mark, entry,
                            got, calls>>

SetVal(a) == /\ pc[a] = "setval"
             /\ val' = [val EXCEPT ![Slot(a)] = NewVal(a)]
             /\ puts' = puts \cup {Write(a, {})}
             /\ Goto(a, "publish")
             /\ UNCHANGED <<used, marks, key, call, probe, expect, mark, entry,
                            got, calls>>

(* MUTANT of Put: the entry is sent without its key.                       *)
PutValue(a) == /\ pc[a] = "setkey" /\ Slot(a) \notin home[a]
               /\ puts' = puts \cup {Write(a, {"val"})}
               /\ Goto(a, "publish")
               /\ UNCHANGED <<used, marks, key, val, call, probe, expect, mark,
                              entry, got, calls>>
(* set_entry to a slot of another rank: MPI_Rput, and MPI_Wait until the   *)
(* thread's copy may be reused. Neither is anything done at the target.    *)
Put(a) == /\ pc[a] = "setkey" /\ Slot(a) \notin home[a]
          /\ puts' = puts \cup {Write(a, {"key", "val"})}
          /\ Goto(a, "publish")
          /\ UNCHANGED <<used, marks, key, val, call, probe, expect, mark, entry,
                         got, calls>>

(* A put arrives, in any order with others and with the thread's atomics,  *)
(* and its parts in any order.                                             *)
Landed(w, part) == puts' = (puts \ {w}) \cup {[w EXCEPT !.left = @ \ {part}]}
LandKey(w) == /\ "key" \in w.left
              /\ key' = [key EXCEPT ![w.slot] = w.key]
              /\ Landed(w, "key")
              /\ UNCHANGED <<used, marks, val, pc, call, probe, expect, mark, entry,
                             got, calls>>
LandVal(w) == /\ "val" \in w.left
              /\ val' = [val EXCEPT ![w.slot] = w.val]
              /\ Landed(w, "val")
              /\ UNCHANGED <<used, marks, key, pc, call, probe, expect, mark, entry,
                             got, calls>>

(* ready_slot, whether or not the entry has arrived.                       *)
Publish(a) == /\ pc[a] = "publish"
              /\ Flip(Slot(a)) /\ Leave(a)
              /\ UNCHANGED <<marks, key, val, puts, got, calls>>

(* MUTANT of Mark: the mark is cleared even if another find had set it.    *)
MarkAnyway(a) ==
  /\ pc[a] = "mark"
  /\ \E b \in Bit :
       LET low == used[Slot(a)]
       IN /\ marks' = [marks EXCEPT ![Slot(a)] = @ \cup {b}]
          /\ mark' = [mark EXCEPT ![a] = [bit |-> b, low |-> low]]
          /\ Goto(a, IF low \in {ready, 3} THEN "readkey" ELSE "unmark")
  /\ UNCHANGED <<used, key, val, puts, call, probe, expect, entry, got, calls>>
(* atomic_get_entry: fetch-and-or of a mark chosen at random. A free slot  *)
(* has an empty entry; one that is reserved, or marked alike by another    *)
(* find, is tried again.                                                   *)
Mark(a) ==
  /\ pc[a] = "mark"
  /\ \E b \in Bit :
       LET mine == b \notin marks[Slot(a)]
           low == used[Slot(a)]
       IN /\ marks' = [marks EXCEPT ![Slot(a)] = @ \cup {b}]
          /\ \/ /\ mine
                /\ mark' = [mark EXCEPT ![a] = [bit |-> b, low |-> low]]
                /\ Goto(a, IF low \in {ready, 3} THEN "readkey" ELSE "unmark")
                /\ UNCHANGED <<call, probe, expect, entry, got>>
             \/ /\ ~mine /\ low = free
                /\ Miss(a)
             \/ /\ ~mine /\ low # free
                /\ UNCHANGED <<pc, call, probe, expect, mark, entry, got>>
  /\ UNCHANGED <<used, key, val, puts, calls>>

(* get_entry: one get of key and value, which could meet a put half done.  *)
ReadKey(a) == /\ pc[a] = "readkey"
              /\ entry' = [entry EXCEPT ![a].key = key[Slot(a)]]
              /\ Goto(a, "readval")
              /\ UNCHANGED <<slots, call, probe, expect, mark, got, calls>>

ReadVal(a) == /\ pc[a] = "readval"
              /\ entry' = [entry EXCEPT ![a].val = val[Slot(a)]]
              /\ Goto(a, "unmark")
              /\ UNCHANGED <<slots, call, probe, expect, mark, got, calls>>

(* MUTANT of Unmark: a reserved slot counts as empty.                      *)
UnmarkReserved(a) ==
  /\ pc[a] = "unmark"
  /\ marks' = [marks EXCEPT ![Slot(a)] = @ \ {mark[a].bit}]
  /\ \/ /\ entry[a].key = call[a].key
        /\ got' = [got EXCEPT ![a] = entry[a].val]
        /\ Leave(a)
     \/ entry[a].key # call[a].key /\ Miss(a)
  /\ UNCHANGED <<used, key, val, puts, calls>>
(* Fetch-and-and clears the mark; find then looks at the entry.            *)
Unmark(a) ==
  /\ pc[a] = "unmark"
  /\ marks' = [marks EXCEPT ![Slot(a)] = @ \ {mark[a].bit}]
  /\ \/ /\ mark[a].low = reserved
        /\ mark' = [mark EXCEPT ![a] = NoMark]
        /\ Goto(a, "mark")
        /\ UNCHANGED <<call, probe, expect, entry, got>>
     \/ /\ mark[a].low # reserved
        /\ entry[a].key = call[a].key
        /\ got' = [got EXCEPT ![a] = entry[a].val]
        /\ Leave(a)
     \/ /\ mark[a].low # reserved
        /\ entry[a].key # call[a].key
        /\ Miss(a)
  /\ UNCHANGED <<used, key, val, puts, calls>>

Advance(a) == \/ Request(a) \/ Check(a) \/ Release(a) \/ GetEntry(a)
              \/ SetKey(a) \/ SetVal(a) \/ Put(a) \/ Publish(a)
              \/ Mark(a) \/ ReadKey(a) \/ ReadVal(a) \/ Unmark(a)

(* The value the map holds for a key: an entry counts from the moment both *)
(* its parts are written.                                                  *)
Fresh(s) == \E a \in Actor : /\ pc[a] \in {"get", "setkey", "setval"}
                             /\ expect[a] = free /\ Slot(a) = s
Stored(k) == IF \E s \in Table : key[s] = k /\ ~Fresh(s)
               THEN val[CHOOSE s \in Table : key[s] = k /\ ~Fresh(s)]
               ELSE NoValue
Values == [k \in Key |-> Stored(k)]

(* History: what each find in progress may answer. Slots stay where they   *)
(* are.                                                                    *)
Remember == /\ UNCHANGED home
            /\ could' = [a \in Actor |->
                 IF call'[a].op # "find" THEN {}
                 ELSE IF pc[a] = "idle" THEN {Values'[call'[a].key]}
                 ELSE could[a] \cup {Values'[call[a].key]}]

Land == \E w \in puts : LandKey(w) \/ LandVal(w)
Next == \/ \E a \in Actor : (Begin(a) \/ Advance(a)) /\ Remember
        \/ Land /\ Remember
Spec == Init /\ [][Next]_vars
(* A thread inside a call keeps running; a put need not arrive.            *)
FairSpec == Spec /\ \A a \in Actor : WF_vars(Advance(a) /\ Remember)
-----------------------------------------------------------------------------
TypeOK ==
  /\ used \in [Table -> {free, reserved, ready}]
  /\ marks \in [Table -> SUBSET Bit]
  /\ key \in [Table -> Key \cup {NoKey}] /\ val \in [Table -> Value]
  /\ puts \subseteq [by : Actor, n : Nat, slot : Table, key : Key, val : Value,
                     left : SUBSET {"key", "val"}]
  /\ home \in Homes
  /\ pc \in [Actor -> {"idle", "request", "check", "release", "get", "setkey",
                       "setval", "publish", "mark", "readkey", "readval", "unmark"}]
  /\ \A a \in Actor : call[a] \in Calls[a] \cup {NoCall}
  /\ probe \in [Actor -> 0 .. Capacity - 1]
  /\ expect \in [Actor -> {free, ready}]
  /\ got \in [Actor -> Value \cup {NoValue}]
  /\ \A a \in Actor : calls[a] \in 0 .. MaxCalls[a]

Doing == [a \in Actor |->
  [phase |-> IF pc[a] = "idle" THEN "none"
             ELSE IF pc[a] = "publish" THEN "done" ELSE "busy",
   call |-> call[a]]]
CM == INSTANCE ConcurrentMap WITH map <- Values, doing <- Doing

(* Each key is written by threads of the rank its probes lead to alone,    *)
(* and found by any: no put is ever on its way.                            *)
LocalWrites ==
  \A a \in Actor : \A c \in Calls[a] :
    c.op # "find" => \A p \in Table : SlotOf(c.key, p) \in home[a]

(* Where all writes are local, the calls that return behave as those of    *)
(* one atomic map, whatever threads call at once: no find sees half an     *)
(* entry, no modify is lost, no key is stored twice. (With remote writes   *)
(* the code promises none of this: see Settled and SlotKeepsKey.)          *)
KeepsMap == /\ LocalWrites => CM!MInit
            /\ [][LocalWrites => (CM!MNext \/ UNCHANGED CM!mvars)]_vars

Writing(a) == pc[a] \in {"check", "release", "get", "setkey", "setval", "publish"}
Reading(a) == pc[a] \in {"readkey", "readval"}

(* A reserved slot has one thread in its writing code and none in its      *)
(* reading code, however the compare-and-swaps of lines 358-380 and the    *)
(* marks of 319 interleave. A put that its thread has sent off is not      *)
(* covered by the reservation.                                             *)
Exclusive ==
  \A s \in Table :
    /\ used[s] = reserved <=> \E a \in Actor : Writing(a) /\ Slot(a) = s
    /\ \A a, b \in Actor : a # b /\ Writing(a) /\ Slot(a) = s =>
         ~((Writing(b) \/ Reading(b)) /\ Slot(b) = s)

(* The marks of a slot are those of the finds that set them: none is left  *)
(* behind, and none is cleared by a find that met the same mark.           *)
MarksCounted ==
  /\ \A s \in Table : marks[s] =
       {mark[a].bit : a \in {b \in Actor : /\ Reading(b) \/ pc[b] = "unmark"
                                           /\ Slot(b) = s}}
  /\ \A a, b \in Actor :
       /\ a # b /\ Reading(a) /\ (Reading(b) \/ pc[b] = "unmark")
       /\ Slot(a) = Slot(b)
       => mark[a].bit # mark[b].bit

(* The keys a slot has been given, whether they have arrived or not.       *)
Names(s) == ({key[s]} \cup {w.key : w \in {x \in puts : x.slot = s}}) \ {NoKey}

(* A key that was given a slot is met there on its probe path with no free *)
(* slot before it, so that no find and no insert stops short of it; where  *)
(* all writes are local it has no other slot.                              *)
Findable ==
  /\ \A s \in Table : \A k \in Names(s) :
       \E p \in Table : /\ SlotOf(k, p) = s
                        /\ \A q \in 0 .. p - 1 : used[SlotOf(k, q)] # free
  /\ LocalWrites => \A s, t \in Table : Names(s) \cap Names(t) # {} => s = t

(* However late puts arrive, and over whichever later entry, none turns a  *)
(* slot over to another key: a slot is requested, passed over and written  *)
(* for one key only.                                                       *)
SlotKeepsKey == [][\A s \in Table : key[s] # NoKey => key'[s] = key[s]]_vars

(* Once nothing is on its way to a ready slot, which is what a barrier     *)
(* brings about, its entry is one that some call wrote there, key and      *)
(* value: none is lost, empty or another key's.                            *)
Settled ==
  \A s \in Table :
    LET writes == {w \in puts : w.slot = s}
    IN  used[s] = ready /\ (\A w \in writes : w.left = {}) =>
          /\ \E w \in writes : val[s] = w.val
          /\ \A w \in writes : key[s] = w.key

(* Every call returns: nobody waits for ever for a slot.                   *)
CallsReturn == \A a \in Actor : pc[a] # "idle" ~> pc[a] = "idle"
=============================================================================
