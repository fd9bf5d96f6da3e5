------------------------------ MODULE BclQueue ------------------------------
(***************************************************************************)
(* One BCL::CircularQueue (bcl/containers/CircularQueue.hpp), hosted by    *)
(* some rank and used by threads of any rank through one-sided atomics.    *)
(*                                                                         *)
(* A call takes a ticket with a fetch-and-add, tests it against a cached   *)
(* copy of the other side's counter, refreshes the copy if the test fails, *)
(* gives the ticket back if it fails again, and otherwise accesses its     *)
(* slot and waits with a compare-and-swap for its turn to publish. push    *)
(* and pop are mirror images, so the counters are indexed by the side that *)
(* moves them.                                                             *)
(***************************************************************************)
EXTENDS Integers, FiniteSets, Sequences

CONSTANTS Actor,     \* threads that use the queue
          Rank,      \* their ranks
          RankOf,    \* the rank of a thread
          Pushes,    \* the elements an actor may push
          Popper,    \* actors that call pop
          Patient,   \* actors that push with async_push, whose future waits for room
          Value,     \* elements
          NoValue,
          Capacity,
          Filled,    \* the elements pushed before the barrier
          MaxCalls   \* bound on the calls of one actor

ASSUME QueueAssumption ==
  /\ IsFiniteSet(Actor) /\ RankOf \in [Actor -> Rank]
  /\ Pushes \in [Actor -> SUBSET Value]
  /\ Popper \subseteq Actor /\ Patient \subseteq Actor
  /\ NoValue \notin Value
  /\ Capacity \in Nat \ {0} /\ MaxCalls \in Nat
  /\ Filled \in Seq(Value) /\ Len(Filled) <= Capacity

Side == {"push", "pop"}
Other(s) == IF s = "push" THEN "pop" ELSE "push"

VARIABLES
  next,    \* next["push"] is tail, next["pop"] is head
  res,     \* res["push"] is reserved_tail, res["pop"] is reserved_head
  data,    \* the slots
  buf,     \* buf["push"][r] is head_buf of rank r, buf["pop"][r] its tail_buf
  side,    \* the side of the actor's call
  pc,      \* where the actor is in it
  ticket,  \* old_tail or old_head
  seen,    \* what the refreshing fetch-and-add returned
  val,     \* the element pushed or popped
  calls    \* number of calls of the actor

vars == <<next, res, data, buf, side, pc, ticket, seen, val, calls>>

Slot(t) == t % Capacity

Init == /\ next = [s \in Side |-> IF s = "push" THEN Len(Filled) ELSE 0]
        /\ res = next
        /\ data = [i \in 0 .. Capacity - 1 |->
                     IF i < Len(Filled) THEN Filled[i + 1] ELSE NoValue]
        /\ buf = [s \in Side |-> [r \in Rank |-> 0]]
        /\ side = [a \in Actor |-> "push"]
        /\ pc = [a \in Actor |-> "idle"]
        /\ ticket = [a \in Actor |-> 0]
        /\ seen = [a \in Actor |-> 0]
        /\ val = [a \in Actor |-> NoValue]
        /\ calls = [a \in Actor |-> 0]

Goto(a, label) == pc' = [pc EXCEPT ![a] = label]
InFlight(s) == {a \in Actor : pc[a] # "idle" /\ side[a] = s}
Fetched(a) == buf[side[a]][RankOf[a]]

(* A call starts: fetch-and-add on tail or head.                           *)
Take(a, s, v) ==
  /\ pc[a] = "idle" /\ calls[a] < MaxCalls
  /\ ticket' = [ticket EXCEPT ![a] = next[s]]
  /\ next' = [next EXCEPT ![s] = @ + 1]
  /\ side' = [side EXCEPT ![a] = s]
  /\ val' = [val EXCEPT ![a] = v]
  /\ calls' = [calls EXCEPT ![a] = @ + 1]
  /\ Goto(a, "test")
  /\ UNCHANGED <<res, data, buf, seen>>

CallPush(a) == \E v \in Pushes[a] : Take(a, "push", v)
CallPop(a) == a \in Popper /\ Take(a, "pop", NoValue)

(* MUTANT of Full: old_tail is compared in place of new_tail.              *)
FullLate(a) == ticket[a] - Fetched(a) \notin 0 .. Capacity
(* new_tail - head_buf > capacity() compares as unsigned: a negative       *)
(* difference is too large as well.                                        *)
Full(a) == ticket[a] + 1 - Fetched(a) \notin 0 .. Capacity
(* new_head > tail_buf *)
Empty(a) == ticket[a] + 1 > Fetched(a)
Refused(a) == IF side[a] = "push" THEN Full(a) ELSE Empty(a)

(* The first test, against the cached counter.                             *)
Test(a) == /\ pc[a] = "test"
           /\ Goto(a, IF Refused(a) THEN "refresh" ELSE "access")
           /\ UNCHANGED <<next, res, data, buf, side, ticket, seen, val, calls>>

(* Fetch-and-add of 0 on the other side's reserved counter; the threads of *)
(* a rank store what it returned in any order.                             *)
Refresh(a) == /\ pc[a] = "refresh"
              /\ seen' = [seen EXCEPT ![a] = res[Other(side[a])]]
              /\ Goto(a, "store")
              /\ UNCHANGED <<next, res, data, buf, side, ticket, val, calls>>

StoreBuf(a) == /\ pc[a] = "store"
               /\ buf' = [buf EXCEPT ![side[a]][RankOf[a]] = seen[a]]
               /\ Goto(a, "retest")
               /\ UNCHANGED <<next, res, data, side, ticket, seen, val, calls>>

(* MUTANT of Retest: every push waits for room, as a future does.          *)
RetestWaits(a) ==
  /\ pc[a] = "retest"
  /\ \/ ~Refused(a) /\ Goto(a, "access")
     \/ Refused(a) /\ side[a] = "push" /\ Goto(a, "test")
     \/ Refused(a) /\ side[a] = "pop" /\ Goto(a, "undo")
  /\ UNCHANGED <<next, res, data, buf, side, ticket, seen, val, calls>>
(* The second test. The future of an async_push that finds no room is      *)
(* polled again (is_ready), and keeps its ticket meanwhile.                *)
Retest(a) ==
  /\ pc[a] = "retest"
  /\ \/ ~Refused(a) /\ Goto(a, "access")
     \/ Refused(a) /\ side[a] = "push" /\ a \in Patient /\ Goto(a, "test")
     \/ Refused(a) /\ ~(side[a] = "push" /\ a \in Patient) /\ Goto(a, "undo")
  /\ UNCHANGED <<next, res, data, buf, side, ticket, seen, val, calls>>

(* MUTANT of Undo: the other side's counter is lowered.                    *)
UndoOther(a) == /\ pc[a] = "undo"
                /\ next' = [next EXCEPT ![Other(side[a])] = @ - 1]
                /\ val' = [val EXCEPT ![a] = NoValue]
                /\ Goto(a, "idle")
                /\ UNCHANGED <<res, data, buf, side, ticket, seen, calls>>
(* MUTANT of Undo: the ticket is not given back.                           *)
UndoNothing(a) == /\ pc[a] = "undo"
                  /\ val' = [val EXCEPT ![a] = NoValue]
                  /\ Goto(a, "idle")
                  /\ UNCHANGED <<next, res, data, buf, side, ticket, seen, calls>>
(* MUTANT of Undo: the counter is set back to the ticket.                  *)
UndoStores(a) == /\ pc[a] = "undo"
                 /\ next' = [next EXCEPT ![side[a]] = ticket[a]]
                 /\ val' = [val EXCEPT ![a] = NoValue]
                 /\ Goto(a, "idle")
                 /\ UNCHANGED <<res, data, buf, side, ticket, seen, calls>>
(* The call fails: fetch-and-add of -1 gives a ticket back.                *)
Undo(a) == /\ pc[a] = "undo"
           /\ next' = [next EXCEPT ![side[a]] = @ - 1]
           /\ val' = [val EXCEPT ![a] = NoValue]
           /\ Goto(a, "idle")
           /\ UNCHANGED <<res, data, buf, side, ticket, seen, calls>>

WriteSlot(a) == /\ pc[a] = "access" /\ side[a] = "push"
                /\ data' = [data EXCEPT ![Slot(ticket[a])] = val[a]]
                /\ Goto(a, "publish")
                /\ UNCHANGED <<next, res, buf, side, ticket, seen, val, calls>>

ReadSlot(a) == /\ pc[a] = "access" /\ side[a] = "pop"
               /\ val' = [val EXCEPT ![a] = data[Slot(ticket[a])]]
               /\ Goto(a, "publish")
               /\ UNCHANGED <<next, res, data, buf, side, ticket, seen, calls>>

(* MUTANT of Publish: it does not wait for its turn, as in the             *)
(* non-atomic forms.                                                       *)
PublishAnyTurn(a) == /\ pc[a] = "publish"
                     /\ res' = [res EXCEPT ![side[a]] = @ + 1]
                     /\ Goto(a, "idle")
                     /\ UNCHANGED <<next, data, buf, side, ticket, seen, val, calls>>
(* The compare-and-swap that succeeds; one that fails changes nothing.     *)
Publish(a) == /\ pc[a] = "publish" /\ res[side[a]] = ticket[a]
              /\ res' = [res EXCEPT ![side[a]] = ticket[a] + 1]
              /\ Goto(a, "idle")
              /\ UNCHANGED <<next, data, buf, side, ticket, seen, val, calls>>

Advance(a) == \/ Test(a) \/ Refresh(a) \/ StoreBuf(a) \/ Retest(a)
              \/ Undo(a) \/ WriteSlot(a) \/ ReadSlot(a) \/ Publish(a)
Step(a) == CallPush(a) \/ CallPop(a) \/ Advance(a)
Next == \E a \in Actor : Step(a)
Spec == Init /\ [][Next]_vars
(* A thread inside push or pop keeps running.                              *)
FairSpec == Spec /\ \A a \in Actor : WF_vars(Advance(a))
-----------------------------------------------------------------------------
TypeOK ==
  /\ next \in [Side -> Nat] /\ res \in [Side -> Nat]
  /\ data \in [0 .. Capacity - 1 -> Value \cup {NoValue}]
  /\ buf \in [Side -> [Rank -> Nat]]
  /\ side \in [Actor -> Side]
  /\ pc \in [Actor -> {"idle", "test", "refresh", "store", "retest",
                       "undo", "access", "publish"}]
  /\ ticket \in [Actor -> Nat] /\ seen \in [Actor -> Nat]
  /\ val \in [Actor -> Value \cup {NoValue}]
  /\ calls \in [Actor -> 0 .. MaxCalls]

(* The elements, oldest first: tickets published and not yet popped.       *)
Contents == [i \in 1 .. res["push"] - res["pop"] |->
               data[Slot(res["pop"] + i - 1)]]
Doing == [a \in Actor |-> IF pc[a] = "idle" THEN "none" ELSE side[a]]
Held == [a \in Actor |-> IF pc[a] # "idle" /\ side[a] = "pop"
                           THEN NoValue ELSE val[a]]
BQ == INSTANCE BoundedQueue WITH q <- Contents, doing <- Doing, held <- Held

(* Whatever the threads do, and even when two of them were given the same  *)
(* ticket (lines 215, 416), the calls that return behave as those of one   *)
(* bounded first-in first-out queue: no element is lost, popped twice,     *)
(* overtaken or overwritten.                                               *)
KeepsFIFO == BQ!QSpec

(* The calls in progress are what tail is ahead of reserved_tail, and head *)
(* of reserved_head (lines 46-47): failed calls leave no trace there.      *)
TicketsCounted ==
  \A s \in Side : next[s] = res[s] + Cardinality(InFlight(s))

(* A call that passed its test accesses a slot that is its own: a push     *)
(* does not write where an element waits to be popped, nor a pop read      *)
(* where none is published, however old the cached counter (line 52).      *)
Granted(a) == pc[a] \in {"access", "publish"}
OwnSlot ==
  \A a \in Actor : Granted(a) =>
    IF side[a] = "push"
      THEN ticket[a] \in res["push"] .. res["pop"] + Capacity - 1
      ELSE ticket[a] \in res["pop"] .. res["push"] - 1

(* A granted call is stranded when the ticket to be published next is held *)
(* by nobody: a failed call gave it back after a later one was taken.      *)
Stranded(a) ==
  Granted(a) /\ \A b \in InFlight(side[a]) : ticket[b] # res[side[a]]

(* A stranded call stays stranded: the compare-and-swap loops (lines       *)
(* 223-228, 432-437) never end.                                            *)
StrandedForever == [][\A a \in Actor : Stranded(a) => Stranded(a)']_vars

(* And that is the only way to hang: every other call returns, patient     *)
(* pushes and those queued behind them apart.                              *)
ReturnsOrStranded ==
  \A a \in Actor : pc[a] # "idle" ~>
    \/ pc[a] = "idle" \/ Stranded(a)
    \/ side[a] = "push" /\ \E b \in Patient : b \in InFlight("push")

(* Every call of push and pop returns.                                     *)
CallsReturn == \A a \in Actor : pc[a] # "idle" ~> pc[a] = "idle"
=============================================================================
