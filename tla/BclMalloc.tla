------------------------------ MODULE BclMalloc ------------------------------
(***************************************************************************)
(* The allocator of a rank's shared segment (bcl/core/malloc.hpp). Memory  *)
(* is counted in units of 64 bytes; the first unit is not used, and every  *)
(* chunk starts with one unit of header (chunk_t). Freed chunks form a     *)
(* doubly linked list that is searched first; what lies past smem_heap was *)
(* never handed out. A mutex makes every call one step.                    *)
(***************************************************************************)
EXTENDS Integers, FiniteSets

CONSTANTS Segment,  \* shared_segment_size
          Sizes     \* sizes asked for; 0 is one (ranks without tasks ask for it)

ASSUME SegmentAssumption == Segment \in Nat \ {0} /\ Sizes \subseteq Nat

NULL == 0
Header == 1         \* chunk_t_size()
Smallest == 1       \* SMALLEST_MEM_UNIT
Address == 1 .. Segment

VARIABLES
  size,   \* the fields of the header written at an address
  last,
  next,
  flist,
  heap,   \* smem_heap
  used,   \* the chunks handed out
  asked   \* history: what was asked of each

vars == <<size, last, next, flist, heap, used, asked>>

Init == /\ size = [a \in Address |-> 0]
        /\ last = [a \in Address |-> NULL]
        /\ next = [a \in Address |-> NULL]
        /\ flist = NULL
        /\ heap = Smallest
        /\ used = {}
        /\ asked = [a \in Address |-> 0]

(* f[p] = v, where p may be the null pointer and is then not followed.     *)
Put(f, p, v) == IF p = NULL THEN f ELSE [f EXCEPT ![p] = v]

(* The free list: its chunks in the order the loops meet them, and the     *)
(* first of them that P holds of.                                          *)
Nth == LET at[i \in Nat] ==
             IF i = 0 THEN flist
             ELSE LET c == at[i - 1] IN IF c = NULL THEN NULL ELSE next[c]
       IN  [i \in 0 .. Segment |-> at[i]]
FirstOf(P(_)) ==
  LET at == Nth
      hits == {i \in DOMAIN at : IF at[i] = NULL THEN FALSE ELSE P(at[i])}
  IN  IF hits = {} THEN NULL ELSE at[CHOOSE i \in hits : \A k \in hits : i <= k]
-----------------------------------------------------------------------------
Hand(c, n) == /\ used' = used \cup {c}
              /\ asked' = [asked EXCEPT ![c] = n]

(* MUTANT of Split: the header of what is left over is not counted.        *)
SplitShort(c, n) ==
  LET rest == c + n
  IN /\ size[c] > Smallest + n + Header /\ n > 0
     /\ size' = [size EXCEPT ![rest] = size[c] - n, ![c] = n]
     /\ last' = Put([last EXCEPT ![rest] = last[c], ![c] = NULL], next[c], rest)
     /\ next' = Put([next EXCEPT ![rest] = next[c], ![c] = NULL], last[c], rest)
     /\ flist' = IF c = flist THEN rest ELSE flist
     /\ Hand(c, n)
     /\ UNCHANGED heap
(* A chunk too large: the end of it takes its place in the list.           *)
Split(c, n) ==
  LET rest == c + Header + n
  IN /\ size[c] > Smallest + n + Header
     /\ size' = [size EXCEPT ![rest] = size[c] - n - Header, ![c] = n]
     /\ last' = Put([last EXCEPT ![rest] = last[c], ![c] = NULL], next[c], rest)
     /\ next' = Put([next EXCEPT ![rest] = next[c], ![c] = NULL], last[c], rest)
     /\ flist' = IF c = flist THEN rest ELSE flist
     /\ Hand(c, n)
     /\ UNCHANGED heap

(* MUTANT of Unlink: the next chunk still points back to this one.         *)
UnlinkHalf(c, n) == /\ size[c] <= Smallest + n + Header
                    /\ last' = [last EXCEPT ![c] = NULL]
                    /\ next' = Put([next EXCEPT ![c] = NULL], last[c], next[c])
                    /\ flist' = IF c = flist THEN next[c] ELSE flist
                    /\ Hand(c, n)
                    /\ UNCHANGED <<size, heap>>
(* A chunk of the right size leaves the list.                              *)
Unlink(c, n) == /\ size[c] <= Smallest + n + Header
                /\ last' = Put([last EXCEPT ![c] = NULL], next[c], last[c])
                /\ next' = Put([next EXCEPT ![c] = NULL], last[c], next[c])
                /\ flist' = IF c = flist THEN next[c] ELSE flist
                /\ Hand(c, n)
                /\ UNCHANGED <<size, heap>>

(* MUTANT of Bump: the end of the segment is tested before the block's     *)
(* size is added.                                                          *)
BumpLate(n) == /\ heap + Header <= Segment
               /\ size' = [size EXCEPT ![heap] = n]
               /\ heap' = heap + Header + n
               /\ Hand(heap, n)
               /\ UNCHANGED <<last, next, flist>>
(* A chunk off the heap, if the segment has room for it.                   *)
Bump(n) == /\ heap + Header + n <= Segment
           /\ size' = [size EXCEPT ![heap] = n]
           /\ heap' = heap + Header + n
           /\ Hand(heap, n)
           /\ UNCHANGED <<last, next, flist>>
(* If not, the header is written all the same.                             *)
NoRoom(n) == /\ heap + Header + n > Segment
             /\ size' = [size EXCEPT ![heap] = n]
             /\ UNCHANGED <<last, next, flist, heap, used, asked>>

(* MUTANT of local_malloc: a chunk one unit too short is taken as well.    *)
local_malloc_short(n) ==
  LET c == FirstOf(LAMBDA d : size[d] + 1 >= n)
  IN  IF c = NULL THEN Bump(n) \/ NoRoom(n) ELSE Split(c, n) \/ Unlink(c, n)
local_malloc(n) == LET c == FirstOf(LAMBDA d : size[d] >= n)
                   IN  IF c = NULL THEN Bump(n) \/ NoRoom(n)
                                   ELSE Split(c, n) \/ Unlink(c, n)
-----------------------------------------------------------------------------
(* Where a freed chunk goes: after the first chunk of the list that has a  *)
(* lower address, or else to the front.                                    *)
Before(c) == FirstOf(LAMBDA d : c > d)

(* A list is a record of the four pointers and sizes that freeing changes. *)
Insert(c) ==
  LET b == Before(c)
      after == IF b = NULL THEN flist ELSE next[b]
  IN  [size |-> size,
       next |-> Put([next EXCEPT ![c] = after], b, c),
       last |-> Put([last EXCEPT ![c] = b], after, c),
       flist |-> IF b = NULL THEN c ELSE flist]

(* MUTANT of Join: the header that is swallowed is not counted.            *)
JoinShort(l, c, d) ==
  [size |-> [l.size EXCEPT ![c] = @ + l.size[d], ![d] = 0],
   next |-> [l.next EXCEPT ![c] = l.next[d], ![d] = NULL],
   last |-> Put([l.last EXCEPT ![d] = NULL], l.next[d], c),
   flist |-> l.flist]
(* The chunk d that lies right after c, and follows it in the list, joins  *)
(* it. What was d's header is memory of c from then on.                    *)
Join(l, c, d) ==
  [size |-> [l.size EXCEPT ![c] = @ + Header + l.size[d], ![d] = 0],
   next |-> [l.next EXCEPT ![c] = l.next[d], ![d] = NULL],
   last |-> Put([l.last EXCEPT ![d] = NULL], l.next[d], c),
   flist |-> l.flist]
Adjacent(l, c, d) == c # NULL /\ d # NULL /\ d = c + Header + l.size[c]

CompactAfter(l, c) ==
  IF Adjacent(l, c, l.next[c]) THEN Join(l, c, l.next[c]) ELSE l
CompactBefore(l, c) ==
  IF Adjacent(l, l.last[c], c) THEN Join(l, l.last[c], c) ELSE l

local_free(c) == LET l == CompactBefore(CompactAfter(Insert(c), c), c)
                 IN  /\ c \in used
                     /\ size' = l.size /\ next' = l.next /\ last' = l.last
                     /\ flist' = l.flist
                     /\ used' = used \ {c}
                     /\ asked' = [asked EXCEPT ![c] = 0]
                     /\ UNCHANGED heap

Next == (\E n \in Sizes : local_malloc(n)) \/ (\E c \in Address : local_free(c))
Spec == Init /\ [][Next]_vars
-----------------------------------------------------------------------------
Free == LET at == Nth IN {at[i] : i \in 0 .. Segment} \ {NULL}
Span(c) == c .. c + Header + size[c] - 1

TypeOK == /\ size \in [Address -> (0 .. Segment) \cup Sizes]
          /\ last \in [Address -> Address \cup {NULL}]
          /\ next \in [Address -> Address \cup {NULL}]
          /\ flist \in Address \cup {NULL}
          /\ heap \in 1 .. Segment
          /\ used \subseteq Address
          /\ asked \in [Address -> Sizes \cup {0}]

(* Chunks in use and chunks in the list are all that lies below smem_heap: *)
(* none overlaps another, and none is lost (lines 77-110, 193-210).        *)
Tiled == /\ \A c, d \in used \cup Free : c # d => Span(c) \cap Span(d) = {}
         /\ UNION {Span(c) : c \in used \cup Free} = Smallest .. heap - 1
         /\ used \cap Free = {}

(* The list is well linked: last is the inverse of next, the walks end,    *)
(* and chunks in use are linked to nothing.                                *)
Linked == /\ \A c \in Free : /\ next[c] # NULL => last[next[c]] = c
                             /\ last[c] # NULL => next[last[c]] = c
                             /\ last[c] = NULL <=> c = flist
          /\ Nth[Cardinality(Free)] = NULL
          /\ \A c \in used : next[c] = NULL /\ last[c] = NULL

(* A block is as long as was asked for, and at most what a split would not *)
(* have left longer.                                                       *)
LongEnough == \A c \in used : size[c] \in asked[c] .. asked[c] + Smallest + Header

Allocator == INSTANCE SegmentAllocator WITH
               blocks <- {[at |-> c + Header, len |-> size[c]] : c \in used}
(* The calls are those of an allocator: a block that is handed out lies in *)
(* the segment, clear of every other, and nothing moves or resizes it.     *)
KeepsBlocks == Allocator!ASpec

(* "If chunk directly after is free, compact." "If chunk directly before   *)
(* is free, compact." (lines 192, 201)                                     *)
Compacted == \A c, d \in Free : d # c + Header + size[c]
=============================================================================
