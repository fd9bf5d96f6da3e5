-------------------------- MODULE SegmentAllocator --------------------------
(***************************************************************************)
(* What local_malloc and local_free promise: a block lies inside the       *)
(* segment, is as long as was asked for, shares no unit with another block *)
(* or its header, and stays where it is until it is freed.                 *)
(***************************************************************************)
EXTENDS Naturals

CONSTANTS Segment,  \* units of 64 bytes of the segment
          Sizes     \* sizes asked for, in units

VARIABLE blocks     \* the blocks in use: where each starts and how long it is

Units(b) == b.at - 1 .. b.at + b.len - 1   \* with the unit of its header
Block == [at : 2 .. Segment, len : 0 .. Segment]

AInit == blocks = {}

Malloc(n) == \E b \in Block : /\ b.len >= n /\ b.at + b.len <= Segment
                              /\ \A c \in blocks : Units(b) \cap Units(c) = {}
                              /\ blocks' = blocks \cup {b}
Free == \E b \in blocks : blocks' = blocks \ {b}

ANext == Free \/ \E n \in Sizes : Malloc(n)
ASpec == AInit /\ [][ANext]_blocks
=============================================================================
