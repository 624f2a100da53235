--------------------------- MODULE FrameAllocator ---------------------------
(***************************************************************************)
(* The physical frame allocator once it is running: allocate_frame and     *)
(* deallocate_frame of BitmapFrameAllocator (kernel/src/memory.rs).  How   *)
(* init fills the bitmap from the memory map is module BitmapInit.         *)
(*                                                                         *)
(* A frame is its index in the bitmap (base_addr is always 0).  The bitmap *)
(* is the set of the indices whose bit is true, that is, of the frames in  *)
(* use.  The padding bits that round the bitmap up to a whole byte are     *)
(* true from init on and are no frames, so they are left out.              *)
(***************************************************************************)
EXTENDS Integers

CONSTANT FRAME_COUNT   \* frame_count: one more than the highest usable frame

ASSUME FrameCountAssumption == FRAME_COUNT \in Nat

VARIABLE bitmap        \* the frames whose bit is true

Frames == 0 .. FRAME_COUNT - 1

\* The Option type of the code: a frame, or None.
None == -1

\* The bit that the iterator's find(|bit| !bit) stops at.
IsFirstFree(f) ==
  /\ f \in Frames \ bitmap
  /\ \A g \in Frames \ bitmap : f <= g

NoFreeFrame == Frames \subseteq bitmap

\* The Some(frame) case; the None case is NoFreeFrame and changes nothing.
allocate_frame(f) ==
  /\ IsFirstFree(f)
  /\ bitmap' = bitmap \cup {f}

\* frame_as_index is None for a frame the bitmap does not cover.
frame_as_index(f) == IF f \in Frames THEN f ELSE None

\* Mutation: the bit is not cleared.
deallocate_frame_m(f) == f \in Frames /\ bitmap' = bitmap

\* The Some(idx) case; the caller meets the todo!() of the None case.
deallocate_frame(f) == bitmap' = bitmap \ {frame_as_index(f)}
=============================================================================
