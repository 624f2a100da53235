---------------------------- MODULE AbstractHeap ----------------------------
(***************************************************************************)
(* What a global allocator promises the rest of the kernel (the contract   *)
(* of core::alloc::GlobalAlloc, which Locked<FixedSizeBlockAllocator>      *)
(* implements): a block is given out only if its bytes are in the heap,    *)
(* suitably aligned and in no block that is held.                          *)
(***************************************************************************)
EXTENDS Naturals

CONSTANTS
  Addresses,   \* the addresses of the heap
  Layouts      \* the layouts that are asked for

VARIABLE live  \* the blocks that are held

Bytes(b) == b.ptr .. b.ptr + b.layout.size - 1

Allocate(b) ==
  /\ Bytes(b) \subseteq Addresses
  /\ b.ptr % b.layout.align = 0
  /\ \A c \in live : Bytes(b) \cap Bytes(c) = {}
  /\ live' = live \cup {b}

Free(b) == live' = live \ {b}

Init == live = {}

\* A call that fails changes nothing.
Next ==
  \/ \E b \in [ptr : Addresses, layout : Layouts] : Allocate(b)
  \/ \E b \in live : Free(b)

Spec == Init /\ [][Next]_live
=============================================================================
