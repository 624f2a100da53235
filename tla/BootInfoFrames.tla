--------------------------- MODULE BootInfoFrames ---------------------------
(***************************************************************************)
(* BootInfoFrameAllocator (kernel/src/memory.rs), the frame allocator that *)
(* the bitmap replaced: the frames of the usable regions of the memory map *)
(* in order, and the number of calls so far.  Beside it the same map makes *)
(* the bitmap, so that the two can be compared.                            *)
(***************************************************************************)
EXTENDS BitmapInit

CONSTANT MAX_MORE    \* calls that are modelled after the last frame

VARIABLES
  next,     \* the allocator's counter
  handed    \* what its calls have returned, in order: frames, -1 for None

legacy_vars == <<next, handed>>

\* Mutation: the end of the region is included.
AddressCount_m(r) == Ceil(r.end - r.start + 1, PAGE_SIZE)

\* step_by: the addresses of a region, a page's size apart.
AddressCount(r) == Ceil(r.end - r.start, PAGE_SIZE)

\* The places of the iterator usable_frames: a usable region, and an address
\* in it.
usable_frames ==
  UNION {{k} \X (1 .. AddressCount(memory_map[k])) :
           k \in {k \in DOMAIN memory_map : memory_map[k].usable}}

\* The frame that contains the address at a place.
FrameAt(place) ==
  (memory_map[place[1]].start + (place[2] - 1) * PAGE_SIZE) \div PAGE_SIZE

\* flat_map yields the regions in order, and the addresses of each in order.
Before(p, q) == p[1] < q[1] \/ (p[1] = q[1] /\ p[2] < q[2])

\* The place that n others come before.
IsNth(place, n) ==
  place \in usable_frames /\ Cardinality({p \in usable_frames : Before(p, place)}) = n

\* The next frame, or None.
Nth(n) ==
  IF \E place \in usable_frames : IsNth(place, n)
    THEN FrameAt(CHOOSE place \in usable_frames : IsNth(place, n))
    ELSE -1

\* nth(next): the counter advances whether or not there is a frame.
allocate_frame ==
  /\ next < Cardinality(usable_frames) + MAX_MORE
  /\ handed' = Append(handed, Nth(next))
  /\ next' = next + 1
  /\ UNCHANGED map_vars

MemoryInit == MapInit /\ next = 0 /\ handed = <<>>

MemoryNext == allocate_frame \/ (MapNext /\ UNCHANGED legacy_vars)

MemorySpec == MemoryInit /\ [][MemoryNext]_<<map_vars, legacy_vars>>

-----------------------------------------------------------------------------
(***************************************************************************)
(* Properties.                                                             *)
(***************************************************************************)
\* When the usable regions are whole pages, no frame is handed out twice,
\* and every byte of a frame is usable (BootInfoFrameAllocator::allocate_frame).
HandedOnce ==
  Aligned =>
    \A j \in DOMAIN handed :
      handed[j] # -1 =>
        /\ FrameBytes(handed[j]) \subseteq UsableBytes
        /\ \A k \in 1 .. j - 1 : handed[k] # handed[j]
=============================================================================
