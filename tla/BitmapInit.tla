----------------------------- MODULE BitmapInit -----------------------------
(***************************************************************************)
(* BitmapFrameAllocator::init (kernel/src/memory.rs): the bitmap of frames *)
(* in use, built from the bootloader's memory map, and the place in memory *)
(* where it is kept.  Addresses are bytes of a scaled-down memory.  The    *)
(* regions of a map are sorted and disjoint; they need not be page         *)
(* aligned, and need not cover all of memory.                              *)
(***************************************************************************)
EXTENDS Integers, Sequences, FiniteSets, FiniteSetsExt

CONSTANTS
  PAGE_SIZE,      \* 4096
  BYTE_BITS,      \* bits in a byte of the bitmap: 8
  LOW_END,        \* 0x100000: the bitmap is not put below this address
  KERNEL_END,     \* 0x1000000: from LOW_END to here nothing is handed out
  MAX_ILLEGAL,    \* 64
  PHYS_END,       \* the end of the physical address space
  MemoryMaps      \* the maps the bootloader may pass

ASSUME MemoryAssumption ==
  /\ PAGE_SIZE \in Nat \ {0} /\ BYTE_BITS \in Nat \ {0}
  /\ LOW_END \in Nat /\ KERNEL_END \in Nat /\ LOW_END < KERNEL_END
  /\ MAX_ILLEGAL \in Nat \ {0} /\ PHYS_END \in Nat

\* A map is a sequence of regions that are not empty and do not overlap, in the
\* order of their addresses.
ASSUME MapAssumption ==
  \A map \in MemoryMaps :
    /\ map \in Seq([start : 0 .. PHYS_END, end : 0 .. PHYS_END, usable : BOOLEAN])
    /\ \A k \in DOMAIN map : map[k].start < map[k].end
    /\ \A j, k \in DOMAIN map : j < k => map[j].end <= map[k].start

VARIABLES
  memory_map,        \* sequence of regions [start, end, usable]
  bitmap,            \* the bits that are true
  bitmap_phys_addr,  \* where the bitmap is kept
  map_pc             \* "start", "done" or "panicked"

map_vars == <<memory_map, bitmap, bitmap_phys_addr, map_pc>>

Regions == {memory_map[k] : k \in DOMAIN memory_map}

Usable == {r \in Regions : r.usable}

Ceil(a, b) == (a + b - 1) \div b

max_addr == Max({0} \cup {r.end : r \in Usable})

max_frame == Ceil(max_addr, PAGE_SIZE)

bytes_needed == Ceil(max_frame, BYTE_BITS)

\* Mutation: containment instead of overlap.
ranges_intersect_m(a_start, a_end, b_start, b_end) ==
  a_start >= b_start /\ a_end <= b_end

ranges_intersect(a_start, a_end, b_start, b_end) ==
  a_start < b_end /\ a_end > b_start

\* The regions before the k-th that are not usable.
Others(k) == {j \in 1 .. k - 1 : ~memory_map[j].usable}

\* The loop over the regions records one that is not usable as long as there is
\* room beside the first entry, which is fixed.
Recorded(k) ==
  ~memory_map[k].usable /\ Cardinality(Others(k)) < MAX_ILLEGAL - 1

ILLEGAL_REGIONS ==
  {[start |-> LOW_END, end |-> KERNEL_END]}
    \cup {[start |-> memory_map[k].start, end |-> memory_map[k].end] :
            k \in {k \in DOMAIN memory_map : Recorded(k)}}

IntersectsIllegal(start, end) ==
  \E off \in ILLEGAL_REGIONS : ranges_intersect(start, end, off.start, off.end)

\* The address that the bitmap would have in a region.
PlaceIn(r) == Max({r.start, LOW_END})

\* Mutation: a region that is too small is not skipped.
Suits_m(r) ==
  /\ r.usable
  /\ r.end > LOW_END
  /\ ~IntersectsIllegal(PlaceIn(r), r.end)

\* Whether the search for a place for the bitmap stops at this region.
Suits(r) ==
  /\ r.usable
  /\ r.end > LOW_END
  /\ r.end - PlaceIn(r) >= bytes_needed
  /\ ~IntersectsIllegal(PlaceIn(r), r.end)

\* Mutation: the end of the range of frames, which is exclusive, is off by one.
FreeFrames_m(phys_addr) ==
  {f \in 0 .. max_frame - 1 :
     /\ \E r \in Usable :
          f \in r.start \div PAGE_SIZE .. Ceil(r.end, PAGE_SIZE) - 2
     /\ ~ranges_intersect(f * PAGE_SIZE, (f + 1) * PAGE_SIZE,
                          phys_addr, phys_addr + bytes_needed)
     /\ ~IntersectsIllegal(f * PAGE_SIZE, (f + 1) * PAGE_SIZE)}

\* The frames that step 12 of init marks free, for a bitmap at this address.
FreeFrames(phys_addr) ==
  {f \in 0 .. max_frame - 1 :
     /\ \E r \in Usable :
          f \in r.start \div PAGE_SIZE .. Ceil(r.end, PAGE_SIZE) - 1
     /\ ~ranges_intersect(f * PAGE_SIZE, (f + 1) * PAGE_SIZE,
                          phys_addr, phys_addr + bytes_needed)
     /\ ~IntersectsIllegal(f * PAGE_SIZE, (f + 1) * PAGE_SIZE)}

MapInit ==
  /\ memory_map \in MemoryMaps
  /\ bitmap = {}
  /\ bitmap_phys_addr = 0
  /\ map_pc = "start"

\* The first region that suits holds the bitmap.  Every bit of the bitmap is
\* set, its own frames again, and then the free frames are cleared.
init ==
  /\ map_pc = "start"
  /\ \E k \in DOMAIN memory_map :
       /\ Suits(memory_map[k])
       /\ \A j \in 1 .. k - 1 : ~Suits(memory_map[j])
       /\ bitmap_phys_addr' = PlaceIn(memory_map[k])
  /\ bitmap' = (0 .. bytes_needed * BYTE_BITS - 1) \ FreeFrames(bitmap_phys_addr')
  /\ map_pc' = "done"
  /\ UNCHANGED memory_map

\* "Could not find a suitable region to place the bitmap!"
init_panics ==
  /\ map_pc = "start"
  /\ \A k \in DOMAIN memory_map : ~Suits(memory_map[k])
  /\ map_pc' = "panicked"
  /\ UNCHANGED <<memory_map, bitmap, bitmap_phys_addr>>

\* init runs once.
Finished == map_pc # "start" /\ UNCHANGED map_vars

MapNext == init \/ init_panics \/ Finished

MapSpec == MapInit /\ [][MapNext]_map_vars

-----------------------------------------------------------------------------
(***************************************************************************)
(* Properties, over the single bytes of memory.                            *)
(***************************************************************************)
BytesOf(r) == r.start .. r.end - 1

UsableBytes == UNION {BytesOf(r) : r \in Usable}

ReservedBytes == UNION {BytesOf(r) : r \in Regions \ Usable}

FrameBytes(f) == f * PAGE_SIZE .. (f + 1) * PAGE_SIZE - 1

BitmapBytes == bitmap_phys_addr .. bitmap_phys_addr + bytes_needed - 1

KernelBytes == LOW_END .. KERNEL_END - 1

FreeBits == (0 .. bytes_needed * BYTE_BITS - 1) \ bitmap

\* The bits that are true are bits of the bitmap.
MapTypeOK ==
  /\ \A r \in Regions : r.start < r.end
  /\ bitmap \subseteq 0 .. bytes_needed * BYTE_BITS - 1
  /\ bitmap_phys_addr \in Nat
  /\ map_pc \in {"start", "done", "panicked"}

\* The usable regions are whole pages, as the bootloader's are.
Aligned ==
  \A r \in Usable : r.start % PAGE_SIZE = 0 /\ r.end % PAGE_SIZE = 0

\* ILLEGAL_REGIONS has room for every region that is not usable.
AllRecorded == Cardinality(Others(Len(memory_map) + 1)) < MAX_ILLEGAL

\* What init marks free can be handed out: no byte of such a frame is in the
\* range kept for the kernel or in the bitmap itself, and the padding bits at
\* the bitmap's end are no frames.  Nor is a byte in a region that is not
\* usable, although the list of these regions is cut short: what is left out
\* matters only to a usable region that ends within a page.
FreeFramesAreSafe ==
  map_pc = "done" =>
    \A f \in FreeBits :
      /\ f < max_frame
      /\ FrameBytes(f) \cap (KernelBytes \cup BitmapBytes) = {}
      /\ Aligned \/ AllRecorded => FrameBytes(f) \cap ReservedBytes = {}

\* No memory is wasted: a frame of usable bytes only that is not in the range
\* kept for the kernel and holds no byte of the bitmap is marked free.
UsableFramesAreFree ==
  map_pc = "done" =>
    \A f \in 0 .. max_frame - 1 :
      /\ FrameBytes(f) \subseteq UsableBytes
      /\ FrameBytes(f) \cap (KernelBytes \cup BitmapBytes) = {}
      => f \in FreeBits

\* The bitmap is kept in usable memory only, outside the kernel's range.
BitmapInUsableMemory ==
  map_pc = "done" => BitmapBytes \subseteq UsableBytes \ (KernelBytes \cup 0 .. LOW_END - 1)
=============================================================================
