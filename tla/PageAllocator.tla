--------------------------- MODULE PageAllocator ---------------------------
(***************************************************************************)
(* PageAllocator::alloc and ::dealloc                                      *)
(* (kernel/src/allocator/page_allocator.rs) over the bitmap frame          *)
(* allocator and the page tables that Mapper::map_to and ::unmap change.   *)
(*                                                                         *)
(* A virtual address is its page number: every address the code computes   *)
(* here is page aligned.  usize arithmetic is modulo ADDR_PAGES, and       *)
(* traps when the build has overflow checks (the dev profile) and wraps    *)
(* when it has not (the release profile).                                  *)
(*                                                                         *)
(* PAGE_ALLOCATOR is a spin lock that is held for a whole call, so at most *)
(* one call is in progress: pa_pc is where it is.  A step is one call of   *)
(* allocate_frame, one page mapped or one page unmapped.                   *)
(***************************************************************************)
EXTENDS FrameAllocator

CONSTANTS
  START_VIRT,       \* KERNEL_HEAP_START, as a page number
  END_VIRT,         \* KERNEL_HEAP_END, as a page number
  ADDR_PAGES,       \* pages of the 64-bit address space: 2^52
  CANON_LOW,        \* pages below this one and ...
  CANON_HIGH,       \* ... from this one on have canonical addresses
  TABLE_PAGES,      \* pages that one level-1 page table maps: 512
  OVERFLOW_CHECKS,  \* whether the build traps on arithmetic overflow
  RESERVED          \* frames in use before the heap's first request

ASSUME AddressAssumption ==
  /\ ADDR_PAGES \in Nat /\ START_VIRT \in Nat /\ END_VIRT \in Nat
  /\ START_VIRT <= END_VIRT
  /\ END_VIRT < ADDR_PAGES
  /\ CANON_LOW \in Nat /\ CANON_HIGH \in Nat
  /\ CANON_HIGH <= START_VIRT
  /\ TABLE_PAGES \in Nat \ {0}

ASSUME BuildAssumption == OVERFLOW_CHECKS \in BOOLEAN

ASSUME ReservedAssumption == RESERVED \subseteq Frames

VARIABLES
  page_table,    \* page |-> the frame it is mapped to, or None
  tables,        \* page table |-> the frame that holds it, or None
  current_virt,  \* the bump pointer
  panic,         \* what the kernel panicked with, or "no"
  pa_pc,         \* where the call in progress is; "panicked" for good
  num_pages, start_addr, i, frame   \* its parameters and locals

pa_vars == <<bitmap, page_table, tables, current_virt, panic,
             pa_pc, num_pages, start_addr, i, frame>>

Pages == 0 .. ADDR_PAGES - 1

\* VirtAddr::new panics on an address that is not canonical.
IsCanonical(page) == page < CANON_LOW \/ page >= CANON_HIGH

\* The page tables a page is reached through, below the level-4 table that
\* the bootloader made: each level covers TABLE_PAGES times the one below.
Levels == 1 .. 3

Span(level) ==
  IF level = 1 THEN TABLE_PAGES
  ELSE IF level = 2 THEN TABLE_PAGES * TABLE_PAGES
  ELSE TABLE_PAGES * TABLE_PAGES * TABLE_PAGES

TableOf(level, page) == <<level, page \div Span(level)>>

Tables == {TableOf(level, page) : level \in Levels, page \in Pages}

\* The table map_to creates next on its walk from level 3 down to level 1.
IsMissing(level, page) ==
  /\ tables[TableOf(level, page)] = None
  /\ \A upper \in Levels : upper > level => tables[TableOf(upper, page)] # None

Walked(page) == \A level \in Levels : tables[TableOf(level, page)] # None

\* start_addr + i * PAGE_SIZE
page_virt == (start_addr + i) % ADDR_PAGES

Overflows(a, b) == a + b >= ADDR_PAGES

-----------------------------------------------------------------------------
\* The call in progress returns to its caller, or stops in a panic: the
\* panic handler prints the message and halts in a loop.
Return(result) == pa_pc' = result /\ UNCHANGED panic

Panic(message) == pa_pc' = "panicked" /\ panic' = message

\* Mutation: only the start of the range is checked.
alloc_m1(n) ==
  /\ pa_pc = "idle"
  /\ num_pages' = n
  /\ start_addr' = current_virt
  /\ i' = 0
  /\ IF OVERFLOW_CHECKS /\ Overflows(current_virt, n)
       THEN Panic("overflow")
       ELSE Return(IF current_virt >= END_VIRT THEN "err" ELSE "frame")
  /\ UNCHANGED <<bitmap, page_table, tables, current_virt, frame>>

\* Mutation: >= for >.
alloc_m2(n) ==
  /\ pa_pc = "idle"
  /\ num_pages' = n
  /\ start_addr' = current_virt
  /\ i' = 0
  /\ IF OVERFLOW_CHECKS /\ Overflows(current_virt, n)
       THEN Panic("overflow")
       ELSE Return(IF (current_virt + n) % ADDR_PAGES >= END_VIRT
                     THEN "err" ELSE "frame")
  /\ UNCHANGED <<bitmap, page_table, tables, current_virt, frame>>

\* alloc: the check against end_virt.
alloc(n) ==
  /\ pa_pc = "idle"
  /\ num_pages' = n
  /\ start_addr' = current_virt
  /\ i' = 0
  /\ IF OVERFLOW_CHECKS /\ Overflows(current_virt, n)
       THEN Panic("overflow")
       ELSE Return(IF (current_virt + n) % ADDR_PAGES > END_VIRT
                     THEN "err" ELSE "frame")
  /\ UNCHANGED <<bitmap, page_table, tables, current_virt, frame>>

\* alloc, loop: a frame for page i.
AllocFrame ==
  /\ pa_pc = "frame"
  /\ IF IsCanonical(page_virt)
       THEN \/ \E f \in Frames :
                 allocate_frame(f) /\ frame' = f /\ Return("walk")
            \/ NoFreeFrame /\ Return("err") /\ UNCHANGED <<bitmap, frame>>
       ELSE Panic("non-canonical") /\ UNCHANGED <<bitmap, frame>>
  /\ UNCHANGED <<page_table, tables, current_virt, num_pages, start_addr, i>>

\* alloc, loop: map_to creates the next missing page table for page i.  When
\* there is no frame for it, the frame taken for the page is not given back.
MapTable ==
  /\ pa_pc = "walk"
  /\ \E level \in Levels :
       /\ IsMissing(level, page_virt)
       /\ \/ \E f \in Frames :
               /\ allocate_frame(f)
               /\ tables' = [tables EXCEPT ![TableOf(level, page_virt)] = f]
               /\ UNCHANGED <<pa_pc, panic>>
          \/ NoFreeFrame /\ Return("err") /\ UNCHANGED <<bitmap, tables>>
  /\ UNCHANGED <<page_table, current_virt, num_pages, start_addr, i, frame>>

\* alloc, loop: map_to maps page i, and the bump pointer advances by the
\* whole request.  An entry in use is the error PageAlreadyMapped.
MapPage ==
  /\ pa_pc = "walk"
  /\ Walked(page_virt)
  /\ IF page_table[page_virt] # None
       THEN Return("err") /\ UNCHANGED <<page_table, current_virt, i>>
       ELSE /\ page_table' = [page_table EXCEPT ![page_virt] = frame]
            /\ IF OVERFLOW_CHECKS /\ Overflows(current_virt, num_pages)
                 THEN Panic("overflow") /\ UNCHANGED <<current_virt, i>>
                 ELSE /\ current_virt' = (current_virt + num_pages) % ADDR_PAGES
                      /\ i' = i + 1
                      /\ Return(IF i + 1 = num_pages THEN "ok" ELSE "frame")
  /\ UNCHANGED <<bitmap, tables, num_pages, start_addr, frame>>

\* dealloc: enters its loop.
dealloc(addr, n) ==
  /\ pa_pc = "idle"
  /\ num_pages' = n
  /\ start_addr' = addr
  /\ i' = 0
  /\ pa_pc' = "unmap"
  /\ UNCHANGED <<bitmap, page_table, tables, current_virt, panic, frame>>

\* Mutation: the page table entry is not cleared.
UnmapPage_m1 ==
  /\ pa_pc = "unmap"
  /\ page_table[page_virt] # None
  /\ deallocate_frame(page_table[page_virt])
  /\ i' = i + 1
  /\ Return(IF i + 1 = num_pages THEN "ok" ELSE "unmap")
  /\ UNCHANGED <<page_table, tables, current_virt, num_pages, start_addr, frame>>

\* Mutation: the loop runs once too often.
UnmapPage_m2 ==
  /\ pa_pc = "unmap"
  /\ LET mapped_frame == page_table[page_virt] IN
       IF mapped_frame = None
         THEN Panic("dealloc failed") /\ UNCHANGED <<bitmap, page_table, i>>
         ELSE /\ page_table' = [page_table EXCEPT ![page_virt] = None]
              /\ deallocate_frame(mapped_frame)
              /\ i' = i + 1
              /\ Return(IF i = num_pages THEN "ok" ELSE "unmap")
  /\ UNCHANGED <<tables, current_virt, num_pages, start_addr, frame>>

\* Mutation: the addresses of the range are given back.
UnmapPage_m3 ==
  /\ pa_pc = "unmap"
  /\ page_table[page_virt] # None
  /\ page_table' = [page_table EXCEPT ![page_virt] = None]
  /\ deallocate_frame(page_table[page_virt])
  /\ i' = i + 1
  /\ Return(IF i + 1 = num_pages THEN "ok" ELSE "unmap")
  /\ current_virt' = start_addr
  /\ UNCHANGED <<tables, num_pages, start_addr, frame>>

\* dealloc, loop: unmap page i and give its frame back.  The callers turn an
\* unmap error into a panic (expect), as deallocate_frame does (todo!) for a
\* frame outside the bitmap.
UnmapPage ==
  /\ pa_pc = "unmap"
  /\ LET mapped_frame == page_table[page_virt] IN
       IF mapped_frame = None
         THEN Panic("dealloc failed") /\ UNCHANGED <<bitmap, page_table, i>>
         ELSE /\ page_table' = [page_table EXCEPT ![page_virt] = None]
              /\ deallocate_frame(mapped_frame)
              /\ IF frame_as_index(mapped_frame) = None
                   THEN Panic("todo") /\ UNCHANGED i
                   ELSE /\ i' = i + 1
                        /\ Return(IF i + 1 = num_pages THEN "ok" ELSE "unmap")
  /\ UNCHANGED <<tables, current_virt, num_pages, start_addr, frame>>

PaInit ==
  /\ bitmap = RESERVED
  /\ page_table = [page \in Pages |-> None]
  /\ tables = [t \in Tables |-> None]
  /\ current_virt = START_VIRT
  /\ panic = "no"
  /\ pa_pc = "idle"
  /\ num_pages = 0 /\ start_addr = 0 /\ i = 0 /\ frame = None

PaStep == AllocFrame \/ MapTable \/ MapPage \/ UnmapPage

-----------------------------------------------------------------------------
(***************************************************************************)
(* Properties, which the module of the whole heap checks and proves.       *)
(***************************************************************************)
Disjoint(S, T) == S \cap T = {}

\* The variables of the page and frame allocator.
PageTypeOK ==
  /\ bitmap \subseteq Frames
  /\ page_table \in [Pages -> Frames \cup {None}]
  /\ tables \in [Tables -> Frames \cup {None}]
  /\ current_virt \in Pages
  /\ panic \in {"no", "overflow", "non-canonical", "dealloc failed", "todo",
                "LARGE_ALLOCS is full!"}
  /\ pa_pc \in {"idle", "frame", "walk", "unmap", "ok", "err", "panicked"}
  /\ num_pages \in Nat /\ start_addr \in Pages /\ i \in Nat
  /\ frame \in Frames \cup {None}

MappedFrames == {page_table[page] : page \in Pages} \ {None}

TableFrames == {tables[t] : t \in Tables} \ {None}

\* A frame has one owner: no two pages, no two page tables, and no page and
\* page table share a frame, and every frame in such use is marked in the
\* bitmap and was not in use before (AllocFrame, MapTable, UnmapPage).
FrameOwnership ==
  /\ \A p, q \in Pages :
       page_table[p] # None /\ page_table[p] = page_table[q] => p = q
  /\ \A t, u \in Tables : tables[t] # None /\ tables[t] = tables[u] => t = u
  /\ Disjoint(MappedFrames, TableFrames)
  /\ MappedFrames \cup TableFrames \subseteq bitmap \ RESERVED

\* The heap stays in [KERNEL_HEAP_START, KERNEL_HEAP_END).
HeapWindow ==
  \A page \in Pages : page_table[page] # None => page \in START_VIRT .. END_VIRT - 1

\* alloc fails only when something has run out: every frame is in use, or
\* the bump pointer is too close to the end of the heap's addresses.
FailsOnlyWhenExhausted ==
  pa_pc = "err" => NoFreeFrame \/ current_virt + num_pages > END_VIRT

\* The frames that are marked in use and that nobody owns.
LostFrames ==
  bitmap \ (RESERVED \cup MappedFrames \cup TableFrames
              \cup IF pa_pc = "walk" THEN {frame} ELSE {})

(***************************************************************************)
(* The inductive invariant behind FrameOwnership and HeapWindow, for a     *)
(* build with overflow checks.                                             *)
(***************************************************************************)
\* The frame that alloc holds in a local has no other owner.
LocalFrameInv ==
  pa_pc = "walk" =>
    frame \in bitmap \ (RESERVED \cup MappedFrames \cup TableFrames)

\* A frame that was in use before the heap stays so.
ReservedInUse == RESERVED \subseteq bitmap

\* While the loop of alloc runs, its range is in the heap, no page from page i
\* on is mapped, and the bump pointer is past the range after the first page.
LoopInv ==
  pa_pc \in {"frame", "walk"} =>
    /\ START_VIRT <= start_addr
    /\ start_addr + num_pages <= END_VIRT
    /\ i < num_pages
    /\ i = 0 => current_virt = start_addr
    /\ i # 0 => current_virt >= start_addr + num_pages
    /\ \A page \in Pages : page >= start_addr + i => page_table[page] = None

\* Otherwise no page from the bump pointer on is mapped.
BumpInv ==
  /\ START_VIRT <= current_virt
  /\ pa_pc \notin {"frame", "walk"} =>
       \A page \in Pages : page >= current_virt => page_table[page] = None

PageInv ==
  /\ PageTypeOK
  /\ FrameOwnership
  /\ HeapWindow
  /\ ReservedInUse
  /\ LocalFrameInv
  /\ LoopInv
  /\ BumpInv
=============================================================================
