----------------------------- MODULE KernelHeap -----------------------------
(***************************************************************************)
(* The kernel's global allocator: GlobalAlloc for                          *)
(* Locked<FixedSizeBlockAllocator> (kernel/src/allocator/                  *)
(* fixed_size_block.rs) with the map of large allocations (alloc_info.rs), *)
(* over the page allocator and the frame allocator.                        *)
(*                                                                         *)
(* An address and a size count units of the smallest block (8 bytes).      *)
(* ALLOCATOR is a spin lock that is held for a whole call, so one call is  *)
(* in progress at a time: heap_pc is where it is.  Everything between two  *)
(* calls into the page allocator is one step.  A free list, which the code *)
(* threads through the free blocks, is the sequence of their addresses.    *)
(***************************************************************************)
EXTENDS PageAllocator, Sequences, FiniteSets

CONSTANTS
  PAGE_SIZE,         \* units in a page: 4096 bytes
  BLOCK_SIZES,       \* the block sizes in units, increasing: 8 .. 2048 bytes
  MAX_LIST_LENGTH,   \* 4096
  MAX_LARGE_ALLOCS,  \* slots of LARGE_ALLOCS: 512
  Layouts            \* the layouts the rest of the kernel asks for

ASSUME HeapAssumption ==
  /\ PAGE_SIZE \in Nat \ {0}
  /\ BLOCK_SIZES \in Seq(Nat \ {0}) /\ BLOCK_SIZES # <<>>
  /\ MAX_LIST_LENGTH \in Nat /\ MAX_LARGE_ALLOCS \in Nat
  /\ Layouts \subseteq [size : Nat \ {0}, align : Nat \ {0}]

\* Block sizes and alignments are powers of two, the sizes at most a page;
\* nobody asks for an alignment above a page.
ASSUME AlignAssumption ==
  /\ \A k \in DOMAIN BLOCK_SIZES : PAGE_SIZE % BLOCK_SIZES[k] = 0
  /\ \A l \in Layouts :
       /\ PAGE_SIZE % l.align = 0
       /\ \A k \in DOMAIN BLOCK_SIZES :
            BLOCK_SIZES[k] >= l.align => BLOCK_SIZES[k] % l.align = 0

VARIABLES
  list_heads,    \* block size index |-> the free blocks, the head first
  list_lengths,  \* block size index |-> the counter kept beside the list
  LARGE_ALLOCS,  \* the used slots: they are filled in order, never emptied
  live,          \* the blocks the rest of the kernel holds
  heap_pc,       \* where the call in progress is
  layout,        \* its parameters
  ptr,
  slot           \* its position in LARGE_ALLOCS

heap_vars == <<list_heads, list_lengths, LARGE_ALLOCS, live,
               heap_pc, layout, ptr, slot>>

vars == <<pa_vars, heap_vars>>

Classes == DOMAIN BLOCK_SIZES

Max2(a, b) == IF a >= b THEN a ELSE b

\* Mutation: the alignment is forgotten.
required_block_size_m(l) == l.size

required_block_size(l) == Max2(l.size, l.align)

\* The position of the first block size that is large enough, or None.
list_index(l) ==
  LET fits == {k \in Classes : BLOCK_SIZES[k] >= required_block_size(l)}
  IN  IF fits = {} THEN None ELSE CHOOSE k \in fits : \A j \in fits : k <= j

IsSmall(l) == list_index(l) # None

\* Mutation: rounds down to whole pages.
PagesFor_m(l) == required_block_size(l) \div PAGE_SIZE

PagesFor(l) == (required_block_size(l) + PAGE_SIZE - 1) \div PAGE_SIZE

\* Mutation: the block that goes to the caller is pushed as well.
Carve_m(page, index, skip, list) ==
  LET size == BLOCK_SIZES[index]
      num_blocks == PAGE_SIZE \div size
  IN  [k \in 1 .. num_blocks |->
         page * PAGE_SIZE + (num_blocks - k) * size] \o list

\* Mutation: the loop stops one block early.
Carve_n(page, index, skip, list) ==
  LET size == BLOCK_SIZES[index]
      num_blocks == PAGE_SIZE \div size
  IN  [k \in 1 .. num_blocks - skip - 1 |->
         page * PAGE_SIZE + (num_blocks - 1 - k) * size] \o list

\* The free list after the blocks of a page but the first skip ones have been
\* pushed in the order of their addresses: the last block is the head.
Carve(page, index, skip, list) ==
  LET size == BLOCK_SIZES[index]
      num_blocks == PAGE_SIZE \div size
  IN  [k \in 1 .. num_blocks - skip |->
         page * PAGE_SIZE + (num_blocks - k) * size] \o list

Hold(p, l) == live' = live \cup {[ptr |-> p, layout |-> l]}

NoLayout == [size |-> 0, align |-> 0]

\* The call returns, ALLOCATOR is unlocked, and its locals are gone.
Done ==
  /\ heap_pc' = "idle" /\ layout' = NoLayout /\ ptr' = 0 /\ slot' = 0
  /\ pa_pc' = "idle" /\ UNCHANGED panic
  /\ num_pages' = 0 /\ start_addr' = 0 /\ i' = 0 /\ frame' = None

KeepPages == UNCHANGED <<bitmap, page_table, tables, current_virt>>

KeepCall == UNCHANGED <<layout, ptr, slot>>

-----------------------------------------------------------------------------
(* init: one page of the smallest blocks; no page is no error. *)
init ==
  /\ heap_pc = "boot"
  /\ alloc(1)
  /\ heap_pc' = "init"
  /\ KeepCall
  /\ UNCHANGED <<list_heads, list_lengths, LARGE_ALLOCS, live>>

init_done ==
  /\ heap_pc = "init"
  /\ \/ /\ pa_pc = "ok"
        /\ list_heads' = [list_heads EXCEPT ![1] = Carve(start_addr, 1, 0, @)]
     \/ pa_pc = "err" /\ UNCHANGED list_heads
  /\ Done
  /\ KeepPages
  /\ UNCHANGED <<list_lengths, LARGE_ALLOCS, live>>

(* alloc *)
alloc_pop(l) ==
  /\ heap_pc = "idle"
  /\ IsSmall(l)
  /\ LET index == list_index(l) IN
       /\ list_heads[index] # <<>>
       /\ Hold(Head(list_heads[index]), l)
       /\ list_heads' = [list_heads EXCEPT ![index] = Tail(@)]
  /\ UNCHANGED <<pa_vars, list_lengths, LARGE_ALLOCS, heap_pc>>
  /\ KeepCall

refill_free_list(l) ==
  /\ heap_pc = "idle"
  /\ IsSmall(l)
  /\ list_heads[list_index(l)] = <<>>
  /\ alloc(1)
  /\ heap_pc' = "refill"
  /\ layout' = l
  /\ UNCHANGED <<list_heads, list_lengths, LARGE_ALLOCS, live, ptr, slot>>

\* Mutation: retries until a frame is free.
refill_done_m ==
  /\ heap_pc = "refill"
  /\ \/ /\ pa_pc = "ok"
        /\ LET index == list_index(layout) IN
             list_heads' = [list_heads EXCEPT
                              ![index] = Carve(start_addr, index, 1, @)]
        /\ Hold(start_addr * PAGE_SIZE, layout)
        /\ Done
     \/ /\ pa_pc = "err" /\ Return("frame")
        /\ UNCHANGED <<list_heads, live, heap_pc, num_pages, start_addr, i, frame>>
        /\ KeepCall
  /\ KeepPages
  /\ UNCHANGED <<list_lengths, LARGE_ALLOCS>>

\* The first block of the page goes to the caller, or null when there is none.
refill_done ==
  /\ heap_pc = "refill"
  /\ \/ /\ pa_pc = "ok"
        /\ LET index == list_index(layout) IN
             list_heads' = [list_heads EXCEPT
                              ![index] = Carve(start_addr, index, 1, @)]
        /\ Hold(start_addr * PAGE_SIZE, layout)
     \/ pa_pc = "err" /\ UNCHANGED <<list_heads, live>>
  /\ Done
  /\ KeepPages
  /\ UNCHANGED <<list_lengths, LARGE_ALLOCS>>

fallback_alloc(l) ==
  /\ heap_pc = "idle"
  /\ ~IsSmall(l)
  /\ alloc(PagesFor(l))
  /\ heap_pc' = "fallback"
  /\ layout' = l
  /\ UNCHANGED <<list_heads, list_lengths, LARGE_ALLOCS, live, ptr, slot>>

\* Mutation: the block is handed out although no slot is left for it.
large_alloc_insert_m(addr, n) ==
  /\ \/ /\ Len(LARGE_ALLOCS) < MAX_LARGE_ALLOCS
        /\ LARGE_ALLOCS' = Append(LARGE_ALLOCS, [addr |-> addr, num_pages |-> n])
     \/ Len(LARGE_ALLOCS) = MAX_LARGE_ALLOCS /\ UNCHANGED LARGE_ALLOCS
  /\ Hold(addr * PAGE_SIZE, layout)
  /\ Done

\* large_alloc_insert panics when no slot is left.
large_alloc_insert(addr, n) ==
  IF Len(LARGE_ALLOCS) < MAX_LARGE_ALLOCS
    THEN /\ LARGE_ALLOCS' = Append(LARGE_ALLOCS, [addr |-> addr, num_pages |-> n])
         /\ Hold(addr * PAGE_SIZE, layout)
         /\ Done
    ELSE /\ Panic("LARGE_ALLOCS is full!")
         /\ UNCHANGED <<LARGE_ALLOCS, live, heap_pc, layout, ptr, slot,
                        num_pages, start_addr, i, frame>>

fallback_done ==
  /\ heap_pc = "fallback"
  /\ \/ pa_pc = "ok" /\ large_alloc_insert(start_addr, num_pages)
     \/ pa_pc = "err" /\ Done /\ UNCHANGED <<LARGE_ALLOCS, live>>
  /\ KeepPages
  /\ UNCHANGED <<list_heads, list_lengths>>

(* dealloc: of a block that is held, with the layout it was allocated with. *)
AtCapacity(index) == list_lengths[index] >= MAX_LIST_LENGTH

\* At capacity the block is dropped.
dealloc_small(b) ==
  /\ heap_pc = "idle"
  /\ IsSmall(b.layout)
  /\ live' = live \ {b}
  /\ LET index == list_index(b.layout) IN
       IF AtCapacity(index)
         THEN UNCHANGED <<list_heads, list_lengths>>
         ELSE /\ list_heads' = [list_heads EXCEPT ![index] = <<b.ptr>> \o @]
              /\ list_lengths' = [list_lengths EXCEPT ![index] = @ + 1]
  /\ UNCHANGED <<pa_vars, LARGE_ALLOCS, heap_pc>>
  /\ KeepCall

\* The block is the caller's no longer once the call starts.
dealloc_large(b) ==
  /\ heap_pc = "idle"
  /\ ~IsSmall(b.layout)
  /\ live' = live \ {b}
  /\ heap_pc' = "dealloc"
  /\ ptr' = b.ptr
  /\ slot' = 1
  /\ UNCHANGED <<pa_vars, list_heads, list_lengths, LARGE_ALLOCS, layout>>

\* The scan of LARGE_ALLOCS from slot on: the pages of every entry with this
\* address are unmapped, and the entry stays where it is.
Matches(k) == LARGE_ALLOCS[k].addr * PAGE_SIZE = ptr

\* Mutation: the scan goes on with the entry that it has just acted on.
dealloc_match_m ==
  /\ heap_pc = "dealloc"
  /\ \E k \in slot .. Len(LARGE_ALLOCS) :
       /\ Matches(k)
       /\ \A j \in slot .. k - 1 : ~Matches(j)
       /\ dealloc(LARGE_ALLOCS[k].addr, LARGE_ALLOCS[k].num_pages)
       /\ slot' = k
  /\ UNCHANGED <<list_heads, list_lengths, LARGE_ALLOCS, live,
                 heap_pc, layout, ptr>>

dealloc_match ==
  /\ heap_pc = "dealloc"
  /\ \E k \in slot .. Len(LARGE_ALLOCS) :
       /\ Matches(k)
       /\ \A j \in slot .. k - 1 : ~Matches(j)
       /\ dealloc(LARGE_ALLOCS[k].addr, LARGE_ALLOCS[k].num_pages)
       /\ slot' = k + 1
  /\ UNCHANGED <<list_heads, list_lengths, LARGE_ALLOCS, live,
                 heap_pc, layout, ptr>>

dealloc_next ==
  /\ heap_pc = "dealloc"
  /\ pa_pc = "ok"
  /\ Return("idle")
  /\ KeepPages
  /\ UNCHANGED <<num_pages, start_addr, i, frame>>
  /\ UNCHANGED heap_vars

dealloc_done ==
  /\ heap_pc = "dealloc"
  /\ pa_pc = "idle"
  /\ \A k \in slot .. Len(LARGE_ALLOCS) : ~Matches(k)
  /\ Done
  /\ KeepPages
  /\ UNCHANGED <<list_heads, list_lengths, LARGE_ALLOCS, live>>

Init ==
  /\ PaInit
  /\ list_heads = [k \in Classes |-> <<>>]
  /\ list_lengths = [k \in Classes |-> 0]
  /\ LARGE_ALLOCS = <<>>
  /\ live = {}
  /\ heap_pc = "boot"
  /\ layout = NoLayout
  /\ ptr = 0 /\ slot = 0

\* The requests of the rest of the kernel, and the steps of the call they start.
Call ==
  \/ init
  \/ \E l \in Layouts : alloc_pop(l) \/ refill_free_list(l) \/ fallback_alloc(l)
  \/ \E b \in live : dealloc_small(b) \/ dealloc_large(b)

PageStep == PaStep /\ UNCHANGED heap_vars

Step ==
  \/ PageStep
  \/ init_done \/ refill_done \/ fallback_done
  \/ dealloc_match \/ dealloc_next \/ dealloc_done

\* After a panic the processor is in hlt_loop.
Halted == pa_pc = "panicked" /\ UNCHANGED vars

Next == Call \/ Step \/ Halted

\* The processor runs: a call that has begun goes on.  Nobody has to call.
Spec == Init /\ [][Next]_vars /\ WF_vars(Step)

-----------------------------------------------------------------------------
(***************************************************************************)
(* Properties.                                                             *)
(***************************************************************************)
\* The units of a block that its holder may use.
Block(b) == b.ptr .. b.ptr + b.layout.size - 1

FreeBlock(index, k) ==
  LET a == list_heads[index][k] IN a .. a + BLOCK_SIZES[index] - 1

\* Where the free blocks are: the index of the list, the position in it.
FreeBlocks == UNION {{index} \X DOMAIN list_heads[index] : index \in Classes}

PageOf(address) == address \div PAGE_SIZE

\* The type of every variable: locals and counters stay in their ranges.
TypeOK ==
  /\ PageTypeOK
  /\ list_heads \in [Classes -> Seq(Nat)]
  /\ list_lengths \in [Classes -> 0 .. MAX_LIST_LENGTH]
  /\ LARGE_ALLOCS \in Seq([addr : Pages, num_pages : Nat])
  /\ Len(LARGE_ALLOCS) <= MAX_LARGE_ALLOCS
  /\ live \subseteq [ptr : Nat, layout : Layouts]
  /\ heap_pc \in {"boot", "init", "idle", "refill", "fallback", "dealloc"}
  /\ layout \in Layouts \cup {NoLayout}
  /\ ptr \in Nat /\ slot \in Nat

\* Memory is handed out once (alloc, dealloc, refill_free_list): the blocks
\* that are held and the blocks on the free lists never share an address, nor
\* is a block on the free lists twice.
NoOverlap ==
  /\ \A b, c \in live : b # c => Disjoint(Block(b), Block(c))
  /\ \A b \in live, f \in FreeBlocks : Disjoint(Block(b), FreeBlock(f[1], f[2]))
  /\ \A f, g \in FreeBlocks :
       f # g => Disjoint(FreeBlock(f[1], f[2]), FreeBlock(g[1], g[2]))

\* Every address of a block that is held or free is mapped: dealloc never
\* unmaps a page under a block other than the one it was called for, and a
\* free list never keeps a block of a page that is gone (the list's links are
\* stored in the free blocks).
Backed ==
  LET IsMapped(a) == page_table[PageOf(a)] # None
  IN  /\ \A b \in live : \A a \in Block(b) : IsMapped(a)
      /\ \A f \in FreeBlocks : \A a \in FreeBlock(f[1], f[2]) : IsMapped(a)

\* A call of dealloc for a block that is held never panics: LARGE_ALLOCS has
\* its pages, all of them are mapped, and to frames of the bitmap.
DeallocSucceeds == panic \notin {"dealloc failed", "todo"}

\* The entries of LARGE_ALLOCS with the address of a block.
EntriesOf(b) == {k \in DOMAIN LARGE_ALLOCS : LARGE_ALLOCS[k].addr * PAGE_SIZE = b.ptr}

\* What dealloc needs to give a large block back: LARGE_ALLOCS has exactly one
\* entry with its address, which holds its number of pages, although entries
\* stay after their blocks are freed and the slots run out
\* (large_alloc_insert, dealloc).
LargeTracked ==
  \A b \in live :
    ~IsSmall(b.layout) =>
      \E k \in DOMAIN LARGE_ALLOCS :
        EntriesOf(b) = {k} /\ LARGE_ALLOCS[k].num_pages = PagesFor(b.layout)

\* No small block is lost before MAX_LIST_LENGTH blocks of its size have been
\* freed: until then the blocks of a size that are free or held make up whole
\* pages (init, alloc, dealloc, refill_free_list).  From then on dealloc leaks
\* every one, as list_lengths never goes down.
BlocksConserved ==
  \A index \in Classes :
    LET held == {b \in live : list_index(b.layout) = index}
    IN  list_lengths[index] < MAX_LIST_LENGTH =>
          (Len(list_heads[index]) + Cardinality(held))
            % (PAGE_SIZE \div BLOCK_SIZES[index]) = 0

\* A frame is lost only in an allocation that fails: map_to found no frame for
\* a page table, and the frame for the page is not given back.
FramesLostOnlyInFailure ==
  [][LostFrames' # LostFrames => LostFrames \subseteq LostFrames' /\ pa_pc' = "err"]_vars

\* dealloc leaves the entry of a freed allocation in LARGE_ALLOCS.  That is
\* harmless because the page allocator never hands out an address twice: no
\* two entries, freed or not, share a page.
StaleEntriesHarmless ==
  LET Extent(k) == LARGE_ALLOCS[k].addr ..
                   LARGE_ALLOCS[k].addr + LARGE_ALLOCS[k].num_pages - 1
  IN  \A j, k \in DOMAIN LARGE_ALLOCS : j # k => Disjoint(Extent(j), Extent(k))

Promise == INSTANCE AbstractHeap WITH
  Addresses <- START_VIRT * PAGE_SIZE .. END_VIRT * PAGE_SIZE - 1

\* The allocator implements AbstractHeap: what alloc returns is in the heap,
\* aligned as the layout asks (for alignments up to a page) and in no block
\* that is held.
HeapPromise == Promise!Spec

\* The level from which map_to has to create page tables for page i.
TablesToMake ==
  IF IsMissing(3, page_virt) THEN 3
  ELSE IF IsMissing(2, page_virt) THEN 2
  ELSE IF IsMissing(1, page_virt) THEN 1 ELSE 0

\* The entries that the scan of LARGE_ALLOCS will come to and act on.
ToFind == {k \in slot .. Len(LARGE_ALLOCS) : Matches(k)}

PagesFound == LARGE_ALLOCS[CHOOSE k \in ToFind : \A j \in ToFind : k <= j].num_pages

\* The steps that the call in progress has still to take, at most: five for a
\* page that is to be mapped, one for a page that is to be unmapped.
StepsLeft ==
  IF heap_pc \in {"boot", "idle"} \/ pa_pc = "panicked" THEN 0
  ELSE IF pa_pc = "frame" THEN 5 * (num_pages - i) + 2
  ELSE IF pa_pc = "walk" THEN 5 * (num_pages - i) - 2 + TablesToMake
  ELSE IF pa_pc = "unmap" THEN num_pages - i + 2
  ELSE IF pa_pc \in {"ok", "err"} THEN 2
  ELSE IF ToFind = {} THEN 1 ELSE PagesFound + 3

\* No call holds ALLOCATOR for longer than its request justifies: every step
\* that is taken during a call is one of those that are left, so loops end and
\* nothing is retried (alloc, refill_free_list, fallback_alloc, dealloc).
CallsAdvance ==
  [][heap_pc \notin {"boot", "idle"} => StepsLeft' \in 0 .. StepsLeft - 1]_vars

\* Every call returns, or the kernel panics.
CallsReturn ==
  heap_pc \notin {"boot", "idle"} ~> heap_pc = "idle" \/ pa_pc = "panicked"

(***************************************************************************)
(* The inductive invariant, for a build with overflow checks.              *)
(***************************************************************************)
\* What a call in progress has in its locals.
CallInv ==
  /\ heap_pc = "refill" => layout \in Layouts /\ IsSmall(layout)
  /\ heap_pc = "fallback" => layout \in Layouts
  /\ heap_pc = "dealloc" => slot # 0

HeapInv == TypeOK /\ PageInv /\ CallInv /\ FailsOnlyWhenExhausted

(***************************************************************************)
(* The inductive invariant behind NoOverlap, HeapPromise, LargeTracked and *)
(* StaleEntriesHarmless: whatever was handed out is below a limit that     *)
(* only rises, the bump pointer or the start of the range that the page    *)
(* allocator is mapping.                                                   *)
(***************************************************************************)
\* The units that are set aside for a block.
Room(l) == IF IsSmall(l) THEN BLOCK_SIZES[list_index(l)] ELSE PagesFor(l) * PAGE_SIZE

Allocating == heap_pc \in {"init", "refill", "fallback"}

Limit == IF Allocating THEN start_addr ELSE current_virt

\* What the page allocator has done for the call in progress.
PhaseInv ==
  /\ Allocating =>
       /\ pa_pc \in {"frame", "walk", "ok", "err", "panicked"}
       /\ START_VIRT <= start_addr /\ start_addr <= current_virt
       /\ num_pages = IF heap_pc = "fallback" THEN PagesFor(layout) ELSE 1
       /\ pa_pc = "ok" => /\ start_addr + num_pages <= current_virt
                          /\ start_addr + num_pages <= END_VIRT
  /\ heap_pc = "fallback" => ~IsSmall(layout)
  /\ ~Allocating => pa_pc \in {"idle", "unmap", "ok", "panicked"}

Apart(a, m, b, n) == a + m <= b \/ b + n <= a

InHeap(a, n, limit) ==
  /\ START_VIRT * PAGE_SIZE <= a
  /\ a + n <= limit * PAGE_SIZE /\ a + n <= END_VIRT * PAGE_SIZE

FreeInv ==
  /\ \A x \in Classes : \A j \in DOMAIN list_heads[x] :
       /\ InHeap(list_heads[x][j], BLOCK_SIZES[x], Limit)
       /\ list_heads[x][j] % BLOCK_SIZES[x] = 0
  /\ \A x, y \in Classes : \A j \in DOMAIN list_heads[x], k \in DOMAIN list_heads[y] :
       <<x, j>> # <<y, k>> =>
         Apart(list_heads[x][j], BLOCK_SIZES[x], list_heads[y][k], BLOCK_SIZES[y])

LiveInv ==
  /\ \A b \in live :
       /\ InHeap(b.ptr, Room(b.layout), Limit)
       /\ IsSmall(b.layout) => b.ptr % Room(b.layout) = 0
  /\ \A b, c \in live : b # c => Apart(b.ptr, Room(b.layout), c.ptr, Room(c.layout))
  /\ \A b \in live, x \in Classes : \A j \in DOMAIN list_heads[x] :
       Apart(b.ptr, Room(b.layout), list_heads[x][j], BLOCK_SIZES[x])

EntryInv ==
  /\ \A k \in DOMAIN LARGE_ALLOCS :
       LARGE_ALLOCS[k].num_pages # 0 /\ LARGE_ALLOCS[k].addr + LARGE_ALLOCS[k].num_pages <= Limit
  /\ \A j, k \in DOMAIN LARGE_ALLOCS :
       j # k => Apart(LARGE_ALLOCS[j].addr, LARGE_ALLOCS[j].num_pages,
                      LARGE_ALLOCS[k].addr, LARGE_ALLOCS[k].num_pages)
  /\ \A b \in live :
       ~IsSmall(b.layout) =>
         \E k \in DOMAIN LARGE_ALLOCS :
           /\ LARGE_ALLOCS[k].addr * PAGE_SIZE = b.ptr
           /\ LARGE_ALLOCS[k].num_pages = PagesFor(b.layout)

SpaceInv == PhaseInv /\ FreeInv /\ LiveInv /\ EntryInv

(***************************************************************************)
(* The inductive invariant behind Backed and DeallocSucceeds, on top of    *)
(* SpaceInv: a large block that is being freed has its pages until dealloc *)
(* comes to them, and no other block is on one of them.                    *)
(***************************************************************************)
\* Every page that meets the n units from a is mapped in table.
OnMapped(a, n, table) ==
  \A page \in Pages :
    page * PAGE_SIZE < a + n /\ a < (page + 1) * PAGE_SIZE => table[page] # None

\* The pages from first up to, but not including, end are mapped in table.
PagesMapped(first, end, table) ==
  \A page \in Pages : first <= page /\ page < end => table[page] # None

BlocksMapped ==
  /\ \A x \in Classes : \A j \in DOMAIN list_heads[x] :
       OnMapped(list_heads[x][j], BLOCK_SIZES[x], page_table)
  /\ \A b \in live : OnMapped(b.ptr, Room(b.layout), page_table)

\* What the loop of alloc has mapped.
MappedSoFar ==
  Allocating /\ pa_pc \in {"frame", "walk", "ok"} =>
    /\ PagesMapped(start_addr, start_addr + i, page_table)
    /\ pa_pc = "ok" => i = num_pages

\* No block is on the n pages from page.
PagesUnused(page, n) ==
  /\ \A b \in live : Apart(b.ptr, Room(b.layout), page * PAGE_SIZE, n * PAGE_SIZE)
  /\ \A x \in Classes : \A j \in DOMAIN list_heads[x] :
       Apart(list_heads[x][j], BLOCK_SIZES[x], page * PAGE_SIZE, n * PAGE_SIZE)

\* The pages that dealloc has still to unmap: before it finds their entry, and
\* in its loop.  The address has one entry, so that nothing is unmapped twice.
FreedInv ==
  /\ heap_pc \in {"boot", "idle"} => pa_pc = "idle"
  /\ heap_pc = "dealloc" /\ pa_pc = "idle" =>
       \A k \in slot .. Len(LARGE_ALLOCS) :
         LET addr == LARGE_ALLOCS[k].addr
             n == LARGE_ALLOCS[k].num_pages
         IN  Matches(k) => PagesMapped(addr, addr + n, page_table) /\ PagesUnused(addr, n)
  /\ heap_pc = "dealloc" /\ pa_pc # "idle" =>
       \A k \in slot .. Len(LARGE_ALLOCS) : ~Matches(k)
  /\ pa_pc = "unmap" =>
       /\ heap_pc = "dealloc" /\ i < num_pages
       /\ start_addr + num_pages <= current_virt
       /\ PagesMapped(start_addr + i, start_addr + num_pages, page_table)
       /\ PagesUnused(start_addr, num_pages)

BackedInv == BlocksMapped /\ MappedSoFar /\ FreedInv /\ DeallocSucceeds
=============================================================================
