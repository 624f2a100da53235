-------------------------- MODULE HeapBlockProofs ---------------------------
(***************************************************************************)
(* Lemmas on the blocks of KernelHeap: a free list that changes at its     *)
(* head, the limit below which everything lies, and what every step of the *)
(* heap does to the blocks.                                                *)
(***************************************************************************)
EXTENDS KernelHeapProofs

-----------------------------------------------------------------------------
(***************************************************************************)
(* A list of free blocks that changes at its head.                         *)
(***************************************************************************)
\* list_heads[x] changes in its first m elements; the others move by n.
ListMoves(x, m, n) ==
  /\ list_heads' \in [Classes -> Seq(Nat)]
  /\ \A y \in Classes : y # x => list_heads'[y] = list_heads[y]
  /\ \A j \in DOMAIN list_heads'[x] :
       j > m => /\ j - n \in DOMAIN list_heads[x]
                /\ list_heads'[x][j] = list_heads[x][j - n]

\* The first m elements of list_heads'[x] are blocks of the heap, apart from
\* one another and from the blocks that were free before.
NewFree(x, m) ==
  /\ \A j \in DOMAIN list_heads'[x] :
       j <= m => /\ InHeap(list_heads'[x][j], BLOCK_SIZES[x], Limit')
                 /\ list_heads'[x][j] % BLOCK_SIZES[x] = 0
  /\ \A j, k \in DOMAIN list_heads'[x] :
       j <= m /\ k <= m /\ j # k =>
         Apart(list_heads'[x][j], BLOCK_SIZES[x], list_heads'[x][k], BLOCK_SIZES[x])
  /\ \A j \in DOMAIN list_heads'[x], y \in Classes :
       j <= m => \A k \in DOMAIN list_heads[y] :
         Apart(list_heads'[x][j], BLOCK_SIZES[x], list_heads[y][k], BLOCK_SIZES[y])

\* The r bytes from p are apart from the blocks of the free lists.
ApartFrom(p, r, lists) ==
  \A y \in Classes : \A k \in DOMAIN lists[y] : Apart(p, r, lists[y][k], BLOCK_SIZES[y])

\* The r bytes from p are apart from the first m elements of list_heads'[x].
ApartFromNew(p, r, x, m) ==
  \A j \in DOMAIN list_heads'[x] :
    j <= m => Apart(p, r, list_heads'[x][j], BLOCK_SIZES[x])

\* Where element j of list_heads'[y] was, when list_heads[x] moves by n.
Was(x, n, y, j) == IF y = x THEN j - n ELSE j

\* An element that has not changed was in the list before.
LEMMA MovedFrom ==
  ASSUME NEW x \in Classes, NEW m \in Int, NEW n \in Int, ListMoves(x, m, n),
         NEW y \in Classes, NEW j \in DOMAIN list_heads'[y], y # x \/ j > m
  PROVE  /\ Was(x, n, y, j) \in DOMAIN list_heads[y]
         /\ list_heads'[y][j] = list_heads[y][Was(x, n, y, j)]
BY DEF ListMoves, Was

\* A block stays in the heap when the limit rises.
LEMMA LimitRises ==
  ASSUME NEW a \in Nat, NEW n \in Nat, NEW c \in Nat, NEW d \in Nat, c <= d, InHeap(a, n, c)
  PROVE  InHeap(a, n, d)
<1>1. c * PAGE_SIZE \in Nat /\ d * PAGE_SIZE \in Nat /\ c * PAGE_SIZE <= d * PAGE_SIZE
  BY Sizes, TimesKeepsOrder
<1> DEFINE u == c * PAGE_SIZE  v == d * PAGE_SIZE
<1>2. a + n <= u
  BY DEF InHeap
<1>3. a + n <= v
  <2> HIDE DEF u, v
  <2>1. u \in Nat /\ v \in Nat /\ u <= v
    BY <1>1 DEF u, v
  <2> QED
    BY <1>2, <2>1
<1> QED
  BY <1>3 DEF InHeap

\* The free blocks stay apart when the new ones are apart from the old ones.
LEMMA FreeInvMoves ==
  ASSUME HeapInv, FreeInv, Limit \in Nat, Limit' \in Nat, Limit <= Limit',
         NEW x \in Classes, NEW m \in Int, NEW n \in Int, ListMoves(x, m, n), NewFree(x, m)
  PROVE  FreeInv'
<1>1. /\ list_heads \in [Classes -> Seq(Nat)] /\ list_heads' \in [Classes -> Seq(Nat)]
      /\ \A y \in Classes : \A j \in DOMAIN list_heads[y] : list_heads[y][j] \in Nat
      /\ \A y \in Classes : \A j \in DOMAIN list_heads'[y] : j \in Nat
  <2>1. list_heads \in [Classes -> Seq(Nat)] /\ list_heads' \in [Classes -> Seq(Nat)]
    BY DEF HeapInv, TypeOK, ListMoves
  <2>2. \A s \in Seq(Nat) : \A j \in DOMAIN s : s[j] \in Nat /\ j \in Nat
    OBVIOUS
  <2> QED
    BY <2>1, <2>2
<1>2. ASSUME NEW y \in Classes, NEW j \in DOMAIN list_heads'[y]
      PROVE  /\ InHeap(list_heads'[y][j], BLOCK_SIZES[y], Limit')
             /\ list_heads'[y][j] % BLOCK_SIZES[y] = 0
  <2>1. CASE y # x \/ j > m
    <3> DEFINE k == Was(x, n, y, j)
    <3>1. k \in DOMAIN list_heads[y] /\ list_heads'[y][j] = list_heads[y][k]
      BY <2>1, MovedFrom
    <3> HIDE DEF k
    <3>2. /\ InHeap(list_heads[y][k], BLOCK_SIZES[y], Limit)
          /\ list_heads[y][k] % BLOCK_SIZES[y] = 0
      BY <3>1 DEF FreeInv
    <3>3. InHeap(list_heads[y][k], BLOCK_SIZES[y], Limit')
      BY <1>1, <3>1, <3>2, Sizes, LimitRises, Zenon
    <3> QED
      BY <3>1, <3>2, <3>3
  <2>2. CASE y = x /\ ~(j > m)
    <3>1. j <= m
      BY <1>1, <2>2
    <3> QED
      BY <2>2, <3>1 DEF NewFree
  <2> QED
    BY <2>1, <2>2
<1>3. ASSUME NEW y \in Classes, NEW z \in Classes, NEW j \in DOMAIN list_heads'[y],
             NEW k \in DOMAIN list_heads'[z], <<y, j>> # <<z, k>>
      PROVE  Apart(list_heads'[y][j], BLOCK_SIZES[y], list_heads'[z][k], BLOCK_SIZES[z])
  <2> DEFINE jj == Was(x, n, y, j)
             kk == Was(x, n, z, k)
  <2>0. /\ y # x \/ j > m => jj \in DOMAIN list_heads[y] /\ list_heads'[y][j] = list_heads[y][jj]
        /\ z # x \/ k > m => kk \in DOMAIN list_heads[z] /\ list_heads'[z][k] = list_heads[z][kk]
    BY MovedFrom
  <2>a. j \in Nat /\ k \in Nat
    BY <1>1
  <2>1. CASE (y # x \/ j > m) /\ (z # x \/ k > m)
    <3>1. <<y, jj>> # <<z, kk>>
      BY <1>3, <2>a DEF Was
    <3> HIDE DEF jj, kk
    <3> QED
      BY <2>0, <2>1, <3>1 DEF FreeInv
  <2>2. CASE (y # x \/ j > m) /\ z = x /\ k <= m
    <3> HIDE DEF jj, kk
    <3>1. Apart(list_heads'[x][k], BLOCK_SIZES[x], list_heads[y][jj], BLOCK_SIZES[y])
      BY <2>0, <2>2 DEF NewFree
    <3> QED
      BY <2>0, <2>2, <3>1 DEF Apart
  <2>3. CASE y = x /\ j <= m /\ (z # x \/ k > m)
    <3> HIDE DEF jj, kk
    <3> QED
      BY <2>0, <2>3 DEF NewFree
  <2>4. CASE y = x /\ j <= m /\ z = x /\ k <= m
    BY <1>3, <2>4 DEF NewFree
  <2> QED
    BY <2>1, <2>2, <2>3, <2>4, <2>a
<1> QED
  BY <1>2, <1>3 DEF FreeInv

\* A block that is apart from the new free blocks and from those that stay.
LEMMA BlockApartMoves ==
  ASSUME NEW x \in Classes, NEW m \in Int, NEW n \in Int, ListMoves(x, m, n),
         NEW p, NEW r, ApartFrom(p, r, list_heads), ApartFromNew(p, r, x, m)
  PROVE  ApartFrom(p, r, list_heads')
<1> SUFFICES ASSUME NEW y \in Classes, NEW j \in DOMAIN list_heads'[y]
             PROVE  Apart(p, r, list_heads'[y][j], BLOCK_SIZES[y])
  BY DEF ApartFrom
<1>1. j \in Nat
  <2>1. list_heads'[y] \in Seq(Nat)
    BY DEF ListMoves
  <2> QED
    BY <2>1
<1>2. CASE y # x \/ j > m
  <2> DEFINE k == Was(x, n, y, j)
  <2>1. k \in DOMAIN list_heads[y] /\ list_heads'[y][j] = list_heads[y][k]
    BY <1>2, MovedFrom
  <2> HIDE DEF k
  <2> QED
    BY <2>1 DEF ApartFrom
<1>3. CASE y = x /\ j <= m
  BY <1>3 DEF ApartFromNew
<1> QED
  BY <1>1, <1>2, <1>3

-----------------------------------------------------------------------------
(***************************************************************************)
(* The limit rises.                                                        *)
(***************************************************************************)
\* A call of PageAllocator::alloc starts at the bump pointer.
LEMMA AllocStarts ==
  ASSUME HeapInv, PhaseInv, ~Allocating, Allocating', NEW p \in Nat, alloc(p),
         p = (IF heap_pc' = "fallback" THEN PagesFor(layout') ELSE 1),
         heap_pc' = "fallback" => ~IsSmall(layout')
  PROVE  PhaseInv' /\ Limit <= Limit'
<1>1. current_virt \in Nat /\ START_VIRT <= current_virt
  BY LocalsType DEF HeapInv, PageInv, BumpInv
<1>2. /\ start_addr' = current_virt /\ current_virt' = current_virt /\ num_pages' = p
      /\ pa_pc' \in {"panicked", "err", "frame"}
  BY DEF alloc, Panic, Return
<1>3. Limit = current_virt /\ Limit' = current_virt
  BY <1>2 DEF Limit
<1>4. IsSmall(layout)' <=> IsSmall(layout')
  BY DEF IsSmall, list_index, required_block_size
<1>5. PagesFor(layout)' = PagesFor(layout')
  BY DEF PagesFor, required_block_size
<1>6. current_virt <= current_virt
  BY <1>1
<1> QED
  BY <1>1, <1>2, <1>3, <1>4, <1>5, <1>6 DEF PhaseInv, Allocating

\* The page allocator maps the range or fails, and the bump pointer only rises.
LEMMA PageStepPhase ==
  ASSUME HeapInv, PhaseInv, OVERFLOW_CHECKS, PageStep
  PROVE  PhaseInv' /\ Limit <= Limit'
<1>1. /\ UNCHANGED <<heap_pc, layout>> /\ PageInv
      /\ current_virt \in Nat /\ start_addr \in Nat /\ num_pages \in Nat /\ i \in Nat
  BY LocalsType DEF PageStep, heap_vars, HeapInv, PageInv
<1>2. UNCHANGED <<num_pages, start_addr>>
  BY DEF PageStep, PaStep, AllocFrame, MapTable, MapPage, UnmapPage
<1>3. CASE AllocFrame \/ MapTable
  <2>1. /\ pa_pc \in {"frame", "walk"} /\ pa_pc' \in {"walk", "err", "panicked"}
        /\ current_virt' = current_virt
    BY <1>3 DEF AllocFrame, MapTable, Return, Panic
  <2>2. Allocating
    BY <2>1 DEF PhaseInv
  <2>3. Limit = start_addr /\ Limit' = start_addr
    BY <1>1, <1>2, <2>2 DEF Limit, Allocating
  <2> QED
    BY <1>1, <1>2, <2>1, <2>2, <2>3 DEF PhaseInv, Allocating, PagesFor, required_block_size,
       IsSmall, list_index
<1>4. CASE MapPage
  <2>1. pa_pc = "walk"
    BY <1>4 DEF MapPage
  <2>2. Allocating
    BY <2>1 DEF PhaseInv
  <2>3. Limit = start_addr /\ Limit' = start_addr
    BY <1>1, <1>2, <2>2 DEF Limit, Allocating
  <2>4. /\ start_addr + num_pages <= END_VIRT
        /\ i = 0 => current_virt = start_addr
        /\ i # 0 => current_virt >= start_addr + num_pages
    BY <1>1, <2>1 DEF PageInv, LoopInv
  <2>5. \/ pa_pc' \in {"err", "panicked"} /\ current_virt' = current_virt
        \/ /\ pa_pc' \in {"ok", "frame"} /\ ~Overflows(current_virt, num_pages)
           /\ current_virt' = (current_virt + num_pages) % ADDR_PAGES
    BY <1>4 DEF MapPage, Return, Panic
  <2>6. CASE pa_pc' \in {"err", "panicked"} /\ current_virt' = current_virt
    BY <1>1, <1>2, <2>2, <2>3, <2>6 DEF PhaseInv, Allocating, PagesFor, required_block_size,
       IsSmall, list_index
  <2>7. CASE /\ pa_pc' \in {"ok", "frame"} /\ ~Overflows(current_virt, num_pages)
             /\ current_virt' = (current_virt + num_pages) % ADDR_PAGES
    <3>1. current_virt + num_pages \in Nat /\ current_virt + num_pages < ADDR_PAGES
      BY <1>1, <2>7, Numbers DEF Overflows
    <3>2. current_virt' = current_virt + num_pages
      BY <2>7, <3>1, Numbers, ModSmall
    <3>3. start_addr + num_pages <= current_virt' /\ start_addr <= current_virt'
      BY <1>1, <2>4, <3>2
    <3> QED
      BY <1>1, <1>2, <2>2, <2>3, <2>4, <2>7, <3>3 DEF PhaseInv, Allocating, PagesFor,
         required_block_size, IsSmall, list_index
  <2> QED
    BY <2>5, <2>6, <2>7
<1>5. CASE UnmapPage
  <2>1. /\ pa_pc = "unmap" /\ pa_pc' \in {"ok", "unmap", "panicked"}
        /\ current_virt' = current_virt
    BY <1>5 DEF UnmapPage, Return, Panic
  <2>2. ~Allocating
    BY <2>1 DEF PhaseInv
  <2>3. Limit = current_virt /\ Limit' = current_virt
    BY <1>1, <2>1, <2>2 DEF Limit, Allocating
  <2> QED
    BY <1>1, <2>1, <2>2, <2>3 DEF PhaseInv, Allocating
<1> QED
  BY <1>3, <1>4, <1>5 DEF PageStep, PaStep

\* When a call returns, the limit is the bump pointer.
LEMMA DonePhase ==
  ASSUME HeapInv, PhaseInv, Done, KeepPages
  PROVE  PhaseInv' /\ Limit' = current_virt /\ Limit <= Limit'
<1>1. current_virt \in Nat /\ start_addr \in Nat
  BY LocalsType DEF HeapInv, PageInv
<1>2. heap_pc' = "idle" /\ pa_pc' = "idle" /\ current_virt' = current_virt
  BY DEF Done, KeepPages
<1>3. Limit' = current_virt
  BY <1>2 DEF Limit, Allocating
<1>4. Limit <= current_virt
  BY <1>1 DEF Limit, PhaseInv
<1> QED
  BY <1>2, <1>3, <1>4 DEF PhaseInv, Allocating

\* Every step keeps PhaseInv and the order of the limits.
LEMMA PhaseKept ==
  ASSUME HeapInv, PhaseInv, OVERFLOW_CHECKS, [Next]_vars
  PROVE  PhaseInv' /\ Limit <= Limit'
<1>0. current_virt \in Nat /\ start_addr \in Nat
  BY LocalsType DEF HeapInv, PageInv
<1>1. ASSUME UNCHANGED <<current_virt, start_addr, num_pages, heap_pc, layout>>,
             pa_pc' = pa_pc \/ pa_pc' = "panicked"
      PROVE  PhaseInv' /\ Limit <= Limit'
  <2>1. Limit' = Limit /\ Limit \in Nat
    BY <1>0, <1>1 DEF Limit, Allocating
  <2> QED
    BY <1>1, <2>1 DEF PhaseInv, Allocating, PagesFor, required_block_size, IsSmall, list_index
<1>2. ASSUME heap_pc \in {"idle", "dealloc"}, heap_pc' = "dealloc", current_virt' = current_virt,
             pa_pc' \in {pa_pc, "unmap", "idle"}
      PROVE  PhaseInv' /\ Limit <= Limit'
  <2>1. Limit' = Limit /\ Limit \in Nat
    BY <1>0, <1>2 DEF Limit, Allocating
  <2> QED
    BY <1>2, <2>1 DEF PhaseInv, Allocating
<1>3. CASE UNCHANGED vars
  BY <1>1, <1>3 DEF vars, pa_vars, heap_vars
<1>4. CASE init
  BY <1>4, AllocStarts DEF init, Allocating
<1>5. ASSUME NEW l \in Layouts, refill_free_list(l)
      PROVE  PhaseInv' /\ Limit <= Limit'
  BY <1>5, AllocStarts DEF refill_free_list, Allocating
<1>6. ASSUME NEW l \in Layouts, fallback_alloc(l)
      PROVE  PhaseInv' /\ Limit <= Limit'
  <2>1. PagesFor(l) \in Nat
    BY PagesForType
  <2> QED
    BY <1>6, <2>1, AllocStarts DEF fallback_alloc, Allocating
<1>7. ASSUME NEW l \in Layouts, alloc_pop(l)
      PROVE  PhaseInv' /\ Limit <= Limit'
  BY <1>1, <1>7 DEF alloc_pop, pa_vars, KeepCall
<1>8. ASSUME NEW b \in live, dealloc_small(b)
      PROVE  PhaseInv' /\ Limit <= Limit'
  BY <1>1, <1>8 DEF dealloc_small, pa_vars, KeepCall
<1>9. ASSUME NEW b \in live, dealloc_large(b)
      PROVE  PhaseInv' /\ Limit <= Limit'
  BY <1>2, <1>9 DEF dealloc_large, pa_vars
<1>10. CASE init_done \/ refill_done \/ dealloc_done
  BY <1>10, DonePhase DEF init_done, refill_done, dealloc_done
<1>11. CASE fallback_done
  <2>1. CASE Done
    BY <1>11, <2>1, DonePhase DEF fallback_done
  <2>2. CASE ~Done
    BY <1>1, <1>11, <2>2 DEF fallback_done, large_alloc_insert, Panic, KeepPages
  <2> QED
    BY <2>1, <2>2
<1>12. CASE dealloc_match
  BY <1>2, <1>12 DEF dealloc_match, dealloc
<1>13. CASE dealloc_next
  BY <1>2, <1>13 DEF dealloc_next, Return, KeepPages, heap_vars
<1>14. CASE PageStep
  BY <1>14, PageStepPhase
<1> QED
  BY <1>3, <1>4, <1>5, <1>6, <1>7, <1>8, <1>9, <1>10, <1>11, <1>12, <1>13, <1>14
  DEF Next, Call, Step, Halted

-----------------------------------------------------------------------------
(***************************************************************************)
(* The steps that leave the free lists alone.                              *)
(***************************************************************************)
\* The limits are page numbers.
LEMMA LimitsType ==
  ASSUME HeapInv, HeapInv'
  PROVE  Limit \in Nat /\ Limit' \in Nat
<1>1. current_virt \in Nat /\ start_addr \in Nat /\ current_virt' \in Nat /\ start_addr' \in Nat
  BY PagesDef DEF HeapInv, TypeOK, PageTypeOK
<1> QED
  BY <1>1 DEF Limit

\* The blocks that are held have an address and a layout.
LEMMA LiveType ==
  ASSUME HeapInv, NEW b \in live
  PROVE  /\ b.ptr \in Nat /\ b.layout \in Layouts
         /\ b = [ptr |-> b.ptr, layout |-> b.layout]
BY DEF HeapInv, TypeOK

\* The elements of a free list are addresses.
LEMMA FreeType ==
  ASSUME HeapInv, NEW x \in Classes
  PROVE  /\ list_heads[x] \in Seq(Nat)
         /\ \A j \in DOMAIN list_heads[x] : j \in Nat /\ list_heads[x][j] \in Nat
<1>1. list_heads[x] \in Seq(Nat)
  BY DEF HeapInv, TypeOK
<1> QED
  BY <1>1

\* The entries of LARGE_ALLOCS are page numbers and numbers of pages.
LEMMA EntryType ==
  ASSUME HeapInv, NEW k \in DOMAIN LARGE_ALLOCS
  PROVE  LARGE_ALLOCS[k].addr \in Nat /\ LARGE_ALLOCS[k].num_pages \in Nat /\ k \in Nat
<1>1. LARGE_ALLOCS \in Seq([addr : Pages, num_pages : Nat])
  BY DEF HeapInv, TypeOK
<1>2. LARGE_ALLOCS[k] \in [addr : Pages, num_pages : Nat] /\ k \in Nat
  <2>1. k \in 1 .. Len(LARGE_ALLOCS)
    BY <1>1
  <2>2. LARGE_ALLOCS[k] \in [addr : Pages, num_pages : Nat]
    BY <1>1, <2>1, InSeq, Zenon
  <2> QED
    BY <2>1, <2>2
<1>3. LARGE_ALLOCS[k].addr \in Pages /\ LARGE_ALLOCS[k].num_pages \in Nat
  BY <1>2
<1> QED
  BY <1>2, <1>3, PagesDef

\* The blocks that are held, where the free lists stay.
LEMMA LiveShrinks ==
  ASSUME HeapInv, LiveInv, Limit \in Nat, Limit' \in Nat, Limit <= Limit',
         live' \subseteq live, list_heads' = list_heads
  PROVE  LiveInv'
<1>1. ASSUME NEW b \in live'
      PROVE  /\ InHeap(b.ptr, Room(b.layout), Limit')
             /\ IsSmall(b.layout) => b.ptr % Room(b.layout) = 0
  <2>1. b \in live /\ b.ptr \in Nat /\ Room(b.layout) \in Nat
    BY LiveType, RoomFits
  <2>2. InHeap(b.ptr, Room(b.layout), Limit) /\ (IsSmall(b.layout) => b.ptr % Room(b.layout) = 0)
    BY <2>1 DEF LiveInv
  <2> QED
    BY <2>1, <2>2, LimitRises
<1>2. \A b, c \in live' : b # c => Apart(b.ptr, Room(b.layout), c.ptr, Room(c.layout))
  BY DEF LiveInv
<1>3. \A b \in live', x \in Classes : \A j \in DOMAIN list_heads'[x] :
        Apart(b.ptr, Room(b.layout), list_heads'[x][j], BLOCK_SIZES[x])
  BY DEF LiveInv
<1> QED
  BY <1>1, <1>2, <1>3 DEF LiveInv

\* The free blocks, where the free lists stay.
LEMMA FreeStays ==
  ASSUME HeapInv, FreeInv, Limit \in Nat, Limit' \in Nat, Limit <= Limit',
         list_heads' = list_heads
  PROVE  FreeInv'
<1>1. ASSUME NEW x \in Classes, NEW j \in DOMAIN list_heads[x]
      PROVE  /\ InHeap(list_heads[x][j], BLOCK_SIZES[x], Limit')
             /\ list_heads[x][j] % BLOCK_SIZES[x] = 0
  <2>1. /\ InHeap(list_heads[x][j], BLOCK_SIZES[x], Limit)
        /\ list_heads[x][j] % BLOCK_SIZES[x] = 0
    BY DEF FreeInv
  <2>2. list_heads[x][j] \in Nat /\ BLOCK_SIZES[x] \in Nat
    BY FreeType, Sizes
  <2> QED
    BY <2>1, <2>2, LimitRises
<1> QED
  BY <1>1 DEF FreeInv

\* The entries, where LARGE_ALLOCS stays and nobody gets a large block.
LEMMA EntriesStay ==
  ASSUME HeapInv, EntryInv, Limit \in Nat, Limit' \in Nat, Limit <= Limit',
         LARGE_ALLOCS' = LARGE_ALLOCS,
         \A b \in live' : b \in live \/ IsSmall(b.layout)
  PROVE  EntryInv'
<1>1. ASSUME NEW k \in DOMAIN LARGE_ALLOCS
      PROVE  /\ LARGE_ALLOCS[k].num_pages # 0
             /\ LARGE_ALLOCS[k].addr + LARGE_ALLOCS[k].num_pages <= Limit'
  <2>1. /\ LARGE_ALLOCS[k].num_pages # 0
        /\ LARGE_ALLOCS[k].addr + LARGE_ALLOCS[k].num_pages <= Limit
    BY DEF EntryInv
  <2> QED
    BY <2>1, EntryType
<1>2. \A b \in live' :
        ~IsSmall(b.layout) =>
          \E k \in DOMAIN LARGE_ALLOCS :
            /\ LARGE_ALLOCS[k].addr * PAGE_SIZE = b.ptr
            /\ LARGE_ALLOCS[k].num_pages = PagesFor(b.layout)
  BY DEF EntryInv
<1> QED
  BY <1>1, <1>2 DEF EntryInv

\* All of them.
LEMMA SpaceStays ==
  ASSUME HeapInv, SpaceInv, Limit \in Nat, Limit' \in Nat, Limit <= Limit',
         live' \subseteq live, UNCHANGED <<list_heads, LARGE_ALLOCS>>
  PROVE  FreeInv' /\ LiveInv' /\ EntryInv'
<1>1. FreeInv /\ LiveInv /\ EntryInv
  BY DEF SpaceInv
<1> QED
  BY <1>1, FreeStays, LiveShrinks, EntriesStay

-----------------------------------------------------------------------------
(***************************************************************************)
(* The steps that take a block from a free list or put one on it.          *)
(***************************************************************************)
\* The block at p for layout l is in the heap, and apart from the blocks of
\* callers; these and the new one are apart from the free lists of the new state.
NewLive(p, l) ==
  /\ InHeap(p, Room(l), Limit')
  /\ IsSmall(l) => p % Room(l) = 0
  /\ \A b \in live : Apart(b.ptr, Room(b.layout), p, Room(l))
  /\ ApartFrom(p, Room(l), list_heads')
  /\ \A b \in live : ApartFrom(b.ptr, Room(b.layout), list_heads')

\* A block that is handed out is apart from all others.
LEMMA LiveGrows ==
  ASSUME HeapInv, LiveInv, Limit \in Nat, Limit' \in Nat, Limit <= Limit',
         NEW p \in Nat, NEW l \in Layouts,
         live' = live \cup {[ptr |-> p, layout |-> l]}, NewLive(p, l)
  PROVE  LiveInv'
<1> DEFINE nb == [ptr |-> p, layout |-> l]
<1>0. nb.ptr = p /\ nb.layout = l
  OBVIOUS
<1>1. ASSUME NEW b \in live'
      PROVE  /\ InHeap(b.ptr, Room(b.layout), Limit')
             /\ IsSmall(b.layout) => b.ptr % Room(b.layout) = 0
  <2>1. CASE b \in live
    <3>1. b.ptr \in Nat /\ Room(b.layout) \in Nat
      BY <2>1, LiveType, RoomFits
    <3>2. /\ InHeap(b.ptr, Room(b.layout), Limit)
          /\ IsSmall(b.layout) => b.ptr % Room(b.layout) = 0
      BY <2>1 DEF LiveInv
    <3> QED
      BY <3>1, <3>2, LimitRises
  <2>2. CASE b = nb
    BY <1>0, <2>2 DEF NewLive
  <2> QED
    BY <2>1, <2>2
<1> HIDE DEF nb
<1>2. ASSUME NEW b \in live', NEW c \in live', b # c
      PROVE  Apart(b.ptr, Room(b.layout), c.ptr, Room(c.layout))
  <2>1. (b \in live \/ b = nb) /\ (c \in live \/ c = nb)
    BY DEF nb
  <2>2. CASE b \in live /\ c \in live
    BY <1>2, <2>2 DEF LiveInv
  <2>3. CASE b \in live /\ c = nb
    BY <1>0, <2>3 DEF NewLive
  <2>4. CASE b = nb /\ c \in live
    BY <1>0, <2>4 DEF NewLive, Apart
  <2> QED
    BY <1>2, <2>1, <2>2, <2>3, <2>4
<1>3. ASSUME NEW b \in live', NEW x \in Classes, NEW j \in DOMAIN list_heads'[x]
      PROVE  Apart(b.ptr, Room(b.layout), list_heads'[x][j], BLOCK_SIZES[x])
  <2>1. b \in live \/ b = nb
    BY DEF nb
  <2> QED
    BY <1>0, <2>1 DEF NewLive, ApartFrom
<1> QED
  BY <1>1, <1>2, <1>3, Zenon DEF LiveInv

\* alloc takes the head of a free list.
LEMMA AllocPopSpace ==
  ASSUME HeapInv, SpaceInv, Limit \in Nat, Limit' \in Nat, Limit <= Limit',
         NEW l \in Layouts, alloc_pop(l)
  PROVE  FreeInv' /\ LiveInv' /\ EntryInv'
<1>0. FreeInv /\ LiveInv /\ EntryInv
  BY DEF SpaceInv
<1> DEFINE x == list_index(l)
           s == list_heads[x]
<1>1. x \in Classes /\ IsSmall(l) /\ Room(l) = BLOCK_SIZES[x]
  BY SmallIndex DEF alloc_pop, Room
<1> HIDE DEF x
<1>2. /\ s # <<>> /\ LARGE_ALLOCS' = LARGE_ALLOCS
      /\ live' = live \cup {[ptr |-> Head(s), layout |-> l]}
      /\ list_heads' = [list_heads EXCEPT ![x] = Tail(s)]
  BY DEF alloc_pop, x, Hold
<1>3. s \in Seq(Nat) /\ list_heads \in [Classes -> Seq(Nat)]
  BY <1>1 DEF HeapInv, TypeOK
<1>4. /\ list_heads' \in [Classes -> Seq(Nat)] /\ list_heads'[x] = Tail(s)
      /\ \A y \in Classes : y # x => list_heads'[y] = list_heads[y]
  BY <1>1, <1>2, <1>3
<1>5. /\ 1 \in DOMAIN s /\ Head(s) = s[1]
      /\ \A j \in DOMAIN Tail(s) : j \in Nat /\ j > 0 /\ j + 1 \in DOMAIN s /\ Tail(s)[j] = s[j + 1]
  <2> HIDE DEF s
  <2> QED
    BY <1>2, <1>3
<1>6. ListMoves(x, 0, -1)
  <2>1. \A j \in DOMAIN Tail(s) : j - (-1) = j + 1
    BY <1>5
  <2> QED
    BY <1>4, <1>5, <2>1 DEF ListMoves
<1>a. 0 \in Int /\ -1 \in Int
  OBVIOUS
<1>7. FreeInv'
  <2>1. \A j \in DOMAIN list_heads'[x] : ~(j <= 0)
    BY <1>4, <1>5
  <2>2. NewFree(x, 0)
    BY <2>1 DEF NewFree
  <2> QED
    BY <1>0, <1>1, <1>6, <1>a, <2>2, FreeInvMoves, Zenon
<1>8. ASSUME NEW y \in Classes, NEW j \in DOMAIN list_heads'[y]
      PROVE  Apart(s[1], Room(l), list_heads'[y][j], BLOCK_SIZES[y])
  <2>1. CASE y = x
    <3>0. j \in DOMAIN Tail(s) /\ list_heads'[y][j] = Tail(s)[j]
      BY <1>4, <2>1, Zenon
    <3>1. j + 1 \in DOMAIN s /\ list_heads'[y][j] = s[j + 1] /\ j + 1 # 1
      <4> HIDE DEF s
      <4> QED
        BY <1>5, <3>0
    <3>2. <<x, 1>> # <<x, j + 1>>
      BY <3>1
    <3>3. Apart(s[1], BLOCK_SIZES[x], s[j + 1], BLOCK_SIZES[x])
      BY <1>0, <1>1, <1>5, <3>1, <3>2, Zenon DEF FreeInv
    <3> QED
      BY <1>1, <2>1, <3>1, <3>3, Zenon
  <2>2. CASE y # x
    <3>1. list_heads'[y] = list_heads[y] /\ <<x, 1>> # <<y, j>>
      BY <1>4, <2>2
    <3>2. Apart(s[1], BLOCK_SIZES[x], list_heads[y][j], BLOCK_SIZES[y])
      BY <1>0, <1>1, <1>5, <3>1, Zenon DEF FreeInv
    <3> QED
      BY <1>1, <3>1, <3>2, Zenon
  <2> QED
    BY <2>1, <2>2
<1>9. ASSUME NEW b \in live
      PROVE  ApartFrom(b.ptr, Room(b.layout), list_heads')
  <2>1. ApartFrom(b.ptr, Room(b.layout), list_heads)
    BY <1>0 DEF LiveInv, ApartFrom
  <2>2. \A j \in DOMAIN list_heads'[x] : ~(j <= 0)
    BY <1>4, <1>5
  <2>3. ApartFromNew(b.ptr, Room(b.layout), x, 0)
    BY <2>2 DEF ApartFromNew
  <2> QED
    BY <1>1, <1>6, <1>a, <2>1, <2>3, BlockApartMoves, Zenon
<1>10. \A b \in live : Apart(b.ptr, Room(b.layout), s[1], Room(l))
  BY <1>0, <1>1, <1>5 DEF LiveInv
<1>11. s[1] \in Nat /\ InHeap(s[1], Room(l), Limit') /\ s[1] % Room(l) = 0
  <2>1. InHeap(s[1], Room(l), Limit) /\ s[1] % Room(l) = 0
    BY <1>0, <1>1, <1>5 DEF FreeInv
  <2>2. s[1] \in Nat /\ Room(l) \in Nat
    BY <1>3, <1>5, RoomFits
  <2> QED
    BY <2>1, <2>2, LimitRises
<1>12. LiveInv'
  <2>1. live' = live \cup {[ptr |-> s[1], layout |-> l]}
    BY <1>2, <1>5
  <2>2. NewLive(s[1], l)
    BY <1>8, <1>9, <1>10, <1>11, Zenon DEF NewLive, ApartFrom
  <2> QED
    BY <1>0, <1>11, <2>1, <2>2, LiveGrows
<1>13. EntryInv'
  <2>1. \A b \in live' : b \in live \/ IsSmall(b.layout)
    BY <1>1, <1>2
  <2> QED
    BY <1>0, <1>2, <2>1, EntriesStay
<1> QED
  BY <1>7, <1>12, <1>13

\* dealloc puts a small block on its free list, or leaks it.
LEMMA DeallocSmallSpace ==
  ASSUME HeapInv, SpaceInv, Limit \in Nat, Limit' \in Nat, Limit <= Limit',
         NEW b \in live, dealloc_small(b)
  PROVE  FreeInv' /\ LiveInv' /\ EntryInv'
<1>0. FreeInv /\ LiveInv /\ EntryInv
  BY DEF SpaceInv
<1> DEFINE x == list_index(b.layout)
           s == list_heads[x]
           t == <<b.ptr>> \o s
<1>1. x \in Classes /\ IsSmall(b.layout) /\ Room(b.layout) = BLOCK_SIZES[x]
  BY SmallIndex DEF dealloc_small, Room
<1>2. live' = live \ {b} /\ LARGE_ALLOCS' = LARGE_ALLOCS
  BY DEF dealloc_small
<1>3. \/ UNCHANGED list_heads
      \/ list_heads' = [list_heads EXCEPT ![x] = t]
  BY DEF dealloc_small
<1> HIDE DEF x
<1>4. CASE UNCHANGED list_heads
  BY <1>2, <1>4, SpaceStays
<1>5. CASE list_heads' = [list_heads EXCEPT ![x] = t]
  <2>1. s \in Seq(Nat) /\ list_heads \in [Classes -> Seq(Nat)] /\ b.ptr \in Nat
    BY <1>1, LiveType DEF HeapInv, TypeOK
  <2>2. /\ t \in Seq(Nat) /\ t[1] = b.ptr
        /\ \A j \in DOMAIN t : j \in Nat /\ (j <= 1 => j = 1)
                               /\ (j > 1 => j - 1 \in DOMAIN s /\ t[j] = s[j - 1])
    <3> DEFINE u == <<b.ptr>>
    <3>1. u \in Seq(Nat) /\ Len(u) = 1 /\ u[1] = b.ptr
      BY <2>1
    <3> HIDE DEF u, s
    <3>2. /\ u \o s \in Seq(Nat) /\ Len(u \o s) = 1 + Len(s)
          /\ (u \o s)[1] = u[1]
          /\ \A k \in 1 .. Len(u \o s) :
               k > 1 => k - 1 \in 1 .. Len(s) /\ (u \o s)[k] = s[k - 1]
      <4>1. /\ u \o s \in Seq(Nat) /\ Len(u \o s) = Len(u) + Len(s)
            /\ \A k \in 1 .. Len(u) : (u \o s)[k] = u[k]
            /\ \A k \in 1 .. Len(u \o s) :
                 k > Len(u) => k - Len(u) \in 1 .. Len(s) /\ (u \o s)[k] = s[k - Len(u)]
        BY <2>1, <3>1, TwoLists, Zenon
      <4>2. 1 \in 1 .. Len(u)
        BY <3>1
      <4> QED
        BY <3>1, <4>1, <4>2, Zenon
    <3>3. \A k \in 1 .. Len(u \o s) : k \in Nat /\ (k <= 1 => k = 1)
      BY <3>2
    <3>4. DOMAIN (u \o s) = 1 .. Len(u \o s) /\ DOMAIN s = 1 .. Len(s)
      <4>1. \A q \in Seq(Nat) : DOMAIN q = 1 .. Len(q)
        OBVIOUS
      <4> QED
        BY <2>1, <3>2, <4>1, Zenon
    <3> QED
      BY <3>1, <3>2, <3>3, <3>4 DEF u
  <2> HIDE DEF t
  <2>3. /\ list_heads' \in [Classes -> Seq(Nat)] /\ list_heads'[x] = t
        /\ \A y \in Classes : y # x => list_heads'[y] = list_heads[y]
    BY <1>1, <1>5, <2>1, <2>2
  <2>4. ListMoves(x, 1, 1)
    BY <2>2, <2>3 DEF ListMoves
  <2>a. 1 \in Int
    OBVIOUS
  <2>5. \A j \in DOMAIN list_heads'[x] : j <= 1 => j = 1 /\ list_heads'[x][j] = b.ptr
    BY <2>2, <2>3
  <2>6. InHeap(b.ptr, BLOCK_SIZES[x], Limit') /\ b.ptr % BLOCK_SIZES[x] = 0
    <3>1. InHeap(b.ptr, BLOCK_SIZES[x], Limit) /\ b.ptr % BLOCK_SIZES[x] = 0
      BY <1>0, <1>1 DEF LiveInv
    <3>2. BLOCK_SIZES[x] \in Nat
      BY <1>1, Sizes
    <3> QED
      BY <2>1, <3>1, <3>2, LimitRises
  <2>7. \A y \in Classes : \A k \in DOMAIN list_heads[y] :
          Apart(b.ptr, BLOCK_SIZES[x], list_heads[y][k], BLOCK_SIZES[y])
    BY <1>0, <1>1 DEF LiveInv
  <2>8. FreeInv'
    <3>1. \A j \in DOMAIN list_heads'[x] :
            j <= 1 => /\ InHeap(list_heads'[x][j], BLOCK_SIZES[x], Limit')
                      /\ list_heads'[x][j] % BLOCK_SIZES[x] = 0
      BY <2>5, <2>6
    <3>2. \A j, k \in DOMAIN list_heads'[x] : ~(j <= 1 /\ k <= 1 /\ j # k)
      BY <2>5
    <3>3. \A j \in DOMAIN list_heads'[x], y \in Classes :
            j <= 1 => \A k \in DOMAIN list_heads[y] :
              Apart(list_heads'[x][j], BLOCK_SIZES[x], list_heads[y][k], BLOCK_SIZES[y])
      BY <2>5, <2>7
    <3>4. NewFree(x, 1)
      BY <3>1, <3>2, <3>3 DEF NewFree
    <3> QED
      BY <1>0, <1>1, <2>4, <2>a, <3>4, FreeInvMoves, Zenon
  <2>9. LiveInv'
    <3>1. ASSUME NEW c \in live'
          PROVE  /\ InHeap(c.ptr, Room(c.layout), Limit')
                 /\ IsSmall(c.layout) => c.ptr % Room(c.layout) = 0
      <4>1. c \in live /\ c.ptr \in Nat /\ Room(c.layout) \in Nat
        BY <1>2, LiveType, RoomFits
      <4>2. /\ InHeap(c.ptr, Room(c.layout), Limit)
            /\ IsSmall(c.layout) => c.ptr % Room(c.layout) = 0
        BY <1>0, <4>1 DEF LiveInv
      <4> QED
        BY <4>1, <4>2, LimitRises
    <3>2. \A c, d \in live' : c # d => Apart(c.ptr, Room(c.layout), d.ptr, Room(d.layout))
      BY <1>0, <1>2, Zenon DEF LiveInv
    <3>3. ASSUME NEW c \in live'
          PROVE  ApartFrom(c.ptr, Room(c.layout), list_heads')
      <4>1. ApartFrom(c.ptr, Room(c.layout), list_heads)
        BY <1>0, <1>2, Zenon DEF LiveInv, ApartFrom
      <4>2. Apart(c.ptr, Room(c.layout), b.ptr, BLOCK_SIZES[x])
        BY <1>0, <1>1, <1>2, Zenon DEF LiveInv
      <4>3. ApartFromNew(c.ptr, Room(c.layout), x, 1)
        BY <2>5, <4>2, Zenon DEF ApartFromNew
      <4> QED
        BY <1>1, <2>4, <2>a, <4>1, <4>3, BlockApartMoves, Zenon
    <3> QED
      BY <3>1, <3>2, <3>3 DEF LiveInv, ApartFrom
  <2>10. EntryInv'
    BY <1>0, <1>2, EntriesStay
  <2> QED
    BY <2>8, <2>9, <2>10
<1> QED
  BY <1>3, <1>4, <1>5

-----------------------------------------------------------------------------
(***************************************************************************)
(* The steps that put new pages to use.                                    *)
(***************************************************************************)
\* Everything that is free or held is below a page that was just mapped.
LEMMA BelowNewPage ==
  ASSUME HeapInv, SpaceInv, Allocating
  PROVE  /\ \A y \in Classes : \A j \in DOMAIN list_heads[y] :
              list_heads[y][j] + BLOCK_SIZES[y] <= start_addr * PAGE_SIZE
         /\ \A b \in live : b.ptr + Room(b.layout) <= start_addr * PAGE_SIZE
<1>1. Limit = start_addr
  BY DEF Limit
<1> QED
  BY <1>1 DEF SpaceInv, FreeInv, LiveInv, InHeap

\* Pages that were mapped are in the heap and below the new limit.
LEMMA NewPagesInHeap ==
  ASSUME HeapInv, PhaseInv, Allocating, pa_pc = "ok", Limit' = current_virt,
         NEW a \in Nat, NEW n \in Nat, start_addr * PAGE_SIZE <= a,
         a + n <= (start_addr + num_pages) * PAGE_SIZE
  PROVE  InHeap(a, n, Limit')
<1>1. /\ current_virt \in Nat /\ start_addr \in Nat /\ num_pages \in Nat
      /\ START_VIRT \in Nat /\ END_VIRT \in Nat /\ PAGE_SIZE \in Nat
  BY LocalsType, Numbers, Sizes DEF HeapInv, PageInv
<1>2. /\ START_VIRT <= start_addr /\ start_addr + num_pages <= current_virt
      /\ start_addr + num_pages <= END_VIRT
  BY DEF PhaseInv
<1> DEFINE e == start_addr + num_pages
<1>3. e \in Nat /\ e <= current_virt /\ e <= END_VIRT
  BY <1>1, <1>2
<1> HIDE DEF e
<1> DEFINE w == START_VIRT * PAGE_SIZE
           b == start_addr * PAGE_SIZE
           u == e * PAGE_SIZE
           c == current_virt * PAGE_SIZE
           d == END_VIRT * PAGE_SIZE
<1>4. w \in Nat /\ b \in Nat /\ w <= b
  BY <1>1, <1>2, TimesKeepsOrder
<1>5. u \in Nat /\ c \in Nat /\ u <= c
  BY <1>1, <1>3, TimesKeepsOrder
<1>6. d \in Nat /\ u <= d
  BY <1>1, <1>3, TimesKeepsOrder
<1>7. b <= a /\ a + n <= u
  BY DEF e
<1> HIDE DEF w, b, u, c, d
<1>8. w <= a /\ a + n <= c /\ a + n <= d
  BY <1>4, <1>5, <1>6, <1>7
<1> QED
  BY <1>8 DEF InHeap, w, c, d

\* A page that is carved into blocks of one size.
LEMMA CarveSpace ==
  ASSUME HeapInv, SpaceInv, Limit \in Nat, Limit' \in Nat, Limit <= Limit',
         Allocating, pa_pc = "ok", num_pages = 1, Limit' = current_virt,
         NEW x \in Classes, NEW skip \in {0, 1},
         list_heads' = [list_heads EXCEPT ![x] = Carve(start_addr, x, skip, @)]
  PROVE  /\ FreeInv'
         /\ \A b \in live : ApartFrom(b.ptr, Room(b.layout), list_heads')
         /\ skip = 1 => ApartFrom(start_addr * PAGE_SIZE, BLOCK_SIZES[x], list_heads')
<1>0. PhaseInv /\ FreeInv /\ LiveInv
  BY DEF SpaceInv
<1> DEFINE size == BLOCK_SIZES[x]
           n == PAGE_SIZE \div size - skip
           base == start_addr * PAGE_SIZE
           list == list_heads[x]
           carved == Carve(start_addr, x, skip, list)
<1>1. list \in Seq(Nat) /\ list_heads \in [Classes -> Seq(Nat)] /\ start_addr \in Nat
  BY LocalsType DEF HeapInv, PageInv, TypeOK
<1>2. /\ n \in Nat /\ base \in Nat
      /\ carved \in Seq(Nat) /\ Len(carved) = n + Len(list)
      /\ \A k \in 1 .. Len(carved) :
           k > n => k - n \in 1 .. Len(list) /\ carved[k] = list[k - n]
      /\ \A k \in 1 .. Len(carved) :
           k <= n => /\ base + skip * size <= carved[k]
                     /\ carved[k] + size <= base + PAGE_SIZE
                     /\ carved[k] % size = 0
      /\ \A j, k \in 1 .. Len(carved) :
           j <= n /\ k <= n /\ j # k => Apart(carved[j], size, carved[k], size)
  <2>1. CarvedWell(start_addr, x, skip, list)
    <3> HIDE DEF list
    <3> QED
      BY <1>1, CarveFacts
  <2> QED
    BY <2>1, Zenon DEF CarvedWell
<1> HIDE DEF n, base, carved
<1>a. n \in Int /\ base \in Nat
  BY <1>2
<1>3. size \in Nat \ {0} /\ PAGE_SIZE \in Nat
  BY Sizes
<1>4. DOMAIN carved = 1 .. Len(carved) /\ DOMAIN list = 1 .. Len(list)
  BY <1>1, <1>2
<1>5. /\ list_heads' \in [Classes -> Seq(Nat)] /\ list_heads'[x] = carved
      /\ \A y \in Classes : y # x => list_heads'[y] = list_heads[y]
  <2>1. list_heads' = [list_heads EXCEPT ![x] = carved]
    BY DEF carved
  <2> QED
    BY <1>1, <1>2, <2>1
<1>6. ListMoves(x, n, n)
  BY <1>2, <1>4, <1>5 DEF ListMoves
<1>7. ASSUME NEW j \in DOMAIN carved, j <= n
      PROVE  /\ carved[j] \in Nat /\ base + skip * size <= carved[j]
             /\ carved[j] + size <= base + PAGE_SIZE
             /\ base <= carved[j] /\ carved[j] % size = 0
  <2>1. /\ base + skip * size <= carved[j] /\ carved[j] + size <= base + PAGE_SIZE
        /\ carved[j] % size = 0 /\ carved[j] \in Nat
    <3>1. j \in 1 .. Len(carved) /\ carved[j] \in Nat
      BY <1>2
    <3> QED
      BY <1>2, <1>7, <3>1, Zenon
  <2>2. skip * size \in Nat
    BY <1>3
  <2> DEFINE e == skip * size
  <2> HIDE DEF e
  <2>3. e \in Nat /\ base + e <= carved[j]
    BY <2>1, <2>2 DEF e
  <2>4. base <= carved[j]
    <3>1. ASSUME NEW a \in Nat, NEW b \in Nat, NEW c \in Nat, a + b <= c
          PROVE  a <= c
      BY <3>1
    <3> QED
      BY <1>2, <2>1, <2>3, <3>1, Zenon
  <2> QED
    BY <2>1, <2>4
<1>8. FreeInv'
  <2>1. ASSUME NEW j \in DOMAIN carved, j <= n
        PROVE  InHeap(carved[j], size, Limit') /\ carved[j] % size = 0
    <3>1. (start_addr + num_pages) * PAGE_SIZE = base + PAGE_SIZE
      BY <1>1, <1>3 DEF base
    <3> QED
      BY <1>0, <1>3, <1>7, <2>1, <3>1, NewPagesInHeap DEF base
  <2>2. ASSUME NEW j \in DOMAIN carved, j <= n, NEW y \in Classes, NEW k \in DOMAIN list_heads[y]
        PROVE  Apart(carved[j], size, list_heads[y][k], BLOCK_SIZES[y])
    <3>1. list_heads[y][k] + BLOCK_SIZES[y] <= base
      BY BelowNewPage DEF base
    <3>2. list_heads[y][k] \in Nat /\ BLOCK_SIZES[y] \in Nat
      BY FreeType, Sizes
    <3>3. list_heads[y][k] + BLOCK_SIZES[y] <= carved[j]
      BY <1>a, <1>7, <2>2, <3>1, <3>2
    <3> QED
      BY <3>3 DEF Apart
  <2>3. \A j \in DOMAIN list_heads'[x] :
          j <= n => /\ InHeap(list_heads'[x][j], BLOCK_SIZES[x], Limit')
                    /\ list_heads'[x][j] % BLOCK_SIZES[x] = 0
    BY <1>5, <2>1
  <2>4. \A j, k \in DOMAIN list_heads'[x] :
          j <= n /\ k <= n /\ j # k =>
            Apart(list_heads'[x][j], BLOCK_SIZES[x], list_heads'[x][k], BLOCK_SIZES[x])
    BY <1>2, <1>4, <1>5
  <2>5. \A j \in DOMAIN list_heads'[x], y \in Classes :
          j <= n => \A k \in DOMAIN list_heads[y] :
            Apart(list_heads'[x][j], BLOCK_SIZES[x], list_heads[y][k], BLOCK_SIZES[y])
    BY <1>5, <2>2
  <2>6. NewFree(x, n)
    BY <2>3, <2>4, <2>5 DEF NewFree
  <2> QED
    BY <1>0, <1>a, <1>6, <2>6, FreeInvMoves, Zenon
<1>9. ASSUME NEW b \in live
      PROVE  ApartFrom(b.ptr, Room(b.layout), list_heads')
  <2>1. ApartFrom(b.ptr, Room(b.layout), list_heads)
    BY <1>0 DEF LiveInv, ApartFrom
  <2>2. ASSUME NEW j \in DOMAIN list_heads'[x], j <= n
        PROVE  Apart(b.ptr, Room(b.layout), list_heads'[x][j], BLOCK_SIZES[x])
    <3>1. b.ptr + Room(b.layout) <= base /\ b.ptr \in Nat /\ Room(b.layout) \in Nat
      BY BelowNewPage, LiveType, RoomFits DEF base
    <3>2. j \in DOMAIN carved /\ list_heads'[x][j] = carved[j]
      BY <1>5
    <3>3. b.ptr + Room(b.layout) <= carved[j]
      BY <1>a, <1>7, <2>2, <3>1, <3>2
    <3> QED
      BY <3>2, <3>3 DEF Apart
  <2>3. ApartFromNew(b.ptr, Room(b.layout), x, n)
    BY <2>2 DEF ApartFromNew
  <2> QED
    BY <1>a, <1>6, <2>1, <2>3, BlockApartMoves, Zenon
<1>10. ASSUME skip = 1
       PROVE  ApartFrom(base, size, list_heads')
  <2>1. ApartFrom(base, size, list_heads)
    BY BelowNewPage DEF base, Apart, ApartFrom
  <2>2. ApartFromNew(base, size, x, n)
    <3>1. skip * size = size
      BY <1>3, <1>10
    <3> QED
      BY <1>5, <1>7, <3>1 DEF Apart, ApartFromNew
  <2> HIDE DEF size
  <2> QED
    BY <1>a, <1>6, <2>1, <2>2, BlockApartMoves, Zenon
<1> QED
  BY <1>8, <1>9, <1>10, Zenon DEF base

\* init's page is carved, or there is none.
LEMMA InitDoneSpace ==
  ASSUME HeapInv, SpaceInv, Limit \in Nat, Limit' \in Nat, Limit <= Limit', init_done
  PROVE  FreeInv' /\ LiveInv' /\ EntryInv'
<1>0. PhaseInv /\ FreeInv /\ LiveInv /\ EntryInv
  BY DEF SpaceInv
<1>1. /\ Allocating /\ num_pages = 1 /\ UNCHANGED <<live, LARGE_ALLOCS>>
  BY <1>0 DEF init_done, Allocating, PhaseInv
<1>2. Limit' = current_virt
  BY <1>0, DonePhase DEF init_done
<1>3. CASE UNCHANGED list_heads
  BY <1>1, <1>3, SpaceStays
<1>4. CASE pa_pc = "ok" /\ list_heads' = [list_heads EXCEPT ![1] = Carve(start_addr, 1, 0, @)]
  <2>1. /\ FreeInv'
        /\ \A b \in live : ApartFrom(b.ptr, Room(b.layout), list_heads')
    BY <1>1, <1>2, <1>4, ClassOne, CarveSpace, Zenon
  <2>2. LiveInv'
    <3>1. ASSUME NEW b \in live
          PROVE  /\ InHeap(b.ptr, Room(b.layout), Limit')
                 /\ IsSmall(b.layout) => b.ptr % Room(b.layout) = 0
      <4>1. b.ptr \in Nat /\ Room(b.layout) \in Nat
        BY LiveType, RoomFits
      <4>2. /\ InHeap(b.ptr, Room(b.layout), Limit)
            /\ IsSmall(b.layout) => b.ptr % Room(b.layout) = 0
        BY <1>0 DEF LiveInv
      <4> QED
        BY <4>1, <4>2, LimitRises
    <3> QED
      BY <1>0, <1>1, <2>1, <3>1 DEF LiveInv, ApartFrom
  <2>3. EntryInv'
    BY <1>0, <1>1, EntriesStay
  <2> QED
    BY <2>1, <2>2, <2>3
<1> QED
  BY <1>3, <1>4 DEF init_done

\* A page for a free list that was empty: its first block goes to the caller.
LEMMA RefillDoneSpace ==
  ASSUME HeapInv, SpaceInv, Limit \in Nat, Limit' \in Nat, Limit <= Limit', refill_done
  PROVE  FreeInv' /\ LiveInv' /\ EntryInv'
<1>0. PhaseInv /\ FreeInv /\ LiveInv /\ EntryInv
  BY DEF SpaceInv
<1> DEFINE x == list_index(layout)
           base == start_addr * PAGE_SIZE
<1>1. /\ Allocating /\ num_pages = 1 /\ UNCHANGED LARGE_ALLOCS
      /\ layout \in Layouts /\ IsSmall(layout)
  BY <1>0 DEF refill_done, Allocating, PhaseInv, HeapInv, CallInv
<1>2. Limit' = current_virt
  BY <1>0, DonePhase DEF refill_done
<1>3. CASE UNCHANGED <<list_heads, live>>
  BY <1>1, <1>3, SpaceStays
<1>4. CASE /\ pa_pc = "ok" /\ list_heads' = [list_heads EXCEPT ![x] = Carve(start_addr, x, 1, @)]
           /\ live' = live \cup {[ptr |-> base, layout |-> layout]}
  <2>1. x \in Classes /\ Room(layout) = BLOCK_SIZES[x]
    BY <1>1, SmallIndex DEF Room
  <2>2. /\ FreeInv'
        /\ \A b \in live : ApartFrom(b.ptr, Room(b.layout), list_heads')
        /\ ApartFrom(base, BLOCK_SIZES[x], list_heads')
    <3> HIDE DEF x
    <3> QED
      BY <1>1, <1>2, <1>4, <2>1, CarveSpace, Zenon
  <2>3. base \in Nat /\ start_addr \in Nat
    BY AddressType, LocalsType DEF HeapInv, PageInv
  <2>4. InHeap(base, Room(layout), Limit')
    <3>1. Room(layout) \in Nat /\ Room(layout) <= PAGE_SIZE /\ PAGE_SIZE \in Nat
      BY <1>1, <2>1, RoomFits, Sizes, BlocksOfPage
    <3>2. (start_addr + num_pages) * PAGE_SIZE = base + PAGE_SIZE
      BY <1>1, <2>3, <3>1
    <3> HIDE DEF base
    <3>3. base + Room(layout) <= (start_addr + num_pages) * PAGE_SIZE /\ base <= base
      BY <2>3, <3>1, <3>2
    <3> QED
      BY <1>0, <1>1, <1>2, <1>4, <2>3, <3>1, <3>3, NewPagesInHeap DEF base
  <2>5. base % Room(layout) = 0
    <3>1. BLOCK_SIZES[x] \in Nat \ {0} /\ PAGE_SIZE \in Nat \ {0} /\ PAGE_SIZE % BLOCK_SIZES[x] = 0
      BY <2>1, Sizes
    <3>2. base % PAGE_SIZE = 0
      BY <2>3, <3>1, MultipleIsDivided
    <3> HIDE DEF base, x
    <3>3. base % BLOCK_SIZES[x] = 0
      BY <2>3, <3>1, <3>2, DividesThrough
    <3> QED
      BY <2>1, <3>3
  <2>6. \A b \in live : Apart(b.ptr, Room(b.layout), base, Room(layout))
    BY <1>1, BelowNewPage DEF Apart
  <2>7. LiveInv'
    <3> HIDE DEF base, x
    <3>1. NewLive(base, layout)
      BY <2>1, <2>2, <2>4, <2>5, <2>6 DEF NewLive
    <3> QED
      BY <1>0, <1>1, <1>4, <2>3, <3>1, LiveGrows
  <2>8. EntryInv'
    <3>1. \A b \in live' : b \in live \/ IsSmall(b.layout)
      BY <1>1, <1>4
    <3> QED
      BY <1>0, <1>1, <3>1, EntriesStay
  <2> QED
    BY <2>2, <2>7, <2>8
<1> QED
  BY <1>3, <1>4 DEF refill_done, Hold

\* The pages of a large block, with their entry.
LEMMA FallbackDoneSpace ==
  ASSUME HeapInv, SpaceInv, Limit \in Nat, Limit' \in Nat, Limit <= Limit', fallback_done
  PROVE  FreeInv' /\ LiveInv' /\ EntryInv'
<1>0. PhaseInv /\ FreeInv /\ LiveInv /\ EntryInv
  BY DEF SpaceInv
<1> DEFINE base == start_addr * PAGE_SIZE
           e == [addr |-> start_addr, num_pages |-> num_pages]
<1>1. /\ Allocating /\ num_pages = PagesFor(layout) /\ UNCHANGED list_heads
      /\ layout \in Layouts /\ ~IsSmall(layout) /\ Limit = start_addr
  BY <1>0 DEF fallback_done, Allocating, PhaseInv, HeapInv, CallInv, Limit
<1>2. CASE UNCHANGED <<LARGE_ALLOCS, live>>
  BY <1>1, <1>2, SpaceStays
<1>3. CASE /\ pa_pc = "ok" /\ Done /\ LARGE_ALLOCS' = Append(LARGE_ALLOCS, e)
           /\ live' = live \cup {[ptr |-> base, layout |-> layout]}
  <2>1. Limit' = current_virt
    BY <1>0, <1>3, DonePhase DEF fallback_done
  <2>2. /\ base \in Nat /\ start_addr \in Nat /\ num_pages \in Nat \ {0}
        /\ start_addr + num_pages <= Limit'
    BY <1>0, <1>1, <1>3, <2>1, AddressType, LocalsType, PagesForType
    DEF HeapInv, PageInv, PhaseInv
  <2>3. Room(layout) = num_pages * PAGE_SIZE /\ Room(layout) \in Nat
    BY <1>1, RoomFits DEF Room
  <2>4. InHeap(base, Room(layout), Limit')
    <3>1. PAGE_SIZE \in Nat
      BY Sizes
    <3>2. (start_addr + num_pages) * PAGE_SIZE = base + Room(layout)
      BY <2>2, <2>3, <3>1, TimesSum
    <3> HIDE DEF base
    <3>3. base + Room(layout) <= (start_addr + num_pages) * PAGE_SIZE /\ base <= base
      BY <2>2, <2>3, <3>2
    <3> QED
      BY <1>0, <1>1, <1>3, <2>1, <2>2, <2>3, <3>3, NewPagesInHeap DEF base
  <2>5. \A b \in live : Apart(b.ptr, Room(b.layout), base, Room(layout))
    BY <1>1, BelowNewPage DEF Apart
  <2>6. ApartFrom(base, Room(layout), list_heads')
    BY <1>1, BelowNewPage DEF Apart, ApartFrom
  <2>7. \A b \in live : ApartFrom(b.ptr, Room(b.layout), list_heads')
    BY <1>0, <1>1 DEF LiveInv, ApartFrom
  <2>8. LiveInv'
    <3> HIDE DEF base
    <3>1. NewLive(base, layout)
      BY <1>1, <2>4, <2>5, <2>6, <2>7 DEF NewLive
    <3> QED
      BY <1>0, <1>1, <1>3, <2>2, <3>1, LiveGrows
  <2>9. FreeInv'
    BY <1>0, <1>1, FreeStays
  <2>10. EntryInv'
    <3> DEFINE len == Len(LARGE_ALLOCS)
    <3>1. LARGE_ALLOCS \in Seq([addr : Pages, num_pages : Nat])
      BY DEF HeapInv, TypeOK
    <3>2. e.addr = start_addr /\ e.num_pages = num_pages
      OBVIOUS
    <3>3. /\ DOMAIN LARGE_ALLOCS = 1 .. len /\ len \in Nat
          /\ DOMAIN LARGE_ALLOCS' = 1 .. len + 1
          /\ \A k \in 1 .. len : LARGE_ALLOCS'[k] = LARGE_ALLOCS[k]
          /\ LARGE_ALLOCS'[len + 1] = e
      <4> HIDE DEF e
      <4>1. LARGE_ALLOCS' = Append(LARGE_ALLOCS, e)
        BY <1>3
      <4> QED
        BY <3>1, <4>1
    <3> HIDE DEF e, len
    <3>4. \A k \in 1 .. len + 1 : k \in 1 .. len \/ k = len + 1
      BY <3>3
    <3>5. ASSUME NEW k \in 1 .. len
          PROVE  /\ LARGE_ALLOCS[k].addr \in Nat /\ LARGE_ALLOCS[k].num_pages \in Nat
                 /\ LARGE_ALLOCS[k].num_pages # 0
                 /\ LARGE_ALLOCS[k].addr + LARGE_ALLOCS[k].num_pages <= start_addr
      BY <1>0, <1>1, <3>3, EntryType, Zenon DEF EntryInv
    <3>6. ASSUME NEW k \in 1 .. len + 1
          PROVE  /\ LARGE_ALLOCS'[k].num_pages # 0
                 /\ LARGE_ALLOCS'[k].addr + LARGE_ALLOCS'[k].num_pages <= Limit'
      <4>1. CASE k \in 1 .. len
        <5>1. LARGE_ALLOCS'[k] = LARGE_ALLOCS[k]
          BY <3>3, <4>1, Zenon
        <5> DEFINE ea == LARGE_ALLOCS[k].addr
                   en == LARGE_ALLOCS[k].num_pages
        <5>2. ea \in Nat /\ en \in Nat /\ en # 0 /\ ea + en <= start_addr
          BY <3>5, <4>1, Zenon
        <5> HIDE DEF ea, en
        <5>3. ea + en <= Limit'
          BY <1>1, <2>2, <5>2
        <5> QED
          BY <5>1, <5>2, <5>3, Zenon DEF ea, en
      <4>2. CASE k = len + 1
        BY <2>2, <3>2, <3>3, <4>2
      <4> QED
        BY <3>4, <4>1, <4>2
    <3>7. ASSUME NEW j \in 1 .. len + 1, NEW k \in 1 .. len + 1, j # k
          PROVE  Apart(LARGE_ALLOCS'[j].addr, LARGE_ALLOCS'[j].num_pages,
                       LARGE_ALLOCS'[k].addr, LARGE_ALLOCS'[k].num_pages)
      <4>1. CASE j \in 1 .. len /\ k \in 1 .. len
        BY <1>0, <3>3, <3>7, <4>1 DEF EntryInv
      <4>2. CASE j \in 1 .. len /\ k = len + 1
        BY <3>2, <3>3, <3>5, <4>2 DEF Apart
      <4>3. CASE j = len + 1 /\ k \in 1 .. len
        BY <3>2, <3>3, <3>5, <4>3 DEF Apart
      <4> QED
        BY <3>4, <3>7, <4>1, <4>2, <4>3
    <3>8. ASSUME NEW b \in live', ~IsSmall(b.layout)
          PROVE  \E k \in 1 .. len + 1 :
                   /\ LARGE_ALLOCS'[k].addr * PAGE_SIZE = b.ptr
                   /\ LARGE_ALLOCS'[k].num_pages = PagesFor(b.layout)
      <4>1. CASE b \in live
        <5>1. PICK k \in 1 .. len :
                /\ LARGE_ALLOCS[k].addr * PAGE_SIZE = b.ptr
                /\ LARGE_ALLOCS[k].num_pages = PagesFor(b.layout)
          BY <1>0, <3>3, <3>8, <4>1 DEF EntryInv
        <5>2. k \in 1 .. len + 1
          BY <3>3
        <5> QED
          BY <3>3, <5>1, <5>2
      <4>2. CASE b = [ptr |-> base, layout |-> layout]
        <5>1. len + 1 \in 1 .. len + 1
          <6>1. len \in Nat
            BY <3>3, Zenon
          <6> QED
            BY ONLY <6>1
        <5>2. b.ptr = base /\ b.layout = layout
          BY <4>2
        <5> QED
          BY <1>1, <3>2, <3>3, <5>1, <5>2
      <4> QED
        BY <1>3, <4>1, <4>2, Zenon
    <3> QED
      BY <3>3, <3>6, <3>7, <3>8 DEF EntryInv
  <2> QED
    BY <2>8, <2>9, <2>10
<1> QED
  BY <1>2, <1>3 DEF fallback_done, large_alloc_insert, Hold
=============================================================================
