------------------------- MODULE HeapMemoryProofs ---------------------------
(***************************************************************************)
(* BackedInv of KernelHeap is inductive, in a build with overflow checks:  *)
(* every block has memory under it.  And the blocks of a size, free and    *)
(* held, are conserved.                                                    *)
(***************************************************************************)
EXTENDS HeapSpaceProofs, FiniteSetTheorems

-----------------------------------------------------------------------------
(***************************************************************************)
(* The steps of the page allocator.                                        *)
(***************************************************************************)
\* The loop of alloc takes a frame.
LEMMA FrameTakenBacked ==
  ASSUME SpaceInv, BackedInv, AllocFrame \/ MapTable, UNCHANGED heap_vars
  PROVE  BackedInv'
<1>1. /\ pa_pc \in {"frame", "walk"} /\ pa_pc' \in {"walk", "err", "panicked"}
      /\ panic' \in {panic, "non-canonical"}
      /\ UNCHANGED <<page_table, num_pages, start_addr, i>>
  BY DEF AllocFrame, MapTable, Return, Panic
<1>2. Allocating /\ UNCHANGED <<heap_pc, list_heads, live>>
  BY <1>1 DEF SpaceInv, PhaseInv, heap_vars
<1>3. BlocksMapped'
  BY <1>1, <1>2, BlocksAlone DEF BackedInv
<1>4. MappedSoFar'
  BY <1>1, <1>2 DEF BackedInv, MappedSoFar, Allocating
<1>5. FreedInv'
  BY <1>1, <1>2 DEF FreedInv, Allocating
<1> QED
  BY <1>1, <1>3, <1>4, <1>5 DEF BackedInv, DeallocSucceeds

\* The loop of alloc maps a page: no page is lost.
LEMMA MapPageBacked ==
  ASSUME HeapInv, SpaceInv, BackedInv, MapPage, UNCHANGED heap_vars
  PROVE  BackedInv'
<1>1. pa_pc = "walk" /\ PageInv /\ UNCHANGED <<num_pages, start_addr, heap_pc, list_heads, live>>
  BY DEF MapPage, HeapInv, heap_vars
<1>2. page_virt = start_addr + i /\ page_virt \in Pages /\ page_table[page_virt] = None
  BY <1>1, LoopPage
<1>3. /\ page_table \in [Pages -> Frames \cup {None}] /\ frame # None
      /\ start_addr \in Nat /\ i \in Nat
  <2>1. page_table \in [Pages -> Frames \cup {None}] /\ frame \in Frames
    BY <1>1 DEF PageInv, PageTypeOK, LocalFrameInv
  <2>2. frame # None
    BY <2>1, FrameCountAssumption DEF Frames, None
  <2> QED
    BY <1>1, <2>1, <2>2, LocalsType DEF PageInv
<1>4. /\ page_table' = [page_table EXCEPT ![page_virt] = frame]
      /\ \/ pa_pc' = "panicked" /\ panic' = "overflow"
         \/ /\ i' = i + 1 /\ panic' = panic
            /\ pa_pc' = IF i + 1 = num_pages THEN "ok" ELSE "frame"
  BY <1>2 DEF MapPage, Panic, Return
<1>5. Allocating /\ Allocating'
  BY <1>1 DEF SpaceInv, PhaseInv, Allocating
<1> DEFINE q == page_virt
<1>6. page_table'[q] = frame /\ \A page \in Pages : page # q => page_table'[page] = page_table[page]
  BY <1>2, <1>3, <1>4
<1>7. \A page \in Pages : page_table[page] # None => page_table'[page] # None
  BY <1>3, <1>6
<1> HIDE DEF q
<1>8. BlocksMapped'
  <2>1. ASSUME NEW x \in Classes, NEW j \in DOMAIN list_heads[x]
        PROVE  OnMapped(list_heads[x][j], BLOCK_SIZES[x], page_table')
    BY <1>7 DEF BackedInv, BlocksMapped, OnMapped
  <2>2. ASSUME NEW b \in live
        PROVE  OnMapped(b.ptr, Room(b.layout), page_table')
    BY <1>7 DEF BackedInv, BlocksMapped, OnMapped
  <2> QED
    BY <1>1, <2>1, <2>2, Zenon DEF BlocksMapped
<1>9. MappedSoFar'
  <2>1. CASE pa_pc' = "panicked"
    BY <2>1 DEF MappedSoFar
  <2>2. CASE i' = i + 1 /\ pa_pc' = IF i + 1 = num_pages THEN "ok" ELSE "frame"
    <3>1. ASSUME NEW page \in Pages, start_addr <= page, page < start_addr + (i + 1)
          PROVE  page_table'[page] # None
      <4>1. page = q \/ page < start_addr + i
        BY <1>2, <1>3, <3>1, PagesDef DEF q
      <4>2. CASE page = q
        BY <1>3, <1>6, <4>2
      <4>3. CASE page < start_addr + i
        BY <1>1, <1>5, <1>7, <3>1, <4>3 DEF BackedInv, MappedSoFar, PagesMapped
      <4> QED
        BY <4>1, <4>2, <4>3
    <3>2. PagesMapped(start_addr, start_addr + i, page_table)'
      BY <1>1, <2>2, <3>1 DEF PagesMapped
    <3> QED
      BY <1>1, <2>2, <3>2 DEF MappedSoFar
  <2> QED
    BY <1>4, <2>1, <2>2
<1>10. FreedInv' /\ DeallocSucceeds'
  BY <1>4, <1>5 DEF BackedInv, FreedInv, DeallocSucceeds, Allocating
<1> QED
  BY <1>8, <1>9, <1>10 DEF BackedInv

\* The loop of dealloc unmaps a page that is mapped and that no block is on.
LEMMA UnmapPageBacked ==
  ASSUME HeapInv, SpaceInv, BackedInv, UnmapPage, UNCHANGED heap_vars
  PROVE  BackedInv'
<1>1. /\ pa_pc = "unmap"
      /\ UNCHANGED <<num_pages, start_addr, current_virt, heap_pc, list_heads, live,
                     LARGE_ALLOCS, ptr, slot>>
  BY DEF UnmapPage, heap_vars
<1>2. /\ heap_pc = "dealloc" /\ i < num_pages /\ start_addr + num_pages <= current_virt
      /\ PagesMapped(start_addr + i, start_addr + num_pages, page_table)
      /\ PagesUnused(start_addr, num_pages)
      /\ \A k \in slot .. Len(LARGE_ALLOCS) : ~Matches(k)
  BY <1>1 DEF BackedInv, FreedInv
<1>3. /\ page_table \in [Pages -> Frames \cup {None}]
      /\ start_addr \in Nat /\ i \in Nat /\ num_pages \in Nat
      /\ current_virt \in Nat /\ current_virt < ADDR_PAGES
  BY LocalsType DEF HeapInv, PageInv, PageTypeOK
<1> DEFINE q == page_virt
<1>4. q = start_addr + i /\ q \in Pages /\ start_addr <= q /\ q < start_addr + num_pages
  <2>1. start_addr + i \in Nat /\ start_addr + i < ADDR_PAGES
    BY <1>2, <1>3, Numbers
  <2>2. q = start_addr + i
    BY <2>1, Numbers, ModSmall DEF page_virt
  <2> HIDE DEF q
  <2> QED
    BY <1>2, <1>3, <2>1, <2>2, PagesDef
<1>5. page_table[q] # None /\ page_table[q] \in Frames
  <2>1. page_table[q] # None
    BY <1>2, <1>3, <1>4 DEF PagesMapped
  <2> QED
    BY <1>3, <1>4, <2>1
<1>6. /\ page_table' = [page_table EXCEPT ![q] = None] /\ i' = i + 1 /\ panic' = panic
      /\ pa_pc' = IF i + 1 = num_pages THEN "ok" ELSE "unmap"
  <2>1. frame_as_index(page_table[q]) # None
    BY <1>5 DEF frame_as_index
  <2> QED
    BY <1>5, <2>1 DEF UnmapPage, Return
<1>7. \A page \in Pages : page # q => page_table'[page] = page_table[page]
  BY <1>3, <1>6
<1> HIDE DEF q
<1>8. BlocksMapped'
  <2>1. ASSUME NEW a \in Nat, NEW r \in Nat, OnMapped(a, r, page_table),
               Apart(a, r, start_addr * PAGE_SIZE, num_pages * PAGE_SIZE)
        PROVE  OnMapped(a, r, page_table')
    <3> DEFINE s == page_table
               t == page_table'
    <3>1. OnMapped(a, r, s) /\ \A page \in Pages : page # q => t[page] = s[page]
      BY <1>7, <2>1
    <3> HIDE DEF s, t
    <3>2. /\ start_addr \in Nat /\ num_pages \in Nat
          /\ q \in Pages /\ start_addr <= q /\ q < start_addr + num_pages
      BY <1>3, <1>4, Zenon
    <3>3. OnMapped(a, r, t)
      BY <2>1, <3>1, <3>2, UnmappedApart
    <3> QED
      BY <3>3 DEF t
  <2>2. ASSUME NEW x \in Classes, NEW j \in DOMAIN list_heads[x]
        PROVE  OnMapped(list_heads[x][j], BLOCK_SIZES[x], page_table')
    <3>1. /\ OnMapped(list_heads[x][j], BLOCK_SIZES[x], page_table)
          /\ Apart(list_heads[x][j], BLOCK_SIZES[x], start_addr * PAGE_SIZE, num_pages * PAGE_SIZE)
      BY <1>2 DEF BackedInv, BlocksMapped, PagesUnused
    <3>2. list_heads[x][j] \in Nat /\ BLOCK_SIZES[x] \in Nat
      BY FreeType, Sizes
    <3> QED
      BY <2>1, <3>1, <3>2, Zenon
  <2>3. ASSUME NEW b \in live
        PROVE  OnMapped(b.ptr, Room(b.layout), page_table')
    <3>1. /\ OnMapped(b.ptr, Room(b.layout), page_table)
          /\ Apart(b.ptr, Room(b.layout), start_addr * PAGE_SIZE, num_pages * PAGE_SIZE)
      BY <1>2 DEF BackedInv, BlocksMapped, PagesUnused
    <3>2. b.ptr \in Nat /\ Room(b.layout) \in Nat
      BY LiveType, RoomFits
    <3> QED
      BY <2>1, <3>1, <3>2, Zenon
  <2> QED
    BY <1>1, <2>2, <2>3, Zenon DEF BlocksMapped
<1>9. FreedInv'
  <2>1. \A k \in slot' .. Len(LARGE_ALLOCS') : ~Matches(k)'
    BY <1>1, <1>2 DEF Matches
  <2>2. PagesUnused(start_addr, num_pages)'
    BY <1>1, <1>2 DEF PagesUnused
  <2>3. ASSUME NEW page \in Pages, start_addr + (i + 1) <= page, page < start_addr + num_pages
        PROVE  page_table'[page] # None
    <3>1. page # q /\ start_addr + i <= page
      BY <1>3, <1>4, <2>3, PagesDef
    <3>2. page_table[page] # None
      BY <1>2, <2>3, <3>1 DEF PagesMapped
    <3> QED
      BY <1>7, <3>1, <3>2
  <2>4. PagesMapped(start_addr + i, start_addr + num_pages, page_table)'
    BY <1>1, <1>6, <2>3 DEF PagesMapped
  <2>5. pa_pc' = "unmap" => (i < num_pages)'
    BY <1>1, <1>2, <1>3, <1>6
  <2> QED
    BY <1>1, <1>2, <1>6, <2>1, <2>2, <2>4, <2>5 DEF FreedInv
<1> QED
  BY <1>1, <1>2, <1>6, <1>8, <1>9 DEF BackedInv, MappedSoFar, DeallocSucceeds, Allocating

-----------------------------------------------------------------------------
(***************************************************************************)
(* The invariant, and what follows.                                        *)
(***************************************************************************)
\* Nothing is handed out before init.
LEMMA InitBacked ==
  ASSUME Init
  PROVE  BackedInv
<1>1. /\ list_heads = [k \in Classes |-> <<>>] /\ live = {}
      /\ heap_pc = "boot" /\ pa_pc = "idle" /\ panic = "no"
  BY DEF Init, PaInit
<1>2. \A x \in Classes : DOMAIN list_heads[x] = {}
  BY <1>1
<1>3. BlocksMapped
  BY <1>1, <1>2 DEF BlocksMapped
<1> QED
  BY <1>1, <1>3 DEF BackedInv, MappedSoFar, FreedInv, DeallocSucceeds, Allocating

\* Every step keeps the blocks on mapped pages.
LEMMA BackedKept ==
  ASSUME HeapInv, SpaceInv, BackedInv, [Next]_vars
  PROVE  BackedInv'
<1>1. CASE UNCHANGED vars
  <2>1. /\ UNCHANGED <<page_table, num_pages, start_addr, i, current_virt, panic, pa_pc>>
        /\ UNCHANGED <<list_heads, live, LARGE_ALLOCS, heap_pc, ptr, slot>>
    BY <1>1 DEF vars, pa_vars, heap_vars
  <2>2. BlocksMapped'
    BY <2>1, BlocksAlone DEF BackedInv
  <2>3. MappedSoFar'
    BY <2>1 DEF BackedInv, MappedSoFar, Allocating
  <2>4. FreedInv'
    BY <2>1 DEF BackedInv, FreedInv, Matches, PagesUnused
  <2> QED
    BY <2>1, <2>2, <2>3, <2>4 DEF BackedInv, DeallocSucceeds
<1>2. CASE init
  BY <1>2, AllocStartsBacked DEF init, Allocating
<1>3. ASSUME NEW l \in Layouts, refill_free_list(l)
      PROVE  BackedInv'
  BY <1>3, AllocStartsBacked DEF refill_free_list, Allocating
<1>4. ASSUME NEW l \in Layouts, fallback_alloc(l)
      PROVE  BackedInv'
  <2>1. PagesFor(l) \in Nat
    BY PagesForType
  <2> QED
    BY <1>4, <2>1, AllocStartsBacked DEF fallback_alloc, Allocating
<1>5. CASE PageStep
  BY <1>5, FrameTakenBacked, MapPageBacked, UnmapPageBacked DEF PageStep, PaStep
<1>6. CASE dealloc_done
  <2>1. BlocksMapped'
    BY <1>6, BlocksAlone DEF dealloc_done, KeepPages, BackedInv
  <2> QED
    BY <1>6, <2>1, DoneBacked DEF dealloc_done
<1>7. CASE Call
  BY <1>2, <1>3, <1>4, <1>7, AllocPopBacked, DeallocSmallBacked, DeallocLargeBacked DEF Call
<1>8. CASE Step
  BY <1>5, <1>6, <1>8, InitDoneBacked, RefillDoneBacked, FallbackDoneBacked,
     DeallocMatchBacked, DeallocNextBacked DEF Step
<1> QED
  BY <1>1, <1>7, <1>8 DEF Next, Halted

\* BackedInv holds always, when arithmetic overflow traps.
THEOREM BackedInvariant ==
  ASSUME OVERFLOW_CHECKS
  PROVE  Spec => []BackedInv
<1>1. Init => BackedInv
  BY InitBacked
<1>2. HeapInv /\ SpaceInv /\ BackedInv /\ [Next]_vars => BackedInv'
  BY BackedKept
<1> QED
  BY <1>1, <1>2, SpaceInvariant, PTL DEF Spec

\* No block that is held or free ever loses a page under it, whichever pages
\* the deallocations of large blocks unmap (PageAllocator::dealloc).
THEOREM BlocksStayBacked ==
  ASSUME OVERFLOW_CHECKS
  PROVE  Spec => []Backed
<1>1. ASSUME HeapInv, SpaceInv, BackedInv
      PROVE  Backed
  <2>1. ASSUME NEW b \in live, NEW a \in Block(b)
        PROVE  page_table[PageOf(a)] # None
    <3>1. /\ OnMapped(b.ptr, Room(b.layout), page_table)
          /\ b.ptr + Room(b.layout) <= END_VIRT * PAGE_SIZE
      BY <1>1 DEF BackedInv, BlocksMapped, SpaceInv, LiveInv, InHeap
    <3>2. /\ b.ptr \in Nat /\ Room(b.layout) \in Nat /\ b.layout.size \in Nat
          /\ b.layout.size <= Room(b.layout)
      BY <1>1, LiveType, RoomFits, Sizes
    <3>3. a \in b.ptr .. b.ptr + Room(b.layout) - 1
      BY <3>2 DEF Block
    <3> QED
      BY <3>1, <3>2, <3>3, AddressMapped
  <2>2. ASSUME NEW f \in FreeBlocks, NEW a \in FreeBlock(f[1], f[2])
        PROVE  page_table[PageOf(a)] # None
    <3>1. PICK x \in Classes : f \in {x} \X DOMAIN list_heads[x]
      BY DEF FreeBlocks
    <3> DEFINE j == f[2]
               p == list_heads[x][j]
    <3>2. f[1] = x /\ j \in DOMAIN list_heads[x]
      BY <3>1
    <3>3. OnMapped(p, BLOCK_SIZES[x], page_table) /\ p + BLOCK_SIZES[x] <= END_VIRT * PAGE_SIZE
      BY <1>1, <3>2 DEF BackedInv, BlocksMapped, SpaceInv, FreeInv, InHeap
    <3>4. p \in Nat /\ BLOCK_SIZES[x] \in Nat
      BY <1>1, <3>2, FreeType, Sizes
    <3>5. a \in p .. p + BLOCK_SIZES[x] - 1
      BY <3>2 DEF FreeBlock
    <3> HIDE DEF j, p
    <3> QED
      BY <3>3, <3>4, <3>5, AddressMapped
  <2> QED
    BY <2>1, <2>2, Zenon DEF Backed
<1> QED
  BY <1>1, SpaceInvariant, BackedInvariant, PTL

\* A dealloc of a block that is held never panics: its entry is there, and its
\* pages are mapped to frames of the bitmap until the loop comes to them.
THEOREM DeallocNeverPanics ==
  ASSUME OVERFLOW_CHECKS
  PROVE  Spec => []DeallocSucceeds
<1>1. BackedInv => DeallocSucceeds
  BY DEF BackedInv
<1> QED
  BY <1>1, BackedInvariant, PTL

\* A call takes no more steps than its pages justify, whatever the page tables
\* and LARGE_ALLOCS hold: five for a page to map, one for a page to unmap.  The
\* loops of alloc and dealloc end, and the scan acts on one entry.
THEOREM CallsAreBounded ==
  ASSUME OVERFLOW_CHECKS
  PROVE  Spec => CallsAdvance
<1>1. HeapInv /\ BackedInv /\ [Next]_vars =>
        [heap_pc \notin {"boot", "idle"} => StepsLeft' \in 0 .. StepsLeft - 1]_vars
  BY StepAdvances
<1> QED
  BY <1>1, HeapInvariant, BackedInvariant, PTL DEF Spec, CallsAdvance

-----------------------------------------------------------------------------
(***************************************************************************)
(* The number of blocks.                                                   *)
(***************************************************************************)
\* The blocks of a size that are held.
Held(blocks, x) == {b \in blocks : list_index(b.layout) = x}

\* The blocks that are held are finitely many, and BlocksConserved.
ConservedInv == IsFiniteSet(live) /\ BlocksConserved

\* The blocks of every size are finitely many.
LEMMA HeldFinite ==
  ASSUME NEW blocks, IsFiniteSet(blocks), NEW x
  PROVE  IsFiniteSet(Held(blocks, x)) /\ Cardinality(Held(blocks, x)) \in Nat
<1>1. Held(blocks, x) \subseteq blocks
  BY DEF Held
<1>2. IsFiniteSet(Held(blocks, x))
  BY <1>1, FS_Subset
<1> QED
  BY <1>2, FS_CardinalityType

\* A block that is handed out counts for its own size.
LEMMA HeldGrows ==
  ASSUME NEW blocks, IsFiniteSet(blocks), NEW b, b \notin blocks, NEW x
  PROVE  Cardinality(Held(blocks \cup {b}, x)) =
           IF list_index(b.layout) = x THEN Cardinality(Held(blocks, x)) + 1
                                       ELSE Cardinality(Held(blocks, x))
<1>1. CASE list_index(b.layout) = x
  <2>1. Held(blocks \cup {b}, x) = Held(blocks, x) \cup {b} /\ b \notin Held(blocks, x)
    BY <1>1 DEF Held
  <2>2. IsFiniteSet(Held(blocks, x))
    BY HeldFinite, Zenon
  <2>3. Cardinality(Held(blocks, x) \cup {b}) = Cardinality(Held(blocks, x)) + 1
    BY <2>1, <2>2, FS_AddElement, Zenon
  <2> QED
    BY <1>1, <2>1, <2>3, Zenon
<1>2. CASE list_index(b.layout) # x
  <2>1. Held(blocks \cup {b}, x) = Held(blocks, x)
    BY <1>2 DEF Held
  <2> QED
    BY <1>2, <2>1
<1> QED
  BY <1>1, <1>2

\* A block that is given back counts for its own size.
LEMMA HeldShrinks ==
  ASSUME NEW blocks, IsFiniteSet(blocks), NEW b \in blocks, NEW x
  PROVE  Cardinality(Held(blocks \ {b}, x)) =
           IF list_index(b.layout) = x THEN Cardinality(Held(blocks, x)) - 1
                                       ELSE Cardinality(Held(blocks, x))
<1>1. CASE list_index(b.layout) = x
  <2>1. Held(blocks \ {b}, x) = Held(blocks, x) \ {b} /\ b \in Held(blocks, x)
    BY <1>1 DEF Held
  <2>2. IsFiniteSet(Held(blocks, x))
    BY HeldFinite, Zenon
  <2>3. Cardinality(Held(blocks, x) \ {b}) = Cardinality(Held(blocks, x)) - 1
    BY <2>1, <2>2, FS_RemoveElement, Zenon
  <2> QED
    BY <1>1, <2>1, <2>3, Zenon
<1>2. CASE list_index(b.layout) # x
  <2>1. Held(blocks \ {b}, x) = Held(blocks, x)
    BY <1>2 DEF Held
  <2> QED
    BY <1>2, <2>1
<1> QED
  BY <1>1, <1>2

\* One more page of blocks.
LEMMA OnePageMore ==
  ASSUME NEW a \in Nat, NEW n \in Nat \ {0}, a % n = 0
  PROVE  (a + n) % n = 0
<1>1. PICK q \in Nat : a = q * n
  BY DividedIsMultiple
<1>2. a + n = (q + 1) * n /\ q + 1 \in Nat
  BY <1>1
<1> QED
  BY <1>2, MultipleIsDivided

\* The blocks of a size, free or held, make up whole pages.
WholePagesOf(x, list, blocks) ==
  (Len(list) + Cardinality(Held(blocks, x))) % (PAGE_SIZE \div BLOCK_SIZES[x]) = 0

\* BlocksConserved in these terms.
LEMMA ConservedMeans ==
  BlocksConserved <=>
    \A x \in Classes : list_lengths[x] < MAX_LIST_LENGTH => WholePagesOf(x, list_heads[x], live)
BY DEF BlocksConserved, WholePagesOf, Held

\* The same in the next state.
LEMMA ConservedNext ==
  ASSUME \A x \in Classes :
           list_lengths'[x] < MAX_LIST_LENGTH => WholePagesOf(x, list_heads'[x], live')
  PROVE  BlocksConserved'
BY DEF BlocksConserved, WholePagesOf, Held

\* The types of what is counted.
LEMMA CountType ==
  ASSUME HeapInv, IsFiniteSet(live), NEW x \in Classes
  PROVE  /\ Len(list_heads[x]) \in Nat /\ Cardinality(Held(live, x)) \in Nat
         /\ list_lengths[x] \in Nat /\ list_lengths[x] <= MAX_LIST_LENGTH
         /\ MAX_LIST_LENGTH \in Nat
         /\ PAGE_SIZE \div BLOCK_SIZES[x] \in Nat \ {0}
<1>1. Len(list_heads[x]) \in Nat
  BY FreeType
<1>2. list_lengths[x] \in 0 .. MAX_LIST_LENGTH /\ MAX_LIST_LENGTH \in Nat
  BY HeapAssumption DEF HeapInv, TypeOK
<1>3. PAGE_SIZE \div BLOCK_SIZES[x] \in Nat \ {0}
  BY Sizes, BlocksOfPage
<1>4. Cardinality(Held(live, x)) \in Nat
  BY HeldFinite, Zenon
<1> QED
  BY <1>1, <1>2, <1>3, <1>4

\* Where the blocks of callers and the lists of every size stay as many.
LEMMA ConservedStays ==
  ASSUME ConservedInv, UNCHANGED <<list_heads, list_lengths>>, IsFiniteSet(live'),
         \A x \in Classes : Held(live', x) = Held(live, x)
  PROVE  ConservedInv'
<1>1. \A x \in Classes :
        list_lengths'[x] < MAX_LIST_LENGTH => WholePagesOf(x, list_heads'[x], live')
  BY ConservedMeans DEF ConservedInv, WholePagesOf
<1> QED
  BY <1>1, ConservedNext DEF ConservedInv

\* alloc moves a block from its list to the caller.
LEMMA AllocPopConserves ==
  ASSUME HeapInv, SpaceInv, ConservedInv, NEW l \in Layouts, alloc_pop(l)
  PROVE  ConservedInv'
<1> DEFINE x == list_index(l)
           s == list_heads[x]
           nb == [ptr |-> Head(s), layout |-> l]
<1>1. x \in Classes /\ IsSmall(l) /\ Room(l) = BLOCK_SIZES[x]
  BY SmallIndex DEF alloc_pop, Room
<1>2. /\ s # <<>> /\ live' = live \cup {nb} /\ UNCHANGED list_lengths
      /\ list_heads' = [list_heads EXCEPT ![x] = Tail(s)]
  BY DEF alloc_pop, Hold
<1>3. nb.layout = l /\ nb.ptr = Head(s) /\ list_index(nb.layout) = x
  OBVIOUS
<1> HIDE DEF x
<1>4. s \in Seq(Nat) /\ list_heads \in [Classes -> Seq(Nat)]
  BY <1>1 DEF HeapInv, TypeOK
<1>5. /\ list_heads'[x] = Tail(s)
      /\ \A y \in Classes : y # x => list_heads'[y] = list_heads[y]
  BY <1>1, <1>2, <1>4
<1>6. /\ 1 \in DOMAIN s /\ Head(s) = s[1] /\ s[1] \in Nat
      /\ Len(Tail(s)) = Len(s) - 1 /\ Len(s) \in Nat
  <2> HIDE DEF s
  <2> QED
    BY <1>2, <1>4
<1>7. nb \notin live
  <2>1. SUFFICES ASSUME nb \in live PROVE FALSE
    OBVIOUS
  <2>2. Apart(nb.ptr, Room(nb.layout), s[1], BLOCK_SIZES[x])
    <3> HIDE DEF nb
    <3> QED
      BY <1>1, <1>6, <2>1, Zenon DEF SpaceInv, LiveInv
  <2>3. BLOCK_SIZES[x] \in Nat \ {0}
    BY <1>1, Sizes
  <2>4. Apart(s[1], BLOCK_SIZES[x], s[1], BLOCK_SIZES[x])
    BY <1>1, <1>3, <1>6, <2>2
  <2> QED
    BY <1>6, <2>3, <2>4 DEF Apart
<1> HIDE DEF nb
<1>8. ASSUME NEW y \in Classes, list_lengths'[y] < MAX_LIST_LENGTH
      PROVE  WholePagesOf(y, list_heads'[y], live')
  <2>1. WholePagesOf(y, list_heads[y], live)
    BY <1>2, <1>8, ConservedMeans DEF ConservedInv
  <2>2. Cardinality(Held(live', y)) =
          IF x = y THEN Cardinality(Held(live, y)) + 1 ELSE Cardinality(Held(live, y))
    BY <1>2, <1>3, <1>7, HeldGrows DEF ConservedInv
  <2>3. Len(list_heads[y]) \in Nat /\ Cardinality(Held(live, y)) \in Nat
    BY CountType DEF ConservedInv
  <2>4. Len(list_heads'[y]) + Cardinality(Held(live', y))
          = Len(list_heads[y]) + Cardinality(Held(live, y))
    <3> DEFINE a == Len(list_heads[y])
               b == Cardinality(Held(live, y))
    <3>1. CASE x = y
      <4>1. Len(list_heads'[y]) = a - 1 /\ Cardinality(Held(live', y)) = b + 1
        BY <1>5, <1>6, <2>2, <3>1, Zenon
      <4>2. a \in Nat /\ b \in Nat
        BY <2>3
      <4> HIDE DEF a, b
      <4>3. (a - 1) + (b + 1) = a + b
        BY <4>2
      <4> QED
        BY <4>1, <4>3, Zenon DEF a, b
    <3>2. CASE x # y
      BY <1>5, <2>2, <3>2, Zenon
    <3> QED
      BY <3>1, <3>2
  <2> QED
    BY <2>1, <2>4 DEF WholePagesOf
<1>9. IsFiniteSet(live')
  BY <1>2, FS_AddElement DEF ConservedInv
<1> QED
  BY <1>8, <1>9, ConservedNext DEF ConservedInv

\* dealloc moves a small block from the caller to its list; from MAX_LIST_LENGTH
\* on it does not, and nothing is claimed of that size any more.
LEMMA DeallocSmallConserves ==
  ASSUME HeapInv, ConservedInv, NEW b \in live, dealloc_small(b)
  PROVE  ConservedInv'
<1> DEFINE x == list_index(b.layout)
           s == list_heads[x]
           t == <<b.ptr>> \o s
<1>1. x \in Classes /\ b.ptr \in Nat
  BY SmallIndex, LiveType DEF dealloc_small
<1>2. /\ live' = live \ {b}
      /\ \/ AtCapacity(x) /\ UNCHANGED <<list_heads, list_lengths>>
         \/ /\ list_heads' = [list_heads EXCEPT ![x] = t]
            /\ list_lengths' = [list_lengths EXCEPT ![x] = @ + 1]
  BY DEF dealloc_small
<1>3. /\ s \in Seq(Nat) /\ list_heads \in [Classes -> Seq(Nat)]
      /\ list_lengths \in [Classes -> 0 .. MAX_LIST_LENGTH]
  BY <1>1 DEF HeapInv, TypeOK
<1>4. Len(t) = Len(s) + 1 /\ Len(s) \in Nat
  <2> HIDE DEF s
  <2> QED
    BY <1>1, <1>3
<1>a. \A y : Cardinality(Held(live', y)) =
          IF x = y THEN Cardinality(Held(live, y)) - 1 ELSE Cardinality(Held(live, y))
  BY <1>2, HeldShrinks DEF ConservedInv
<1> HIDE DEF x, t
<1>5. ASSUME NEW y \in Classes, list_lengths'[y] < MAX_LIST_LENGTH
      PROVE  WholePagesOf(y, list_heads'[y], live')
  <2>2. /\ Len(list_heads[y]) \in Nat /\ Cardinality(Held(live, y)) \in Nat
        /\ list_lengths[y] \in Nat /\ MAX_LIST_LENGTH \in Nat
    BY CountType DEF ConservedInv
  <2>3. CASE y # x
    <3>1. list_heads'[y] = list_heads[y] /\ list_lengths'[y] = list_lengths[y]
      BY <1>2, <1>3, <2>3
    <3>2. WholePagesOf(y, list_heads[y], live)
      BY <1>5, <3>1, ConservedMeans DEF ConservedInv
    <3> QED
      BY <1>a, <2>3, <3>1, <3>2 DEF WholePagesOf
  <2>4. CASE y = x
    <3>1. ~(AtCapacity(x) /\ UNCHANGED <<list_heads, list_lengths>>)
      BY <1>5, <2>2, <2>4 DEF AtCapacity
    <3>2. list_heads'[y] = t /\ list_lengths'[y] = list_lengths[y] + 1
      BY <1>1, <1>2, <1>3, <2>4, <3>1
    <3>3. WholePagesOf(y, list_heads[y], live)
      <4>1. list_lengths[y] < MAX_LIST_LENGTH
        BY <1>5, <2>2, <3>2
      <4> QED
        BY <4>1, ConservedMeans DEF ConservedInv
    <3>4. Len(list_heads'[y]) + Cardinality(Held(live', y))
            = Len(list_heads[y]) + Cardinality(Held(live, y))
      BY <1>4, <1>a, <2>2, <2>4, <3>2
    <3> QED
      BY <3>3, <3>4 DEF WholePagesOf
  <2> QED
    BY <2>3, <2>4
<1>6. IsFiniteSet(live')
  BY <1>2, FS_RemoveElement DEF ConservedInv
<1> QED
  BY <1>5, <1>6, ConservedNext DEF ConservedInv

\* A page that is carved adds as many blocks as a page has: skip of them for
\* the caller, the others to the list.
LEMMA CarveConserves ==
  ASSUME HeapInv, ConservedInv, NEW x \in Classes, NEW skip \in {0, 1},
         UNCHANGED list_lengths, IsFiniteSet(live'),
         list_heads' = [list_heads EXCEPT ![x] = Carve(start_addr, x, skip, @)],
         \A y \in Classes :
           Cardinality(Held(live', y)) =
             IF x = y THEN Cardinality(Held(live, y)) + skip ELSE Cardinality(Held(live, y))
  PROVE  ConservedInv'
<1> DEFINE carved == Carve(start_addr, x, skip, list_heads[x])
<1>1. start_addr \in Nat
  BY LocalsType DEF HeapInv, PageInv
<1>2. list_heads[x] \in Seq(Nat) /\ list_heads \in [Classes -> Seq(Nat)]
  BY DEF HeapInv, TypeOK
<1>3. Len(carved) = PAGE_SIZE \div BLOCK_SIZES[x] - skip + Len(list_heads[x])
  <2>1. CarvedWell(start_addr, x, skip, list_heads[x])
    BY <1>1, <1>2, CarveFacts, Zenon
  <2> QED
    BY <2>1, Zenon DEF CarvedWell
<1> HIDE DEF carved
<1>4. /\ list_heads'[x] = carved
      /\ \A y \in Classes : y # x => list_heads'[y] = list_heads[y]
  BY <1>2 DEF carved
<1>5. ASSUME NEW y \in Classes, list_lengths'[y] < MAX_LIST_LENGTH
      PROVE  WholePagesOf(y, list_heads'[y], live')
  <2>1. WholePagesOf(y, list_heads[y], live)
    BY <1>5, ConservedMeans DEF ConservedInv
  <2>2. CASE y # x
    BY <1>4, <2>1, <2>2 DEF WholePagesOf
  <2>3. CASE y = x
    <3> DEFINE n == PAGE_SIZE \div BLOCK_SIZES[x]
               old == Len(list_heads[x]) + Cardinality(Held(live, x))
    <3>1. /\ Len(list_heads[x]) \in Nat /\ Cardinality(Held(live, x)) \in Nat
          /\ n \in Nat \ {0}
      BY CountType DEF ConservedInv
    <3>2. Len(list_heads'[x]) = n - skip + Len(list_heads[x])
      BY <1>3, <1>4
    <3>3. Cardinality(Held(live', x)) = Cardinality(Held(live, x)) + skip
      OBVIOUS
    <3>4. old % n = 0
      BY <2>1, <2>3 DEF WholePagesOf
    <3> HIDE DEF n
    <3>5. Len(list_heads'[x]) + Cardinality(Held(live', x)) = old + n /\ old \in Nat
      <4> DEFINE a == Len(list_heads[x])
                 b == Cardinality(Held(live, x))
                 c == Len(list_heads'[x])
                 d == Cardinality(Held(live', x))
      <4>1. /\ a \in Nat /\ b \in Nat /\ n \in Nat /\ skip \in Nat
            /\ c = n - skip + a /\ d = b + skip
        <5>1. skip \in Nat /\ n \in Nat
          BY <3>1
        <5> QED
          BY <3>1, <3>2, <3>3, <5>1, Zenon
      <4> HIDE DEF a, b, c, d
      <4>2. c + d = a + b + n /\ a + b \in Nat
        BY <4>1
      <4> QED
        BY <4>2 DEF a, b, c, d
    <3> HIDE DEF old
    <3>6. (old + n) % n = 0
      BY <3>1, <3>4, <3>5, OnePageMore
    <3> QED
      BY <2>3, <3>5, <3>6 DEF WholePagesOf, n
  <2> QED
    BY <2>2, <2>3
<1> QED
  BY <1>5, ConservedNext DEF ConservedInv

\* refill_free_list: the first block of the page is new.
LEMMA RefillDoneConserves ==
  ASSUME HeapInv, SpaceInv, ConservedInv, refill_done
  PROVE  ConservedInv'
<1> DEFINE x == list_index(layout)
           nb == [ptr |-> start_addr * PAGE_SIZE, layout |-> layout]
<1>1. Allocating /\ layout \in Layouts /\ IsSmall(layout) /\ UNCHANGED list_lengths
  BY DEF refill_done, Allocating, HeapInv, CallInv
<1>2. CASE UNCHANGED <<list_heads, live>>
  BY <1>1, <1>2, ConservedStays DEF ConservedInv
<1>3. CASE /\ list_heads' = [list_heads EXCEPT ![x] = Carve(start_addr, x, 1, @)]
           /\ live' = live \cup {nb}
  <2>1. x \in Classes /\ 1 \in {0, 1}
    BY <1>1, SmallIndex
  <2>2. nb.layout = layout /\ nb.ptr = start_addr * PAGE_SIZE /\ nb.ptr \in Nat
    BY AddressType DEF HeapInv, PageInv
  <2>3. list_index(nb.layout) = x
    BY <2>2
  <2>4. Room(layout) \in Nat \ {0}
    BY <1>1, RoomFits
  <2> HIDE DEF nb, x
  <2>5. nb \notin live
    <3>1. nb \in live => nb.ptr + Room(nb.layout) <= start_addr * PAGE_SIZE
      BY <1>1, BelowNewPage
    <3> QED
      BY <2>2, <2>4, <3>1
  <2>6. IsFiniteSet(live')
    BY <1>3, FS_AddElement DEF ConservedInv
  <2>7. \A y \in Classes :
          Cardinality(Held(live', y)) =
            IF x = y THEN Cardinality(Held(live, y)) + 1 ELSE Cardinality(Held(live, y))
    <3>1. IsFiniteSet(live)
      BY DEF ConservedInv
    <3>2. live' = live \cup {nb}
      BY <1>3
    <3>3. ASSUME NEW y \in Classes
          PROVE  Cardinality(Held(live \cup {nb}, y)) =
                   IF x = y THEN Cardinality(Held(live, y)) + 1 ELSE Cardinality(Held(live, y))
      <4>1. Cardinality(Held(live \cup {nb}, y)) =
              IF list_index(nb.layout) = y THEN Cardinality(Held(live, y)) + 1
                                           ELSE Cardinality(Held(live, y))
        BY <2>5, <3>1, HeldGrows, Zenon
      <4> QED
        BY <2>3, <4>1
    <3> QED
      BY <3>2, <3>3, Zenon
  <2> QED
    BY <1>1, <1>3, <2>1, <2>6, <2>7, CarveConserves
<1> QED
  BY <1>2, <1>3 DEF refill_done, Hold

\* init: the page has no block for a caller.
LEMMA InitDoneConserves ==
  ASSUME HeapInv, ConservedInv, init_done
  PROVE  ConservedInv'
<1>1. UNCHANGED <<live, list_lengths>>
  BY DEF init_done
<1>2. CASE UNCHANGED list_heads
  BY <1>1, <1>2, ConservedStays DEF ConservedInv
<1>3. CASE list_heads' = [list_heads EXCEPT ![1] = Carve(start_addr, 1, 0, @)]
  <2>1. \A y \in Classes :
          Cardinality(Held(live', y)) =
            IF 1 = y THEN Cardinality(Held(live, y)) + 0 ELSE Cardinality(Held(live, y))
    BY <1>1, HeldFinite DEF ConservedInv
  <2>2. IsFiniteSet(live') /\ 0 \in {0, 1} /\ 1 \in Classes
    BY <1>1, ClassOne DEF ConservedInv
  <2> QED
    BY <1>1, <1>3, <2>1, <2>2, CarveConserves
<1> QED
  BY <1>2, <1>3 DEF init_done

\* Large blocks count for no size.
LEMMA LargeConserves ==
  ASSUME HeapInv, ConservedInv, UNCHANGED <<list_heads, list_lengths>>,
         NEW b, ~IsSmall(b.layout), live' = live \cup {b} \/ live' = live \ {b}
  PROVE  ConservedInv'
<1>1. \A x \in Classes : list_index(b.layout) # x
  BY HeapAssumption DEF IsSmall, None, Classes
<1>2. \A x \in Classes : Held(live', x) = Held(live, x)
  BY <1>1 DEF Held
<1>3. IsFiniteSet(live')
  BY FS_AddElement, FS_RemoveElement DEF ConservedInv
<1> QED
  BY <1>2, <1>3, ConservedStays

\* Nothing is free or held before init.
LEMMA InitConserved ==
  ASSUME Init
  PROVE  ConservedInv
<1>1. live = {} /\ list_heads = [k \in Classes |-> <<>>]
  BY DEF Init
<1>2. IsFiniteSet(live)
  BY <1>1, FS_EmptySet
<1>3. ASSUME NEW x \in Classes
      PROVE  WholePagesOf(x, list_heads[x], live)
  <2>1. Held(live, x) = {} /\ Len(list_heads[x]) = 0
    BY <1>1 DEF Held
  <2>2. Len(list_heads[x]) + Cardinality(Held(live, x)) = 0
    BY <2>1, FS_EmptySet
  <2>3. PAGE_SIZE \div BLOCK_SIZES[x] \in Nat \ {0}
    BY Sizes, BlocksOfPage
  <2>4. 0 % (PAGE_SIZE \div BLOCK_SIZES[x]) = 0
    BY <2>3
  <2> QED
    BY <2>2, <2>4 DEF WholePagesOf
<1> QED
  BY <1>2, <1>3, ConservedMeans DEF ConservedInv

\* Every step conserves the blocks.
LEMMA ConservedKept ==
  ASSUME HeapInv, SpaceInv, ConservedInv, [Next]_vars
  PROVE  ConservedInv'
<1>1. ASSUME UNCHANGED <<list_heads, list_lengths, live>>
      PROVE  ConservedInv'
  BY <1>1, ConservedStays DEF ConservedInv
<1>2. CASE UNCHANGED vars
  BY <1>1, <1>2 DEF vars, heap_vars
<1>3. ASSUME NEW l \in Layouts, refill_free_list(l) \/ fallback_alloc(l)
      PROVE  ConservedInv'
  BY <1>1, <1>3 DEF refill_free_list, fallback_alloc
<1>4. ASSUME NEW b \in live, dealloc_large(b)
      PROVE  ConservedInv'
  BY <1>4, LargeConserves DEF dealloc_large
<1>5. CASE fallback_done
  <2>1. CASE UNCHANGED live
    BY <1>1, <1>5, <2>1 DEF fallback_done
  <2>2. CASE live' = live \cup {[ptr |-> start_addr * PAGE_SIZE, layout |-> layout]}
    <3>1. ~IsSmall(layout)
      BY <1>5 DEF fallback_done, SpaceInv, PhaseInv
    <3>2. ~IsSmall([ptr |-> start_addr * PAGE_SIZE, layout |-> layout].layout)
      BY <3>1
    <3> QED
      BY <1>5, <2>2, <3>2, LargeConserves DEF fallback_done
  <2> QED
    BY <1>5, <2>1, <2>2 DEF fallback_done, large_alloc_insert, Hold
<1>6. CASE init \/ PageStep \/ dealloc_match \/ dealloc_next \/ dealloc_done
  BY <1>1, <1>6 DEF init, PageStep, dealloc_match, dealloc_next, dealloc_done, heap_vars
<1> QED
  BY <1>2, <1>3, <1>4, <1>5, <1>6, AllocPopConserves, DeallocSmallConserves,
     RefillDoneConserves, InitDoneConserves DEF Next, Call, Step, Halted

\* No small block is lost before MAX_LIST_LENGTH blocks of its size were freed:
\* until then the free and the held blocks of the size make up whole pages
\* (init, alloc, dealloc, refill_free_list).
THEOREM NoSmallBlockLost ==
  ASSUME OVERFLOW_CHECKS
  PROVE  Spec => []BlocksConserved
<1>1. Init => ConservedInv
  BY InitConserved
<1>2. HeapInv /\ SpaceInv /\ ConservedInv /\ [Next]_vars => ConservedInv'
  BY ConservedKept
<1>3. ConservedInv => BlocksConserved
  BY DEF ConservedInv
<1> QED
  BY <1>1, <1>2, <1>3, SpaceInvariant, PTL DEF Spec
=============================================================================
