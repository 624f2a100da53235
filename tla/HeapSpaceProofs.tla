-------------------------- MODULE HeapSpaceProofs ---------------------------
(***************************************************************************)
(* SpaceInv of KernelHeap is inductive, in a build with overflow checks:   *)
(* no two blocks share memory, and the heap implements AbstractHeap, for   *)
(* all constants.  Then the steps that leave the page table alone, for the *)
(* memory under the blocks.                                                *)
(***************************************************************************)
EXTENDS HeapBlockProofs

-----------------------------------------------------------------------------
(***************************************************************************)
(* The invariant.                                                          *)
(***************************************************************************)
\* Nothing is handed out before init.
LEMMA InitSpace ==
  ASSUME Init
  PROVE  SpaceInv
<1>1. /\ list_heads = [k \in Classes |-> <<>>] /\ LARGE_ALLOCS = <<>> /\ live = {}
      /\ heap_pc = "boot" /\ pa_pc = "idle"
  BY DEF Init, PaInit
<1>2. \A x \in Classes : DOMAIN list_heads[x] = {}
  BY <1>1
<1>3. DOMAIN LARGE_ALLOCS = {}
  BY <1>1
<1>4. PhaseInv
  BY <1>1 DEF PhaseInv, Allocating
<1>5. FreeInv
  BY <1>2 DEF FreeInv
<1>6. LiveInv /\ EntryInv
  BY <1>1, <1>3 DEF LiveInv, EntryInv
<1> QED
  BY <1>4, <1>5, <1>6 DEF SpaceInv

\* Every step keeps the blocks apart.
LEMMA SpaceKept ==
  ASSUME HeapInv, SpaceInv, OVERFLOW_CHECKS, [Next]_vars
  PROVE  SpaceInv'
<1>1. HeapInv'
  BY NextInv
<1>2. PhaseInv' /\ Limit <= Limit'
  BY PhaseKept DEF SpaceInv
<1>3. Limit \in Nat /\ Limit' \in Nat
  BY <1>1, LimitsType
<1>4. ASSUME UNCHANGED <<list_heads, LARGE_ALLOCS, live>>
      PROVE  FreeInv' /\ LiveInv' /\ EntryInv'
  BY <1>2, <1>3, <1>4, SpaceStays
<1>5. FreeInv' /\ LiveInv' /\ EntryInv'
  <2>1. CASE UNCHANGED vars
    BY <1>4, <2>1 DEF vars, heap_vars
  <2>2. CASE init
    BY <1>4, <2>2 DEF init
  <2>3. ASSUME NEW l \in Layouts, alloc_pop(l) \/ refill_free_list(l) \/ fallback_alloc(l)
        PROVE  FreeInv' /\ LiveInv' /\ EntryInv'
    <3>1. CASE alloc_pop(l)
      BY <1>2, <1>3, <3>1, AllocPopSpace
    <3>2. CASE refill_free_list(l) \/ fallback_alloc(l)
      BY <1>4, <3>2 DEF refill_free_list, fallback_alloc
    <3> QED
      BY <2>3, <3>1, <3>2
  <2>4. ASSUME NEW b \in live, dealloc_small(b) \/ dealloc_large(b)
        PROVE  FreeInv' /\ LiveInv' /\ EntryInv'
    <3>1. CASE dealloc_small(b)
      BY <1>2, <1>3, <3>1, DeallocSmallSpace
    <3>2. CASE dealloc_large(b)
      BY <1>2, <1>3, <3>2, SpaceStays DEF dealloc_large
    <3> QED
      BY <2>4, <3>1, <3>2
  <2>5. CASE PageStep
    BY <1>4, <2>5 DEF PageStep, heap_vars
  <2>6. CASE init_done
    BY <1>2, <1>3, <2>6, InitDoneSpace
  <2>7. CASE refill_done
    BY <1>2, <1>3, <2>7, RefillDoneSpace
  <2>8. CASE fallback_done
    BY <1>2, <1>3, <2>8, FallbackDoneSpace
  <2>9. CASE dealloc_match \/ dealloc_next \/ dealloc_done
    BY <1>4, <2>9 DEF dealloc_match, dealloc_next, dealloc_done, heap_vars
  <2> QED
    BY <2>1, <2>2, <2>3, <2>4, <2>5, <2>6, <2>7, <2>8, <2>9
    DEF Next, Call, Step, Halted
<1> QED
  BY <1>2, <1>5 DEF SpaceInv

\* SpaceInv holds always, when arithmetic overflow traps.
THEOREM SpaceInvariant ==
  ASSUME OVERFLOW_CHECKS
  PROVE  Spec => [](HeapInv /\ SpaceInv)
<1>1. Init => SpaceInv
  BY InitSpace
<1>2. HeapInv /\ SpaceInv /\ [Next]_vars => SpaceInv'
  BY SpaceKept
<1> QED
  BY <1>1, <1>2, HeapInvariant, PTL DEF Spec

-----------------------------------------------------------------------------
(***************************************************************************)
(* What follows.                                                           *)
(***************************************************************************)
\* Ranges that are apart share no address.
LEMMA ApartAreDisjoint ==
  \A a, m, b, n, c, d \in Nat :
    Apart(a, m, b, n) /\ c <= m /\ d <= n => (a .. a + c - 1) \cap (b .. b + d - 1) = {}
<1> TAKE a, m, b, n, c, d \in Nat
<1> HAVE Apart(a, m, b, n) /\ c <= m /\ d <= n
<1> QED
  BY DEF Apart

\* Memory is handed out once: blocks that are held and blocks that are free
\* never share an address, whatever the sequence of calls and failures
\* (alloc, dealloc, refill_free_list, fallback_alloc).
THEOREM MemoryHandedOutOnce ==
  ASSUME OVERFLOW_CHECKS
  PROVE  Spec => []NoOverlap
<1>1. ASSUME HeapInv, SpaceInv
      PROVE  NoOverlap
  <2>0. FreeInv /\ LiveInv
    BY <1>1 DEF SpaceInv
  <2>1. ASSUME NEW b \in live
        PROVE  /\ b.ptr \in Nat /\ Room(b.layout) \in Nat
               /\ b.layout.size \in Nat /\ b.layout.size <= Room(b.layout)
    BY <1>1, LiveType, RoomFits, Sizes
  <2>2. ASSUME NEW f \in FreeBlocks
        PROVE  /\ f[1] \in Classes /\ f[2] \in DOMAIN list_heads[f[1]] /\ f = <<f[1], f[2]>>
               /\ list_heads[f[1]][f[2]] \in Nat /\ BLOCK_SIZES[f[1]] \in Nat
    <3>1. PICK x \in Classes : f \in {x} \X DOMAIN list_heads[x]
      BY DEF FreeBlocks
    <3>2. f[1] = x /\ f[2] \in DOMAIN list_heads[x] /\ f = <<f[1], f[2]>>
      BY <3>1
    <3>3. \A j \in DOMAIN list_heads[x] : list_heads[x][j] \in Nat
      BY <1>1, FreeType
    <3> QED
      BY <3>2, <3>3, Sizes
  <2>3. ASSUME NEW b \in live, NEW c \in live, b # c
        PROVE  Disjoint(Block(b), Block(c))
    <3>1. Apart(b.ptr, Room(b.layout), c.ptr, Room(c.layout))
      BY <2>0, <2>3 DEF LiveInv
    <3>2. (b.ptr .. b.ptr + b.layout.size - 1) \cap (c.ptr .. c.ptr + c.layout.size - 1) = {}
      <4>1. /\ b.ptr \in Nat /\ Room(b.layout) \in Nat /\ b.layout.size \in Nat
            /\ c.ptr \in Nat /\ Room(c.layout) \in Nat /\ c.layout.size \in Nat
            /\ b.layout.size <= Room(b.layout) /\ c.layout.size <= Room(c.layout)
        BY <2>1
      <4> QED
        BY <3>1, <4>1, ApartAreDisjoint, Zenon
    <3> QED
      BY <3>2 DEF Disjoint, Block
  <2>4. ASSUME NEW b \in live, NEW f \in FreeBlocks
        PROVE  Disjoint(Block(b), FreeBlock(f[1], f[2]))
    <3> DEFINE a == list_heads[f[1]][f[2]]
               s == BLOCK_SIZES[f[1]]
    <3>1. Apart(b.ptr, Room(b.layout), a, s)
      BY <2>0, <2>2 DEF LiveInv
    <3>2. a \in Nat /\ s \in Nat /\ s <= s
      BY <2>2
    <3>3. Disjoint(Block(b), FreeBlock(f[1], f[2])) <=>
            (b.ptr .. b.ptr + b.layout.size - 1) \cap (a .. a + s - 1) = {}
      BY DEF Disjoint, Block, FreeBlock
    <3> HIDE DEF a, s
    <3> QED
      BY <2>1, <3>1, <3>2, <3>3, ApartAreDisjoint, Zenon
  <2>5. ASSUME NEW f \in FreeBlocks, NEW g \in FreeBlocks, f # g
        PROVE  Disjoint(FreeBlock(f[1], f[2]), FreeBlock(g[1], g[2]))
    <3> DEFINE a == list_heads[f[1]][f[2]]
               s == BLOCK_SIZES[f[1]]
               c == list_heads[g[1]][g[2]]
               t == BLOCK_SIZES[g[1]]
    <3>1. <<f[1], f[2]>> # <<g[1], g[2]>>
      BY <2>2, <2>5
    <3>2. Apart(a, s, c, t)
      BY <2>0, <2>2, <3>1 DEF FreeInv
    <3>3. a \in Nat /\ s \in Nat /\ c \in Nat /\ t \in Nat /\ s <= s /\ t <= t
      BY <2>2
    <3>4. Disjoint(FreeBlock(f[1], f[2]), FreeBlock(g[1], g[2])) <=>
            (a .. a + s - 1) \cap (c .. c + t - 1) = {}
      BY DEF Disjoint, FreeBlock
    <3> HIDE DEF a, s, c, t
    <3> QED
      BY <3>2, <3>3, <3>4, ApartAreDisjoint, Zenon
  <2> QED
    BY <2>3, <2>4, <2>5 DEF NoOverlap
<1> QED
  BY <1>1, SpaceInvariant, PTL

\* The entries of LARGE_ALLOCS, those of freed blocks included, never share a
\* page, although none is ever removed (dealloc, large_alloc_insert).
THEOREM EntriesNeverMeet ==
  ASSUME OVERFLOW_CHECKS
  PROVE  Spec => []StaleEntriesHarmless
<1>1. ASSUME HeapInv, SpaceInv
      PROVE  StaleEntriesHarmless
  <2>1. ASSUME NEW j \in DOMAIN LARGE_ALLOCS, NEW k \in DOMAIN LARGE_ALLOCS, j # k
        PROVE  Disjoint(LARGE_ALLOCS[j].addr .. LARGE_ALLOCS[j].addr + LARGE_ALLOCS[j].num_pages - 1,
                        LARGE_ALLOCS[k].addr .. LARGE_ALLOCS[k].addr + LARGE_ALLOCS[k].num_pages - 1)
    <3>1. /\ LARGE_ALLOCS[j].addr \in Nat /\ LARGE_ALLOCS[j].num_pages \in Nat
          /\ LARGE_ALLOCS[k].addr \in Nat /\ LARGE_ALLOCS[k].num_pages \in Nat
      BY <1>1, EntryType
    <3>2. Apart(LARGE_ALLOCS[j].addr, LARGE_ALLOCS[j].num_pages,
                LARGE_ALLOCS[k].addr, LARGE_ALLOCS[k].num_pages)
      BY <1>1, <2>1 DEF SpaceInv, EntryInv
    <3> QED
      BY <3>1, <3>2 DEF Disjoint, Apart
  <2> QED
    BY <2>1, Zenon DEF StaleEntriesHarmless
<1> QED
  BY <1>1, SpaceInvariant, PTL

\* dealloc finds exactly one entry for a large block that is held, with its
\* number of pages, for every number of slots and of freed entries.
THEOREM LargeBlocksTracked ==
  ASSUME OVERFLOW_CHECKS
  PROVE  Spec => []LargeTracked
<1>1. ASSUME HeapInv, SpaceInv
      PROVE  LargeTracked
  <2> SUFFICES ASSUME NEW b \in live, ~IsSmall(b.layout)
               PROVE  \E k \in DOMAIN LARGE_ALLOCS :
                        EntriesOf(b) = {k} /\ LARGE_ALLOCS[k].num_pages = PagesFor(b.layout)
    BY DEF LargeTracked
  <2>1. PICK k \in DOMAIN LARGE_ALLOCS :
          /\ LARGE_ALLOCS[k].addr * PAGE_SIZE = b.ptr
          /\ LARGE_ALLOCS[k].num_pages = PagesFor(b.layout)
    BY <1>1 DEF SpaceInv, EntryInv
  <2>2. ASSUME NEW j \in DOMAIN LARGE_ALLOCS, LARGE_ALLOCS[j].addr * PAGE_SIZE = b.ptr
        PROVE  j = k
    <3>1. /\ LARGE_ALLOCS[j].addr \in Nat /\ LARGE_ALLOCS[j].num_pages \in Nat
          /\ LARGE_ALLOCS[k].addr \in Nat /\ LARGE_ALLOCS[k].num_pages \in Nat
      BY <1>1, EntryType
    <3>2. LARGE_ALLOCS[j].num_pages # 0 /\ LARGE_ALLOCS[k].num_pages # 0
      BY <1>1 DEF SpaceInv, EntryInv
    <3>3. LARGE_ALLOCS[j].addr = LARGE_ALLOCS[k].addr
      <4>1. \A x, y \in Nat, p \in Nat \ {0} : x * p = y * p => x = y
        OBVIOUS
      <4> QED
        BY <2>1, <2>2, <3>1, <4>1, Sizes
    <3>4. ~Apart(LARGE_ALLOCS[j].addr, LARGE_ALLOCS[j].num_pages,
                 LARGE_ALLOCS[k].addr, LARGE_ALLOCS[k].num_pages)
      BY <3>1, <3>2, <3>3 DEF Apart
    <3> QED
      BY <1>1, <3>4 DEF SpaceInv, EntryInv
  <2>3. EntriesOf(b) = {k}
    BY <2>1, <2>2 DEF EntriesOf
  <2> QED
    BY <2>1, <2>3
<1> QED
  BY <1>1, SpaceInvariant, PTL

-----------------------------------------------------------------------------
(***************************************************************************)
(* The refinement.                                                         *)
(***************************************************************************)
\* What AbstractHeap asks of the blocks that are held.
HeldWell ==
  \A b \in live :
    /\ b \in [ptr : START_VIRT * PAGE_SIZE .. END_VIRT * PAGE_SIZE - 1, layout : Layouts]
    /\ Promise!Bytes(b) \subseteq START_VIRT * PAGE_SIZE .. END_VIRT * PAGE_SIZE - 1
    /\ b.ptr % b.layout.align = 0
    /\ \A c \in live : b # c => Promise!Bytes(b) \cap Promise!Bytes(c) = {}

\* SpaceInv has it: a small block is a multiple of its room, which its
\* alignment divides, and a large one starts a page.
LEMMA SpaceIsHeldWell ==
  ASSUME HeapInv, SpaceInv
  PROVE  HeldWell
<1>1. ASSUME NEW b \in live
      PROVE  /\ b.ptr \in Nat /\ b.layout \in Layouts /\ b = [ptr |-> b.ptr, layout |-> b.layout]
             /\ Room(b.layout) \in Nat \ {0} /\ b.layout.size <= Room(b.layout)
             /\ b.layout.size \in Nat \ {0} /\ b.layout.align \in Nat \ {0}
  BY LiveType, RoomFits, Sizes
<1>2. ASSUME NEW b \in live
      PROVE  /\ b \in [ptr : START_VIRT * PAGE_SIZE .. END_VIRT * PAGE_SIZE - 1, layout : Layouts]
             /\ Promise!Bytes(b) \subseteq START_VIRT * PAGE_SIZE .. END_VIRT * PAGE_SIZE - 1
  <2> DEFINE lo == START_VIRT * PAGE_SIZE
             hi == END_VIRT * PAGE_SIZE
  <2>1. lo \in Nat /\ hi \in Nat
    BY Numbers, Sizes
  <2>2. lo <= b.ptr /\ b.ptr + Room(b.layout) <= hi
    BY DEF SpaceInv, LiveInv, InHeap
  <2> HIDE DEF lo, hi
  <2>3. b.ptr \in lo .. hi - 1 /\ b.ptr .. b.ptr + b.layout.size - 1 \subseteq lo .. hi - 1
    BY <1>1, <2>1, <2>2
  <2>4. b \in [ptr : lo .. hi - 1, layout : Layouts]
    BY <1>1, <2>3
  <2> QED
    BY <2>3, <2>4 DEF Promise!Bytes, lo, hi
<1>3. ASSUME NEW b \in live
      PROVE  b.ptr % b.layout.align = 0
  <2>1. CASE IsSmall(b.layout)
    <3>1. b.ptr % Room(b.layout) = 0
      BY <2>1 DEF SpaceInv, LiveInv
    <3>2. Room(b.layout) % b.layout.align = 0
      BY <1>1, <2>1, RoomFits
    <3> QED
      BY <1>1, <3>1, <3>2, DividesThrough
  <2>2. CASE ~IsSmall(b.layout)
    <3>1. PICK k \in DOMAIN LARGE_ALLOCS : LARGE_ALLOCS[k].addr * PAGE_SIZE = b.ptr
      BY <2>2 DEF SpaceInv, EntryInv
    <3>2. LARGE_ALLOCS[k].addr \in Nat /\ PAGE_SIZE \in Nat \ {0}
      BY EntryType, Sizes
    <3>3. b.ptr % PAGE_SIZE = 0
      BY <3>1, <3>2, MultipleIsDivided
    <3>4. PAGE_SIZE % b.layout.align = 0
      BY <1>1, Sizes
    <3> QED
      BY <1>1, <3>2, <3>3, <3>4, DividesThrough
  <2> QED
    BY <2>1, <2>2
<1>4. ASSUME NEW b \in live, NEW c \in live, b # c
      PROVE  Promise!Bytes(b) \cap Promise!Bytes(c) = {}
  <2>1. Apart(b.ptr, Room(b.layout), c.ptr, Room(c.layout))
    BY <1>4 DEF SpaceInv, LiveInv
  <2>2. /\ b.ptr \in Nat /\ Room(b.layout) \in Nat /\ b.layout.size \in Nat
        /\ c.ptr \in Nat /\ Room(c.layout) \in Nat /\ c.layout.size \in Nat
        /\ b.layout.size <= Room(b.layout) /\ c.layout.size <= Room(c.layout)
    BY <1>1, Zenon
  <2>3. (b.ptr .. b.ptr + b.layout.size - 1) \cap (c.ptr .. c.ptr + c.layout.size - 1) = {}
    BY <2>1, <2>2, ApartAreDisjoint, Zenon
  <2> QED
    BY <2>3 DEF Promise!Bytes
<1> QED
  BY <1>2, <1>3, <1>4 DEF HeldWell

\* A step gives one block out, takes one back, or neither.
LEMMA OneBlockAtATime ==
  ASSUME [Next]_vars
  PROVE  \/ UNCHANGED live
         \/ \E b : live' = live \cup {b}
         \/ \E b \in live : live' = live \ {b}
<1>1. CASE Call
  <2>1. CASE init
    BY <2>1, Zenon DEF init
  <2>2. ASSUME NEW l \in Layouts, alloc_pop(l)
        PROVE  \E b : live' = live \cup {b}
    BY <2>2, Zenon DEF alloc_pop, Hold
  <2>3. ASSUME NEW l \in Layouts, refill_free_list(l) \/ fallback_alloc(l)
        PROVE  UNCHANGED live
    BY <2>3, Zenon DEF refill_free_list, fallback_alloc
  <2>4. ASSUME NEW b \in live, dealloc_small(b) \/ dealloc_large(b)
        PROVE  live' = live \ {b}
    BY <2>4, Zenon DEF dealloc_small, dealloc_large
  <2> QED
    BY <1>1, <2>1, <2>2, <2>3, <2>4, Zenon DEF Call
<1>2. CASE Step
  <2>1. CASE PageStep \/ dealloc_match \/ dealloc_next \/ dealloc_done \/ init_done
    BY <2>1, Zenon DEF PageStep, heap_vars, dealloc_match, dealloc_next, dealloc_done, init_done
  <2>2. CASE refill_done
    BY <2>2, Zenon DEF refill_done, Hold
  <2>3. CASE fallback_done
    BY <2>3, Zenon DEF fallback_done, large_alloc_insert, Hold
  <2> QED
    BY <1>2, <2>1, <2>2, <2>3, Zenon DEF Step
<1>3. CASE UNCHANGED vars
  BY <1>3 DEF vars, heap_vars
<1> QED
  BY <1>1, <1>2, <1>3 DEF Next, Halted

\* Such a step is one of AbstractHeap, when the blocks are held well after it.
LEMMA StepKeepsPromise ==
  ASSUME HeldWell', [Next]_vars
  PROVE  [Promise!Next]_live
<1>1. CASE UNCHANGED live
  BY <1>1
<1>2. ASSUME NEW b, live' = live \cup {b}, b \notin live
      PROVE  Promise!Next
  <2>1. b \in live' /\ \A c \in live : c \in live' /\ b # c
    BY <1>2
  <2>2. /\ b \in [ptr : START_VIRT * PAGE_SIZE .. END_VIRT * PAGE_SIZE - 1, layout : Layouts]
        /\ Promise!Bytes(b) \subseteq START_VIRT * PAGE_SIZE .. END_VIRT * PAGE_SIZE - 1
        /\ b.ptr % b.layout.align = 0
        /\ \A c \in live' : b # c => Promise!Bytes(b) \cap Promise!Bytes(c) = {}
    BY <2>1, Zenon DEF HeldWell, Promise!Bytes
  <2>3. Promise!Allocate(b)
    BY <1>2, <2>1, <2>2, Zenon DEF Promise!Allocate
  <2> QED
    BY <2>2, <2>3, Zenon DEF Promise!Next
<1>3. ASSUME NEW b \in live, live' = live \ {b}
      PROVE  Promise!Next
  BY <1>3, Zenon DEF Promise!Next, Promise!Free
<1>4. ASSUME NEW b, live' = live \cup {b}, b \in live
      PROVE  UNCHANGED live
  BY <1>4
<1> QED
  BY <1>1, <1>2, <1>3, <1>4, OneBlockAtATime

\* The heap implements AbstractHeap: whatever it hands out is in the heap's
\* window, aligned as asked and in no block that is held, for every page
\* size, list of block sizes and set of layouts that AlignAssumption admits.
THEOREM HeapKeepsPromise ==
  ASSUME OVERFLOW_CHECKS
  PROVE  Spec => HeapPromise
<1>1. Init => Promise!Init
  BY DEF Init, Promise!Init
<1>2. HeapInv /\ SpaceInv => HeldWell
  BY SpaceIsHeldWell
<1>3. HeldWell' /\ [Next]_vars => [Promise!Next]_live
  BY StepKeepsPromise
<1> QED
  BY <1>1, <1>2, <1>3, SpaceInvariant, PTL DEF Spec, HeapPromise, Promise!Spec

-----------------------------------------------------------------------------
(***************************************************************************)
(* The memory under the blocks.                                            *)
(***************************************************************************)
\* The order of two multiples is that of their factors.
LEMMA FactorsOrdered ==
  ASSUME NEW a \in Nat, NEW b \in Nat, NEW p \in Nat, a * p < b * p
  PROVE  a < b
<1> SUFFICES ASSUME b <= a PROVE FALSE
  OBVIOUS
<1>1. b * p <= a * p /\ a * p \in Nat /\ b * p \in Nat
  BY TimesKeepsOrder
<1> DEFINE u == a * p  v == b * p
<1>2. u < v /\ v <= u /\ u \in Nat /\ v \in Nat
  BY <1>1
<1> HIDE DEF u, v
<1> QED
  BY <1>2

\* A block inside a range of mapped pages is on mapped pages.
LEMMA InsideMapped ==
  ASSUME NEW first \in Nat, NEW n \in Nat, NEW a \in Nat, NEW r \in Nat, NEW table,
         first * PAGE_SIZE <= a, a + r <= (first + n) * PAGE_SIZE,
         PagesMapped(first, first + n, table)
  PROVE  OnMapped(a, r, table)
<1> SUFFICES ASSUME NEW page \in Pages, page * PAGE_SIZE < a + r, a < (page + 1) * PAGE_SIZE
             PROVE  table[page] # None
  BY DEF OnMapped
<1>1. page \in Nat /\ PAGE_SIZE \in Nat
  BY PagesDef, Sizes
<1> DEFINE end == first + n  next == page + 1
<1>2. end \in Nat /\ next \in Nat
  BY <1>1
<1> HIDE DEF end, next
<1>3. first * PAGE_SIZE \in Nat /\ end * PAGE_SIZE \in Nat /\ page * PAGE_SIZE \in Nat
      /\ next * PAGE_SIZE \in Nat
  BY <1>1, <1>2
<1>4. first * PAGE_SIZE < next * PAGE_SIZE /\ page * PAGE_SIZE < end * PAGE_SIZE
  <2> DEFINE t == first * PAGE_SIZE  u == end * PAGE_SIZE  v == page * PAGE_SIZE
             w == next * PAGE_SIZE
  <2>1. t <= a /\ a + r <= u /\ v < a + r /\ a < w
    BY DEF end, next
  <2>2. t \in Nat /\ u \in Nat /\ v \in Nat /\ w \in Nat
    BY <1>3
  <2> HIDE DEF t, u, v, w
  <2>3. t < w /\ v < u
    BY <2>1, <2>2
  <2> QED
    BY <2>3 DEF t, u, v, w
<1>5. first < next /\ page < end
  BY <1>1, <1>2, <1>4, FactorsOrdered
<1>6. first <= page /\ page < first + n
  BY <1>1, <1>5 DEF end, next
<1> QED
  BY <1>6 DEF PagesMapped

\* The pages under a block of whole pages are mapped.
LEMMA WholePages ==
  ASSUME NEW first \in Nat, NEW n \in Nat, NEW table,
         OnMapped(first * PAGE_SIZE, n * PAGE_SIZE, table)
  PROVE  PagesMapped(first, first + n, table)
<1> SUFFICES ASSUME NEW page \in Pages, first <= page, page < first + n
             PROVE  page * PAGE_SIZE < first * PAGE_SIZE + n * PAGE_SIZE
                    /\ first * PAGE_SIZE < (page + 1) * PAGE_SIZE
  BY DEF OnMapped, PagesMapped
<1>1. page \in Nat /\ PAGE_SIZE \in Nat \ {0}
  BY PagesDef, Sizes
<1>2. (page + 1) * PAGE_SIZE = page * PAGE_SIZE + PAGE_SIZE
  BY <1>1
<1>3. (first + n) * PAGE_SIZE = first * PAGE_SIZE + n * PAGE_SIZE
  BY <1>1, TimesSum
<1>4. first * PAGE_SIZE <= page * PAGE_SIZE /\ first * PAGE_SIZE \in Nat /\ page * PAGE_SIZE \in Nat
  BY <1>1, TimesKeepsOrder
<1>5. (page + 1) * PAGE_SIZE <= (first + n) * PAGE_SIZE /\ (first + n) * PAGE_SIZE \in Nat
  <2>1. page + 1 \in Nat /\ first + n \in Nat /\ page + 1 <= first + n
    BY <1>1
  <2> QED
    BY <1>1, <2>1, TimesKeepsOrder
<1> DEFINE t == first * PAGE_SIZE  u == page * PAGE_SIZE  v == (first + n) * PAGE_SIZE
<1>6. t \in Nat /\ u \in Nat /\ v \in Nat /\ t <= u /\ u + PAGE_SIZE <= v
  BY <1>2, <1>4, <1>5
<1> HIDE DEF t, u, v
<1>7. t < u + PAGE_SIZE /\ u < v
  BY <1>1, <1>6
<1> QED
  BY <1>2, <1>3, <1>7 DEF t, u, v

\* A block stays on mapped pages when a page is unmapped of a range apart from it.
LEMMA UnmappedApart ==
  ASSUME NEW first \in Nat, NEW n \in Nat, NEW a \in Nat, NEW r \in Nat,
         Apart(a, r, first * PAGE_SIZE, n * PAGE_SIZE),
         NEW q \in Pages, first <= q, q < first + n, NEW s, NEW t,
         \A page \in Pages : page # q => t[page] = s[page],
         OnMapped(a, r, s)
  PROVE  OnMapped(a, r, t)
<1> SUFFICES ASSUME q * PAGE_SIZE < a + r, a < (q + 1) * PAGE_SIZE
             PROVE  FALSE
  BY DEF OnMapped
<1>1. q \in Nat /\ PAGE_SIZE \in Nat
  BY PagesDef, Sizes
<1>2. first * PAGE_SIZE <= q * PAGE_SIZE /\ first * PAGE_SIZE \in Nat /\ q * PAGE_SIZE \in Nat
  BY <1>1, TimesKeepsOrder
<1>3. /\ (q + 1) * PAGE_SIZE <= (first + n) * PAGE_SIZE
      /\ (q + 1) * PAGE_SIZE \in Nat /\ (first + n) * PAGE_SIZE \in Nat
  <2>1. q + 1 \in Nat /\ first + n \in Nat /\ q + 1 <= first + n
    BY <1>1
  <2> QED
    BY <1>1, <2>1, TimesKeepsOrder
<1>4. (first + n) * PAGE_SIZE = first * PAGE_SIZE + n * PAGE_SIZE
  BY <1>1, TimesSum
<1> DEFINE u == first * PAGE_SIZE  v == q * PAGE_SIZE  w == (q + 1) * PAGE_SIZE
           m == n * PAGE_SIZE
<1>5. /\ u \in Nat /\ v \in Nat /\ w \in Nat /\ m \in Nat /\ u <= v /\ w <= u + m
      /\ v < a + r /\ a < w /\ (a + r <= u \/ u + m <= a)
  BY <1>1, <1>2, <1>3, <1>4 DEF Apart
<1> HIDE DEF u, v, w, m
<1> QED
  BY <1>5

\* An address of a block on mapped pages is mapped.
LEMMA AddressMapped ==
  ASSUME NEW a \in Nat, NEW r \in Nat, NEW table, OnMapped(a, r, table),
         NEW c \in a .. a + r - 1, a + r <= END_VIRT * PAGE_SIZE
  PROVE  table[PageOf(c)] # None
<1> DEFINE page == PageOf(c)
<1>1. PAGE_SIZE \in Nat \ {0} /\ c \in Nat /\ END_VIRT \in Nat /\ END_VIRT < ADDR_PAGES
      /\ END_VIRT * PAGE_SIZE \in Nat
  BY Sizes, Numbers
<1>2. page \in Nat /\ page * PAGE_SIZE <= c /\ c < (page + 1) * PAGE_SIZE
  <2>1. \A u \in Nat, p \in Nat \ {0} :
          u \div p \in Nat /\ (u \div p) * p <= u /\ u < (u \div p + 1) * p
    OBVIOUS
  <2> QED
    BY <1>1, <2>1 DEF PageOf
<1> HIDE DEF page
<1>3. page * PAGE_SIZE \in Nat /\ (page + 1) * PAGE_SIZE \in Nat
  BY <1>1, <1>2
<1> DEFINE u == page * PAGE_SIZE  v == (page + 1) * PAGE_SIZE  w == END_VIRT * PAGE_SIZE
<1>4. u \in Nat /\ v \in Nat /\ w \in Nat /\ u <= c /\ c < v /\ a + r <= w
  BY <1>1, <1>2, <1>3
<1> HIDE DEF u, v, w
<1>5. u < a + r /\ a < v /\ u < w
  BY <1>4
<1>6. page < END_VIRT
  BY <1>1, <1>2, <1>5, FactorsOrdered DEF u, w
<1>7. page \in Pages
  BY <1>1, <1>2, <1>6, PagesDef, Numbers
<1> QED
  BY <1>5, <1>7 DEF OnMapped, u, v, page

-----------------------------------------------------------------------------
(***************************************************************************)
(* The steps that leave the page table alone.                              *)
(***************************************************************************)
\* Blocks that were there before or are on mapped pages.
LEMMA BlocksStayMapped ==
  ASSUME BlocksMapped, page_table' = page_table,
         \A x \in Classes : \A j \in DOMAIN list_heads'[x] :
           \/ \E k \in DOMAIN list_heads[x] : list_heads'[x][j] = list_heads[x][k]
           \/ OnMapped(list_heads'[x][j], BLOCK_SIZES[x], page_table),
         \A b \in live' : b \in live \/ OnMapped(b.ptr, Room(b.layout), page_table)
  PROVE  BlocksMapped'
<1>1. ASSUME NEW x \in Classes, NEW j \in DOMAIN list_heads'[x]
      PROVE  OnMapped(list_heads'[x][j], BLOCK_SIZES[x], page_table)
  BY DEF BlocksMapped
<1>2. ASSUME NEW b \in live'
      PROVE  OnMapped(b.ptr, Room(b.layout), page_table)
  BY DEF BlocksMapped
<1> QED
  BY <1>1, <1>2, Zenon DEF BlocksMapped

\* A step that leaves everything but the call alone.
LEMMA BlocksAlone ==
  ASSUME BlocksMapped, UNCHANGED <<page_table, list_heads, live>>
  PROVE  BlocksMapped'
<1>1. /\ \A x \in Classes : \A j \in DOMAIN list_heads'[x] :
           \E k \in DOMAIN list_heads[x] : list_heads'[x][j] = list_heads[x][k]
      /\ \A b \in live' : b \in live
  OBVIOUS
<1> QED
  BY <1>1, BlocksStayMapped

\* The start of a call of PageAllocator::alloc.
LEMMA AllocStartsBacked ==
  ASSUME HeapInv, BackedInv, Allocating', NEW n \in Nat, alloc(n),
         UNCHANGED <<list_heads, live>>
  PROVE  BackedInv'
<1>1. /\ pa_pc' \in {"panicked", "err", "frame"} /\ panic' \in {panic, "overflow"}
      /\ start_addr' = current_virt /\ i' = 0 /\ page_table' = page_table
  BY DEF alloc, Panic, Return
<1>2. BlocksMapped'
  BY <1>1, BlocksAlone DEF BackedInv
<1>3. current_virt \in Nat
  BY LocalsType DEF HeapInv, PageInv
<1>4. \A page \in Pages : ~(current_virt <= page /\ page < current_virt + 0)
  BY <1>3, PagesDef
<1>5. MappedSoFar'
  BY <1>1, <1>4 DEF MappedSoFar, PagesMapped
<1>6. FreedInv'
  BY <1>1 DEF FreedInv, Allocating
<1> QED
  BY <1>1, <1>2, <1>5, <1>6 DEF BackedInv, DeallocSucceeds

\* alloc takes a block from its list.
LEMMA AllocPopBacked ==
  ASSUME HeapInv, BackedInv, NEW l \in Layouts, alloc_pop(l)
  PROVE  BackedInv'
<1> DEFINE x == list_index(l)
           s == list_heads[x]
<1>1. x \in Classes /\ Room(l) = BLOCK_SIZES[x]
  BY SmallIndex DEF alloc_pop, Room
<1> HIDE DEF x
<1>2. /\ s # <<>> /\ heap_pc = "idle" /\ UNCHANGED <<pa_vars, LARGE_ALLOCS, heap_pc>>
      /\ live' = live \cup {[ptr |-> Head(s), layout |-> l]}
      /\ list_heads' = [list_heads EXCEPT ![x] = Tail(s)]
  BY DEF alloc_pop, x, Hold
<1>3. s \in Seq(Nat) /\ list_heads \in [Classes -> Seq(Nat)]
  BY <1>1 DEF HeapInv, TypeOK
<1>4. /\ 1 \in DOMAIN s /\ Head(s) = s[1]
      /\ \A j \in DOMAIN Tail(s) : j + 1 \in DOMAIN s /\ Tail(s)[j] = s[j + 1]
  <2> HIDE DEF s
  <2> QED
    BY <1>2, <1>3
<1>5. ASSUME NEW y \in Classes, NEW j \in DOMAIN list_heads'[y]
      PROVE  \E k \in DOMAIN list_heads[y] : list_heads'[y][j] = list_heads[y][k]
  <2>1. CASE y = x
    <3>1. list_heads'[y] = Tail(s)
      BY <1>1, <1>2, <1>3, <2>1
    <3> QED
      BY <1>4, <2>1, <3>1, Zenon
  <2>2. CASE y # x
    BY <1>2, <1>3, <2>2
  <2> QED
    BY <2>1, <2>2
<1>6. ASSUME NEW b \in live', b \notin live
      PROVE  OnMapped(b.ptr, Room(b.layout), page_table)
  <2>1. b.ptr = s[1] /\ b.layout = l
    BY <1>2, <1>4, <1>6
  <2> QED
    BY <1>1, <1>4, <2>1 DEF BackedInv, BlocksMapped
<1>7. BlocksMapped'
  <2>1. page_table' = page_table
    BY <1>2 DEF pa_vars
  <2> QED
    BY <1>5, <1>6, <2>1, BlocksStayMapped DEF BackedInv
<1>8. pa_pc = "idle" /\ pa_pc' = "idle" /\ panic' = panic /\ heap_pc' = "idle"
  BY <1>2 DEF BackedInv, FreedInv, pa_vars
<1> QED
  BY <1>7, <1>8 DEF BackedInv, MappedSoFar, FreedInv, DeallocSucceeds, Allocating

\* dealloc puts a small block on its list, or leaks it.
LEMMA DeallocSmallBacked ==
  ASSUME HeapInv, BackedInv, NEW b \in live, dealloc_small(b)
  PROVE  BackedInv'
<1> DEFINE x == list_index(b.layout)
           s == list_heads[x]
           t == <<b.ptr>> \o s
<1>1. x \in Classes /\ Room(b.layout) = BLOCK_SIZES[x]
  BY SmallIndex DEF dealloc_small, Room
<1>2. /\ heap_pc = "idle" /\ UNCHANGED <<pa_vars, LARGE_ALLOCS, heap_pc>>
      /\ live' = live \ {b}
      /\ \/ UNCHANGED list_heads
         \/ list_heads' = [list_heads EXCEPT ![x] = t]
  BY DEF dealloc_small
<1> HIDE DEF x
<1>3. s \in Seq(Nat) /\ list_heads \in [Classes -> Seq(Nat)] /\ b.ptr \in Nat
  BY <1>1, LiveType DEF HeapInv, TypeOK
<1>4. \A j \in DOMAIN t : t[j] = b.ptr \/ \E k \in DOMAIN s : t[j] = s[k]
  <2> DEFINE u == <<b.ptr>>
  <2>1. u \in Seq(Nat) /\ Len(u) = 1 /\ u[1] = b.ptr
    BY <1>3
  <2> HIDE DEF u, s
  <2> QED
    BY <1>3, <2>1 DEF u
<1> HIDE DEF t
<1>5. ASSUME NEW y \in Classes, NEW j \in DOMAIN list_heads'[y]
      PROVE  \/ \E k \in DOMAIN list_heads[y] : list_heads'[y][j] = list_heads[y][k]
             \/ OnMapped(list_heads'[y][j], BLOCK_SIZES[y], page_table)
  <2>1. CASE list_heads'[y] = list_heads[y]
    BY <2>1
  <2>2. CASE y = x /\ list_heads'[x] = t
    <3>1. OnMapped(b.ptr, BLOCK_SIZES[x], page_table)
      BY <1>1 DEF BackedInv, BlocksMapped
    <3> QED
      BY <1>4, <2>2, <3>1, Zenon
  <2> QED
    BY <1>1, <1>2, <1>3, <2>1, <2>2
<1>6. BlocksMapped'
  <2>1. page_table' = page_table
    BY <1>2 DEF pa_vars
  <2> QED
    BY <1>2, <1>5, <2>1, BlocksStayMapped DEF BackedInv
<1>7. pa_pc = "idle" /\ pa_pc' = "idle" /\ panic' = panic /\ heap_pc' = "idle"
  BY <1>2 DEF BackedInv, FreedInv, pa_vars
<1> QED
  BY <1>6, <1>7 DEF BackedInv, MappedSoFar, FreedInv, DeallocSucceeds, Allocating

\* An address has one entry.
LEMMA OneEntry ==
  ASSUME HeapInv, SpaceInv, NEW j \in DOMAIN LARGE_ALLOCS, NEW k \in DOMAIN LARGE_ALLOCS,
         LARGE_ALLOCS[j].addr * PAGE_SIZE = LARGE_ALLOCS[k].addr * PAGE_SIZE
  PROVE  j = k
<1>1. /\ LARGE_ALLOCS[j].addr \in Nat /\ LARGE_ALLOCS[j].num_pages \in Nat
      /\ LARGE_ALLOCS[k].addr \in Nat /\ LARGE_ALLOCS[k].num_pages \in Nat
  BY EntryType
<1>2. LARGE_ALLOCS[j].num_pages # 0 /\ LARGE_ALLOCS[k].num_pages # 0
  BY DEF SpaceInv, EntryInv
<1>3. LARGE_ALLOCS[j].addr = LARGE_ALLOCS[k].addr
  <2>1. \A x, y \in Nat, p \in Nat \ {0} : x * p = y * p => x = y
    OBVIOUS
  <2> QED
    BY <1>1, <2>1, Sizes
<1>4. ~Apart(LARGE_ALLOCS[j].addr, LARGE_ALLOCS[j].num_pages,
             LARGE_ALLOCS[k].addr, LARGE_ALLOCS[k].num_pages)
  BY <1>1, <1>2, <1>3 DEF Apart
<1> QED
  BY <1>4 DEF SpaceInv, EntryInv

\* dealloc starts its scan for a large block: the entry it will find has the
\* pages of the block, which no other block is on.
LEMMA DeallocLargeBacked ==
  ASSUME HeapInv, SpaceInv, BackedInv, NEW b \in live, dealloc_large(b)
  PROVE  BackedInv'
<1>1. /\ ~IsSmall(b.layout) /\ live' = live \ {b} /\ heap_pc = "idle" /\ heap_pc' = "dealloc"
      /\ ptr' = b.ptr /\ slot' = 1 /\ UNCHANGED <<pa_vars, list_heads, LARGE_ALLOCS>>
  BY DEF dealloc_large
<1>2. pa_pc = "idle" /\ pa_pc' = "idle" /\ panic' = panic /\ page_table' = page_table
  BY <1>1 DEF BackedInv, FreedInv, pa_vars
<1>3. BlocksMapped'
  BY <1>1, <1>2 DEF BackedInv, BlocksMapped
<1>4. PICK e \in DOMAIN LARGE_ALLOCS :
        /\ LARGE_ALLOCS[e].addr * PAGE_SIZE = b.ptr
        /\ LARGE_ALLOCS[e].num_pages = PagesFor(b.layout)
  BY <1>1 DEF SpaceInv, EntryInv
<1> DEFINE addr == LARGE_ALLOCS[e].addr
           n == LARGE_ALLOCS[e].num_pages
<1>5. addr \in Nat /\ n \in Nat /\ Room(b.layout) = n * PAGE_SIZE
  BY <1>1, <1>4, EntryType DEF Room
<1>6. PagesMapped(addr, addr + n, page_table)
  <2>1. OnMapped(addr * PAGE_SIZE, n * PAGE_SIZE, page_table)
    BY <1>4, <1>5 DEF BackedInv, BlocksMapped
  <2> HIDE DEF addr, n
  <2> QED
    BY <1>5, <2>1, WholePages
<1>7. /\ \A c \in live' : Apart(c.ptr, Room(c.layout), addr * PAGE_SIZE, n * PAGE_SIZE)
      /\ \A x \in Classes : \A j \in DOMAIN list_heads[x] :
           Apart(list_heads[x][j], BLOCK_SIZES[x], addr * PAGE_SIZE, n * PAGE_SIZE)
  <2>1. ASSUME NEW c \in live' PROVE Apart(c.ptr, Room(c.layout), b.ptr, Room(b.layout))
    BY <1>1 DEF SpaceInv, LiveInv
  <2>2. ASSUME NEW x \in Classes, NEW j \in DOMAIN list_heads[x]
        PROVE  Apart(list_heads[x][j], BLOCK_SIZES[x], b.ptr, Room(b.layout))
    <3>1. Apart(b.ptr, Room(b.layout), list_heads[x][j], BLOCK_SIZES[x])
      BY DEF SpaceInv, LiveInv
    <3> QED
      BY <3>1 DEF Apart
  <2> QED
    BY <1>4, <1>5, <2>1, <2>2
<1>8. PagesUnused(addr, n)'
  BY <1>1, <1>7 DEF PagesUnused
<1>9. ASSUME NEW k \in slot' .. Len(LARGE_ALLOCS'), Matches(k)'
      PROVE  k = e
  <2>1. LARGE_ALLOCS \in Seq([addr : Pages, num_pages : Nat])
    BY DEF HeapInv, TypeOK
  <2>2. k \in DOMAIN LARGE_ALLOCS
    BY <1>1, <2>1
  <2> QED
    BY <1>1, <1>4, <1>9, <2>2, OneEntry DEF Matches
<1>10. FreedInv'
  <2>1. ASSUME NEW k \in slot' .. Len(LARGE_ALLOCS'), Matches(k)'
        PROVE  /\ PagesMapped(LARGE_ALLOCS[k].addr,
                              LARGE_ALLOCS[k].addr + LARGE_ALLOCS[k].num_pages, page_table)'
               /\ PagesUnused(LARGE_ALLOCS[k].addr, LARGE_ALLOCS[k].num_pages)'
    <3>1. k = e
      BY <1>9, <2>1
    <3> QED
      BY <1>1, <1>2, <1>6, <1>8, <3>1 DEF PagesMapped, PagesUnused
  <2> QED
    BY <1>1, <1>2, <2>1 DEF FreedInv
<1> QED
  BY <1>1, <1>2, <1>3, <1>10 DEF BackedInv, MappedSoFar, DeallocSucceeds, Allocating

\* The scan finds the entry of the block and starts to unmap its pages; no
\* later entry has the address.
LEMMA DeallocMatchBacked ==
  ASSUME HeapInv, SpaceInv, BackedInv, dealloc_match
  PROVE  BackedInv'
<1>1. PICK k \in slot .. Len(LARGE_ALLOCS) :
        /\ Matches(k) /\ slot' = k + 1
        /\ dealloc(LARGE_ALLOCS[k].addr, LARGE_ALLOCS[k].num_pages)
  BY DEF dealloc_match
<1> DEFINE addr == LARGE_ALLOCS[k].addr
           n == LARGE_ALLOCS[k].num_pages
<1>2. /\ heap_pc = "dealloc" /\ heap_pc' = "dealloc"
      /\ UNCHANGED <<list_heads, LARGE_ALLOCS, live, ptr>>
  BY DEF dealloc_match
<1>3. /\ pa_pc = "idle" /\ pa_pc' = "unmap" /\ num_pages' = n /\ start_addr' = addr /\ i' = 0
      /\ UNCHANGED <<page_table, current_virt, panic>>
  BY <1>1 DEF dealloc
<1>4. /\ LARGE_ALLOCS \in Seq([addr : Pages, num_pages : Nat]) /\ slot \in Nat /\ slot # 0
  BY <1>2 DEF HeapInv, TypeOK, CallInv
<1>5. k \in DOMAIN LARGE_ALLOCS /\ k \in Nat
  BY <1>4
<1>6. addr \in Nat /\ n \in Nat /\ n # 0 /\ addr + n <= current_virt
  <2>1. Limit = current_virt
    BY <1>2 DEF Limit, Allocating
  <2> QED
    BY <1>5, <2>1, EntryType DEF SpaceInv, EntryInv
<1>7. PagesMapped(addr, addr + n, page_table) /\ PagesUnused(addr, n)
  BY <1>1, <1>2, <1>3 DEF BackedInv, FreedInv
<1>8. ASSUME NEW j \in slot' .. Len(LARGE_ALLOCS'), Matches(j)'
      PROVE  FALSE
  <2>1. j \in DOMAIN LARGE_ALLOCS /\ j # k
    BY <1>1, <1>2, <1>4, <1>5
  <2>2. LARGE_ALLOCS[j].addr * PAGE_SIZE = LARGE_ALLOCS[k].addr * PAGE_SIZE
    BY <1>1, <1>2, <1>8 DEF Matches
  <2> QED
    BY <1>5, <2>1, <2>2, OneEntry
<1>9. FreedInv'
  <2>1. PagesMapped(start_addr + i, start_addr + num_pages, page_table)'
    <3>1. addr + 0 = addr
      BY <1>6
    <3> QED
      BY <1>3, <1>7, <3>1 DEF PagesMapped
  <2>2. PagesUnused(start_addr, num_pages)'
    BY <1>2, <1>3, <1>7 DEF PagesUnused
  <2>3. (i < num_pages)' /\ (start_addr + num_pages <= current_virt)'
    <3> HIDE DEF addr, n
    <3>1. 0 < n /\ addr + n <= current_virt
      BY <1>6
    <3> QED
      BY <1>3, <3>1, Zenon
  <2> QED
    BY <1>2, <1>3, <1>8, <2>1, <2>2, <2>3 DEF FreedInv
<1>10. BlocksMapped'
  BY <1>2, <1>3, BlocksAlone DEF BackedInv
<1> QED
  BY <1>2, <1>3, <1>9, <1>10 DEF BackedInv, MappedSoFar, DeallocSucceeds, Allocating

\* The pages are unmapped, and the scan goes on.
LEMMA DeallocNextBacked ==
  ASSUME BackedInv, dealloc_next
  PROVE  BackedInv'
<1>1. /\ heap_pc = "dealloc" /\ pa_pc = "ok" /\ pa_pc' = "idle" /\ UNCHANGED <<panic, page_table>>
      /\ UNCHANGED <<heap_pc, list_heads, LARGE_ALLOCS, live, ptr, slot>>
  BY DEF dealloc_next, Return, KeepPages, heap_vars
<1>2. BlocksMapped'
  BY <1>1, BlocksAlone DEF BackedInv
<1>3. \A k \in slot .. Len(LARGE_ALLOCS) : ~Matches(k)
  BY <1>1 DEF BackedInv, FreedInv
<1>4. \A k \in slot' .. Len(LARGE_ALLOCS') : ~Matches(k)'
  BY <1>1, <1>3 DEF Matches
<1>5. FreedInv'
  BY <1>1, <1>4 DEF FreedInv
<1> QED
  BY <1>1, <1>2, <1>5 DEF BackedInv, MappedSoFar, DeallocSucceeds, Allocating

\* A call returns: what it has handed out is on mapped pages.
LEMMA DoneBacked ==
  ASSUME BackedInv, Done, BlocksMapped'
  PROVE  BackedInv'
<1>1. heap_pc' = "idle" /\ pa_pc' = "idle" /\ panic' = panic
  BY DEF Done
<1> QED
  BY <1>1 DEF BackedInv, MappedSoFar, FreedInv, DeallocSucceeds, Allocating

\* The page that was mapped for a free list.
LEMMA NewPageMapped ==
  ASSUME HeapInv, BackedInv, Allocating, pa_pc = "ok"
  PROVE  PagesMapped(start_addr, start_addr + num_pages, page_table)
BY DEF BackedInv, MappedSoFar

\* A page that is carved into blocks is mapped, and so are they.
LEMMA CarvedMapped ==
  ASSUME HeapInv, BackedInv, Allocating, pa_pc = "ok", num_pages = 1,
         NEW x \in Classes, NEW skip \in {0, 1},
         list_heads' = [list_heads EXCEPT ![x] = Carve(start_addr, x, skip, @)]
  PROVE  \A y \in Classes : \A j \in DOMAIN list_heads'[y] :
           \/ \E k \in DOMAIN list_heads[y] : list_heads'[y][j] = list_heads[y][k]
           \/ OnMapped(list_heads'[y][j], BLOCK_SIZES[y], page_table)
<1> DEFINE size == BLOCK_SIZES[x]
           n == PAGE_SIZE \div size - skip
           base == start_addr * PAGE_SIZE
           list == list_heads[x]
           carved == Carve(start_addr, x, skip, list)
<1>1. list \in Seq(Nat) /\ list_heads \in [Classes -> Seq(Nat)] /\ start_addr \in Nat
  BY LocalsType DEF HeapInv, PageInv, TypeOK
<1>2. /\ n \in Nat /\ base \in Nat /\ carved \in Seq(Nat)
      /\ \A k \in 1 .. Len(carved) :
           k > n => k - n \in 1 .. Len(list) /\ carved[k] = list[k - n]
      /\ \A k \in 1 .. Len(carved) :
           k <= n => /\ base + skip * size <= carved[k]
                     /\ carved[k] + size <= base + PAGE_SIZE
  <2>1. CarvedWell(start_addr, x, skip, list)
    <3> HIDE DEF list
    <3> QED
      BY <1>1, CarveFacts
  <2> QED
    BY <2>1, Zenon DEF CarvedWell
<1>3. size \in Nat \ {0} /\ PAGE_SIZE \in Nat \ {0}
  BY Sizes
<1>4. list_heads' = [list_heads EXCEPT ![x] = carved]
  OBVIOUS
<1> HIDE DEF n, carved
<1>5. (start_addr + 1) * PAGE_SIZE = base + PAGE_SIZE
  BY <1>1, <1>3
<1>6. PagesMapped(start_addr, start_addr + 1, page_table)
  BY NewPageMapped
<1> HIDE DEF base, list
<1>7. ASSUME NEW j \in DOMAIN carved, j <= n
      PROVE  OnMapped(carved[j], size, page_table)
  <2>1. /\ j \in 1 .. Len(carved) /\ carved[j] \in Nat
        /\ base + skip * size <= carved[j] /\ carved[j] + size <= base + PAGE_SIZE
    <3>1. carved \in Seq(Nat)
      BY <1>2, Zenon
    <3>2. j \in 1 .. Len(carved) /\ carved[j] \in Nat
      BY <3>1
    <3> QED
      BY <1>2, <1>7, <3>2, Zenon
  <2>2. skip * size \in Nat
    BY <1>3
  <2> DEFINE e == skip * size
  <2>3. e \in Nat /\ base + e <= carved[j]
    BY <2>1, <2>2
  <2> HIDE DEF e
  <2>4. base <= carved[j]
    <3>1. ASSUME NEW a \in Nat, NEW b \in Nat, NEW c \in Nat, a + b <= c PROVE a <= c
      BY <3>1
    <3> QED
      BY <1>2, <2>1, <2>3, <3>1, Zenon
  <2>5. start_addr * PAGE_SIZE <= carved[j] /\ carved[j] + size <= (start_addr + 1) * PAGE_SIZE
    BY <1>5, <2>1, <2>4 DEF base
  <2> HIDE DEF size
  <2> QED
    BY <1>1, <1>3, <1>6, <2>1, <2>5, InsideMapped
<1>8. ASSUME NEW j \in DOMAIN carved, ~(j <= n)
      PROVE  \E k \in DOMAIN list : carved[j] = list[k]
  <2>1. j \in 1 .. Len(carved) /\ j > n
    <3>1. carved \in Seq(Nat) /\ n \in Nat
      BY <1>2, Zenon
    <3> QED
      BY <1>8, <3>1
  <2>2. j - n \in 1 .. Len(list) /\ carved[j] = list[j - n]
    BY <1>2, <2>1, Zenon
  <2>3. DOMAIN list = 1 .. Len(list)
    BY <1>1
  <2> QED
    BY <2>2, <2>3, Zenon
<1>9. ASSUME NEW y \in Classes, NEW j \in DOMAIN list_heads'[y]
      PROVE  \/ \E k \in DOMAIN list_heads[y] : list_heads'[y][j] = list_heads[y][k]
             \/ OnMapped(list_heads'[y][j], BLOCK_SIZES[y], page_table)
  <2>1. CASE y = x
    <3>1. list_heads'[y] = carved
      BY <1>1, <1>4, <2>1
    <3> QED
      BY <1>7, <1>8, <2>1, <3>1, Zenon DEF list
  <2>2. CASE y # x
    BY <1>1, <1>4, <2>2
  <2> QED
    BY <2>1, <2>2
<1> QED
  BY <1>9, Zenon

\* init's page is carved, or there is none.
LEMMA InitDoneBacked ==
  ASSUME HeapInv, SpaceInv, BackedInv, init_done
  PROVE  BackedInv'
<1>1. /\ Allocating /\ num_pages = 1 /\ Done /\ UNCHANGED <<page_table, live>>
      /\ \/ UNCHANGED list_heads
         \/ pa_pc = "ok" /\ list_heads' = [list_heads EXCEPT ![1] = Carve(start_addr, 1, 0, @)]
  BY DEF init_done, Allocating, SpaceInv, PhaseInv, KeepPages
<1>2. \A y \in Classes : \A j \in DOMAIN list_heads'[y] :
        \/ \E k \in DOMAIN list_heads[y] : list_heads'[y][j] = list_heads[y][k]
        \/ OnMapped(list_heads'[y][j], BLOCK_SIZES[y], page_table)
  <2>1. CASE UNCHANGED list_heads
    BY <2>1
  <2>2. CASE pa_pc = "ok" /\ list_heads' = [list_heads EXCEPT ![1] = Carve(start_addr, 1, 0, @)]
    BY <1>1, <2>2, ClassOne, CarvedMapped, Zenon
  <2> QED
    BY <1>1, <2>1, <2>2
<1>3. BlocksMapped'
  BY <1>1, <1>2, BlocksStayMapped DEF BackedInv
<1> QED
  BY <1>1, <1>3, DoneBacked

\* A page for a free list that was empty, whose first block goes to the caller.
LEMMA RefillDoneBacked ==
  ASSUME HeapInv, SpaceInv, BackedInv, refill_done
  PROVE  BackedInv'
<1> DEFINE x == list_index(layout)
           base == start_addr * PAGE_SIZE
<1>1. /\ Allocating /\ num_pages = 1 /\ Done /\ UNCHANGED page_table
      /\ layout \in Layouts /\ IsSmall(layout)
  BY DEF refill_done, Allocating, SpaceInv, PhaseInv, KeepPages, HeapInv, CallInv
<1>2. CASE UNCHANGED <<list_heads, live>>
  BY <1>1, <1>2, BlocksAlone, DoneBacked DEF BackedInv
<1>3. CASE /\ pa_pc = "ok" /\ list_heads' = [list_heads EXCEPT ![x] = Carve(start_addr, x, 1, @)]
           /\ live' = live \cup {[ptr |-> base, layout |-> layout]}
  <2>1. x \in Classes /\ Room(layout) = BLOCK_SIZES[x]
    BY <1>1, SmallIndex DEF Room
  <2>2. \A y \in Classes : \A j \in DOMAIN list_heads'[y] :
          \/ \E k \in DOMAIN list_heads[y] : list_heads'[y][j] = list_heads[y][k]
          \/ OnMapped(list_heads'[y][j], BLOCK_SIZES[y], page_table)
    <3> HIDE DEF x
    <3> QED
      BY <1>1, <1>3, <2>1, CarvedMapped, Zenon
  <2>3. base \in Nat /\ start_addr \in Nat
    BY AddressType, LocalsType DEF HeapInv, PageInv
  <2>4. OnMapped(base, Room(layout), page_table)
    <3>1. Room(layout) \in Nat /\ Room(layout) <= PAGE_SIZE /\ PAGE_SIZE \in Nat
      BY <1>1, <2>1, RoomFits, Sizes, BlocksOfPage
    <3>2. (start_addr + 1) * PAGE_SIZE = base + PAGE_SIZE
      BY <2>3, <3>1
    <3>3. PagesMapped(start_addr, start_addr + 1, page_table)
      BY <1>1, <1>3, NewPageMapped
    <3>4. base + Room(layout) <= (start_addr + 1) * PAGE_SIZE /\ start_addr * PAGE_SIZE <= base
      <4> DEFINE c == base
      <4>1. c \in Nat /\ (start_addr + 1) * PAGE_SIZE = c + PAGE_SIZE /\ c = start_addr * PAGE_SIZE
        BY <2>3, <3>2
      <4> HIDE DEF c
      <4>2. c + Room(layout) <= c + PAGE_SIZE /\ c <= c
        BY <3>1, <4>1
      <4> QED
        BY <4>1, <4>2
    <3> QED
      BY <2>3, <3>1, <3>3, <3>4, InsideMapped
  <2>5. \A b \in live' : b \in live \/ OnMapped(b.ptr, Room(b.layout), page_table)
    BY <1>3, <2>4
  <2>6. BlocksMapped'
    BY <1>1, <2>2, <2>5, BlocksStayMapped DEF BackedInv
  <2> QED
    BY <1>1, <2>6, DoneBacked
<1> QED
  BY <1>2, <1>3 DEF refill_done, Hold

\* The pages of a large block.
LEMMA FallbackDoneBacked ==
  ASSUME HeapInv, SpaceInv, BackedInv, fallback_done
  PROVE  BackedInv'
<1> DEFINE base == start_addr * PAGE_SIZE
<1>1. /\ Allocating /\ num_pages = PagesFor(layout) /\ UNCHANGED <<list_heads, page_table>>
      /\ layout \in Layouts /\ ~IsSmall(layout)
  BY DEF fallback_done, Allocating, SpaceInv, PhaseInv, KeepPages, HeapInv, CallInv
<1>2. CASE pa_pc = "ok" /\ Done /\ live' = live \cup {[ptr |-> base, layout |-> layout]}
  <2>1. base \in Nat /\ start_addr \in Nat /\ num_pages \in Nat
    BY AddressType, LocalsType DEF HeapInv, PageInv
  <2>2. Room(layout) = num_pages * PAGE_SIZE /\ Room(layout) \in Nat
    BY <1>1, RoomFits DEF Room
  <2>3. (start_addr + num_pages) * PAGE_SIZE = base + Room(layout)
    BY <2>1, <2>2, TimesSum, Sizes
  <2>4. OnMapped(base, Room(layout), page_table)
    <3>1. PagesMapped(start_addr, start_addr + num_pages, page_table)
      BY <1>1, <1>2, NewPageMapped
    <3>2. base <= base /\ base + Room(layout) <= base + Room(layout)
      BY <2>1, <2>2
    <3> QED
      BY <2>1, <2>2, <2>3, <3>1, <3>2, InsideMapped
  <2>5. \A b \in live' : b \in live \/ OnMapped(b.ptr, Room(b.layout), page_table)
    BY <1>2, <2>4
  <2>6. BlocksMapped'
    BY <1>1, <2>5, BlocksStayMapped DEF BackedInv
  <2> QED
    BY <1>2, <2>6, DoneBacked
<1>3. CASE Done /\ UNCHANGED live
  BY <1>1, <1>3, BlocksAlone, DoneBacked DEF BackedInv
<1>4. CASE /\ pa_pc' = "panicked" /\ panic' = "LARGE_ALLOCS is full!"
           /\ UNCHANGED <<heap_pc, live>>
  <2>1. BlocksMapped'
    BY <1>1, <1>4, BlocksAlone DEF BackedInv
  <2> QED
    BY <1>1, <1>4, <2>1 DEF BackedInv, MappedSoFar, FreedInv, DeallocSucceeds, Allocating
<1> QED
  BY <1>2, <1>3, <1>4 DEF fallback_done, large_alloc_insert, Hold, Panic
=============================================================================
