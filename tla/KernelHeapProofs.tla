-------------------------- MODULE KernelHeapProofs --------------------------
(***************************************************************************)
(* Theorems about KernelHeap for every number of frames, heap window,      *)
(* block sizes and set of layouts, in a build with overflow checks.        *)
(***************************************************************************)
EXTENDS KernelHeap, TLAPS

-----------------------------------------------------------------------------
(***************************************************************************)
(* Every step of the page allocator preserves PageInv.                     *)
(***************************************************************************)
\* Page numbers do not wrap below ADDR_PAGES.
LEMMA ModSmall ==
  ASSUME NEW a \in Nat, NEW m \in Nat, a < m
  PROVE  a % m = a
OBVIOUS

\* A remainder is below its modulus.
LEMMA ModRange ==
  ASSUME NEW a \in Nat, NEW m \in Nat \ {0}
  PROVE  a % m \in 0 .. m - 1
OBVIOUS

\* The pages of the address space, without the interval.
LEMMA PagesDef == \A page : page \in Pages <=> page \in Nat /\ page < ADDR_PAGES
BY AddressAssumption DEF Pages

\* The assumption on the heap window, without its other parts.
LEMMA Numbers ==
  /\ ADDR_PAGES \in Nat \ {0} /\ START_VIRT \in Nat /\ END_VIRT \in Nat
  /\ START_VIRT <= END_VIRT /\ END_VIRT < ADDR_PAGES
BY AddressAssumption

\* The numbers among the local variables of alloc and dealloc.
LEMMA LocalsType ==
  ASSUME PageTypeOK
  PROVE  /\ current_virt \in Nat /\ current_virt < ADDR_PAGES
         /\ start_addr \in Nat /\ start_addr < ADDR_PAGES
         /\ num_pages \in Nat /\ i \in Nat
<1>1. current_virt \in Pages /\ start_addr \in Pages /\ num_pages \in Nat /\ i \in Nat
  BY DEF PageTypeOK
<1> QED
  BY <1>1, PagesDef

\* The page of the current iteration is a page.
LEMMA PageVirtType ==
  ASSUME PageTypeOK
  PROVE  page_virt \in Pages
<1>1. start_addr + i \in Nat
  BY LocalsType
<1> QED
  BY <1>1, Numbers, ModRange DEF page_virt, Pages

\* The page table that covers a page at a level is a table.
LEMMA TableOfType ==
  ASSUME NEW level \in Levels, NEW page \in Pages
  PROVE  TableOf(level, page) \in Tables
BY DEF Tables

\* While the loop of alloc runs, page i is page start_addr + i of the heap.
LEMMA LoopPage ==
  ASSUME PageInv, pa_pc \in {"frame", "walk"}
  PROVE  /\ page_virt = start_addr + i
         /\ page_virt \in START_VIRT .. END_VIRT - 1
         /\ page_virt \in Pages
         /\ page_table[page_virt] = None
<1>1. /\ START_VIRT <= start_addr /\ start_addr + num_pages <= END_VIRT
      /\ i < num_pages
      /\ \A page \in Pages : page >= start_addr + i => page_table[page] = None
      /\ PageTypeOK
  BY DEF PageInv, LoopInv
<1>2. start_addr + i \in Nat /\ start_addr + i < ADDR_PAGES
  BY <1>1, LocalsType, Numbers
<1>3. page_virt = start_addr + i
  BY <1>2, Numbers, ModSmall DEF page_virt
<1>4. page_virt \in START_VIRT .. END_VIRT - 1
  BY <1>1, <1>3, LocalsType, Numbers
<1>5. page_virt \in Pages
  BY <1>2, <1>3, PagesDef
<1> QED
  BY <1>1, <1>2, <1>3, <1>4, <1>5

\* A step that leaves the bitmap and the page tables alone.
LEMMA MemoryKept ==
  ASSUME FrameOwnership, HeapWindow, ReservedInUse,
         UNCHANGED <<bitmap, page_table, tables>>
  PROVE  /\ FrameOwnership' /\ HeapWindow' /\ ReservedInUse'
         /\ MappedFrames' = MappedFrames /\ TableFrames' = TableFrames
<1>1. MappedFrames' = MappedFrames /\ TableFrames' = TableFrames
  BY DEF MappedFrames, TableFrames
<1> QED
  BY <1>1 DEF FrameOwnership, HeapWindow, ReservedInUse

\* The loop of alloc fails: what it has mapped stays.
LEMMA LoopFails ==
  ASSUME PageInv, pa_pc \in {"frame", "walk"}, Return("err"),
         UNCHANGED <<bitmap, page_table, tables, current_virt,
                     num_pages, start_addr, i, frame>>
  PROVE  PageInv'
<1>1. PageTypeOK'
  BY DEF PageInv, PageTypeOK, Return
<1>2. FrameOwnership' /\ HeapWindow' /\ ReservedInUse'
  BY MemoryKept DEF PageInv
<1>3. current_virt >= start_addr + i
  BY LocalsType DEF PageInv, LoopInv
<1>4. \A page \in Pages : page >= current_virt => page_table[page] = None
  BY <1>3, PagesDef, LocalsType DEF PageInv, LoopInv
<1> QED
  BY <1>1, <1>2, <1>4
  DEF PageInv, LocalFrameInv, LoopInv, BumpInv, Return

-----------------------------------------------------------------------------
\* The entry of alloc preserves the invariant.
LEMMA AllocPreserves ==
  ASSUME PageInv, OVERFLOW_CHECKS, NEW n \in Nat \ {0}, alloc(n)
  PROVE  PageInv'
<1>1. UNCHANGED <<bitmap, page_table, tables, current_virt, frame>>
  BY DEF alloc
<1>2. FrameOwnership' /\ HeapWindow' /\ ReservedInUse'
  BY <1>1, MemoryKept DEF PageInv
<1>3. pa_pc' \in {"err", "frame", "panicked"} /\ panic' \in {panic, "overflow"}
  BY DEF alloc, Panic, Return
<1>4. num_pages' = n /\ start_addr' = current_virt /\ i' = 0
  BY DEF alloc
<1>5. PageTypeOK'
  BY <1>1, <1>3, <1>4 DEF PageInv, PageTypeOK
<1>6. pa_pc' = "frame" => current_virt + n <= END_VIRT
  <2>1. CASE Overflows(current_virt, n)
    BY <2>1 DEF alloc, Panic
  <2>2. CASE ~Overflows(current_virt, n)
    <3>1. current_virt + n \in Nat /\ current_virt + n < ADDR_PAGES
      BY <2>2, LocalsType, Numbers DEF Overflows, PageInv
    <3>2. (current_virt + n) % ADDR_PAGES = current_virt + n
      BY <3>1, Numbers, ModSmall
    <3>3. pa_pc' = IF current_virt + n > END_VIRT THEN "err" ELSE "frame"
      BY <2>2, <3>2 DEF alloc, Return
    <3> QED
      BY <3>1, <3>3, Numbers
  <2> QED
    BY <2>1, <2>2
<1>7. /\ START_VIRT <= current_virt
      /\ \A page \in Pages : page >= current_virt => page_table[page] = None
  BY DEF PageInv, BumpInv, alloc
<1>8. LoopInv'
  BY <1>1, <1>3, <1>4, <1>6, <1>7, LocalsType DEF PageInv, LoopInv
<1> QED
  BY <1>1, <1>2, <1>3, <1>5, <1>7, <1>8 DEF PageInv, LocalFrameInv, BumpInv

\* The loop's allocate_frame preserves the invariant.
LEMMA AllocFramePreserves ==
  ASSUME PageInv, AllocFrame
  PROVE  PageInv'
<1>1. pa_pc = "frame" /\
      UNCHANGED <<page_table, tables, current_virt, num_pages, start_addr, i>>
  BY DEF AllocFrame
<1>2. IsCanonical(page_virt)
  BY <1>1, LoopPage, AddressAssumption DEF IsCanonical
<1>3. CASE NoFreeFrame /\ Return("err") /\ UNCHANGED <<bitmap, frame>>
  BY <1>1, <1>3, LoopFails
<1>4. ASSUME NEW f \in Frames, allocate_frame(f), frame' = f, Return("walk")
      PROVE  PageInv'
  <2>1. f \notin bitmap /\ bitmap' = bitmap \cup {f}
    BY <1>4 DEF allocate_frame, IsFirstFree
  <2>2. MappedFrames' = MappedFrames /\ TableFrames' = TableFrames
    BY <1>1 DEF MappedFrames, TableFrames
  <2>3. MappedFrames \cup TableFrames \subseteq bitmap \ RESERVED
    BY DEF PageInv, FrameOwnership
  <2>4. FrameOwnership' /\ HeapWindow'
    BY <1>1, <2>1, <2>2 DEF PageInv, FrameOwnership, HeapWindow
  <2>5. PageTypeOK'
    BY <1>1, <1>4, <2>1 DEF PageInv, PageTypeOK, Return
  <2>6. f \notin RESERVED
    BY <2>1 DEF PageInv, ReservedInUse
  <2>7. LocalFrameInv'
    BY <1>4, <2>1, <2>2, <2>3, <2>6 DEF LocalFrameInv
  <2> QED
    BY <1>1, <1>4, <2>1, <2>4, <2>5, <2>6, <2>7
    DEF PageInv, LoopInv, BumpInv, Return, ReservedInUse
<1> QED
  BY <1>1, <1>2, <1>3, <1>4 DEF AllocFrame

\* A page table that map_to creates preserves the invariant.
LEMMA MapTablePreserves ==
  ASSUME PageInv, MapTable
  PROVE  PageInv'
<1>1. pa_pc = "walk" /\
      UNCHANGED <<page_table, current_virt, num_pages, start_addr, i, frame>>
  BY DEF MapTable
<1>2. PICK level \in Levels :
        \/ \E f \in Frames :
             /\ allocate_frame(f)
             /\ tables' = [tables EXCEPT ![TableOf(level, page_virt)] = f]
             /\ UNCHANGED <<pa_pc, panic>>
        \/ NoFreeFrame /\ Return("err") /\ UNCHANGED <<bitmap, tables>>
  BY DEF MapTable
<1>3. CASE NoFreeFrame /\ Return("err") /\ UNCHANGED <<bitmap, tables>>
  BY <1>1, <1>3, LoopFails
<1>4. ASSUME NEW f \in Frames, allocate_frame(f), UNCHANGED <<pa_pc, panic>>,
             tables' = [tables EXCEPT ![TableOf(level, page_virt)] = f]
      PROVE  PageInv'
  <2> DEFINE t == TableOf(level, page_virt)
  <2>1. t \in Tables
    BY TableOfType, PageVirtType DEF PageInv
  <2>2. f \notin bitmap /\ bitmap' = bitmap \cup {f} /\ f # None
    BY <1>4, FrameCountAssumption DEF allocate_frame, IsFirstFree, Frames, None
  <2>3. tables \in [Tables -> Frames \cup {None}]
    BY DEF PageInv, PageTypeOK
  <2>4. tables' = [tables EXCEPT ![t] = f]
    BY <1>4
  <2>5. /\ MappedFrames' = MappedFrames
        /\ TableFrames' \subseteq TableFrames \cup {f}
    BY <1>1, <2>1, <2>3, <2>4 DEF MappedFrames, TableFrames
  <2>6. /\ MappedFrames \cup TableFrames \subseteq bitmap \ RESERVED
        /\ MappedFrames \cap TableFrames = {}
        /\ RESERVED \subseteq bitmap
    BY DEF PageInv, FrameOwnership, Disjoint, ReservedInUse
  <2>7. PageTypeOK'
    BY <1>1, <1>4, <2>1, <2>2, <2>3, <2>4 DEF PageInv, PageTypeOK
  <2>8. FrameOwnership'
    <3>1. ASSUME NEW u \in Tables, NEW v \in Tables,
                 tables'[u] # None, tables'[u] = tables'[v]
          PROVE  u = v
      <4>1. \A w \in Tables : w # t => tables'[w] = tables[w]
        BY <2>3, <2>4
      <4>2. \A w \in Tables : tables[w] # f
        BY <2>2, <2>6 DEF TableFrames
      <4>3. tables'[t] = f
        BY <2>1, <2>3, <2>4
      <4> QED
        BY <3>1, <4>1, <4>2, <4>3 DEF PageInv, FrameOwnership
    <3>2. \A p, q \in Pages :
            page_table'[p] # None /\ page_table'[p] = page_table'[q] => p = q
      BY <1>1 DEF PageInv, FrameOwnership
    <3>3. Disjoint(MappedFrames, TableFrames)'
      BY <2>2, <2>5, <2>6 DEF Disjoint
    <3>4. (MappedFrames \cup TableFrames \subseteq bitmap \ RESERVED)'
      BY <2>2, <2>5, <2>6
    <3> QED
      BY <3>1, <3>2, <3>3, <3>4 DEF FrameOwnership
  <2>9. LocalFrameInv'
    BY <1>1, <1>4, <2>2, <2>5 DEF PageInv, LocalFrameInv
  <2> QED
    BY <1>1, <1>4, <2>2, <2>6, <2>7, <2>8, <2>9
    DEF PageInv, HeapWindow, ReservedInUse, LoopInv, BumpInv
<1> QED
  BY <1>2, <1>3, <1>4

\* The mapping of a page, with the advance of current_virt, preserves the invariant.
LEMMA MapPagePreserves ==
  ASSUME PageInv, OVERFLOW_CHECKS, MapPage
  PROVE  PageInv'
<1> DEFINE page == page_virt
<1>1. pa_pc = "walk" /\ UNCHANGED <<bitmap, tables, num_pages, start_addr, frame>>
  BY DEF MapPage
<1>2. /\ page = start_addr + i
      /\ page \in START_VIRT .. END_VIRT - 1
      /\ page \in Pages
      /\ page_table[page] = None
  BY <1>1, LoopPage
<1>3. page_table' = [page_table EXCEPT ![page] = frame]
  BY <1>2 DEF MapPage
<1>4. page_table \in [Pages -> Frames \cup {None}]
  BY DEF PageInv, PageTypeOK
<1>5. /\ frame \in bitmap \ (RESERVED \cup MappedFrames \cup TableFrames)
      /\ frame \in Frames
  BY <1>1 DEF PageInv, LocalFrameInv, PageTypeOK
<1>6. frame # None
  BY <1>5, FrameCountAssumption DEF Frames, None
<1>7. page_table'[page] = frame /\
      \A q \in Pages : q # page => page_table'[q] = page_table[q]
  BY <1>2, <1>3, <1>4
<1>8. /\ MappedFrames' \subseteq MappedFrames \cup {frame}
      /\ TableFrames' = TableFrames
  BY <1>1, <1>7 DEF MappedFrames, TableFrames
<1>9. FrameOwnership'
  <2>1. ASSUME NEW p \in Pages, NEW q \in Pages,
               page_table'[p] # None, page_table'[p] = page_table'[q]
        PROVE  p = q
    <3>1. \A r \in Pages : page_table[r] # frame
      BY <1>5, <1>6 DEF MappedFrames
    <3> QED
      BY <1>7, <2>1, <3>1 DEF PageInv, FrameOwnership
  <2> QED
    BY <1>1, <1>5, <1>8, <2>1 DEF PageInv, FrameOwnership, Disjoint
<1>10. HeapWindow' /\ ReservedInUse'
  BY <1>1, <1>2, <1>7 DEF PageInv, HeapWindow, ReservedInUse
<1>11. /\ START_VIRT <= start_addr /\ start_addr + num_pages <= END_VIRT
       /\ i < num_pages /\ i \in Nat /\ num_pages \in Nat
       /\ i = 0 => current_virt = start_addr
       /\ i # 0 => current_virt >= start_addr + num_pages
       /\ current_virt \in Nat /\ start_addr \in Nat
  BY <1>1, LocalsType DEF PageInv, LoopInv
<1>12. \A q \in Pages : q >= start_addr + i + 1 => page_table'[q] = None
  BY <1>1, <1>2, <1>7, <1>11, PagesDef DEF PageInv, LoopInv
<1>13. CASE Overflows(current_virt, num_pages)
  <2>1. pa_pc' = "panicked" /\ panic' = "overflow" /\ UNCHANGED <<current_virt, i>>
    BY <1>2, <1>13 DEF MapPage, Panic
  <2>2. PageTypeOK'
    BY <1>1, <1>3, <1>4, <1>5, <2>1 DEF PageInv, PageTypeOK
  <2>3. i # 0
    BY <1>11, <1>13, Numbers DEF Overflows
  <2>4. \A q \in Pages : q >= current_virt => page_table'[q] = None
    BY <1>11, <1>12, <2>3, PagesDef
  <2> QED
    BY <1>9, <1>10, <2>1, <2>2, <2>4
    DEF PageInv, LocalFrameInv, LoopInv, BumpInv
<1>14. CASE ~Overflows(current_virt, num_pages)
  <2>1. current_virt + num_pages \in Nat /\ current_virt + num_pages < ADDR_PAGES
    BY <1>11, <1>14, Numbers DEF Overflows
  <2>2. (current_virt + num_pages) % ADDR_PAGES = current_virt + num_pages
    BY <2>1, Numbers, ModSmall
  <2>3. /\ current_virt' = current_virt + num_pages
        /\ i' = i + 1
        /\ pa_pc' = IF i + 1 = num_pages THEN "ok" ELSE "frame"
        /\ panic' = panic
    BY <1>2, <1>14, <2>2 DEF MapPage, Return
  <2>4. PageTypeOK'
    <3>1. current_virt' \in Pages /\ i' \in Nat
      BY <1>11, <2>1, <2>3, PagesDef
    <3> QED
      BY <1>1, <1>3, <1>4, <1>5, <2>3, <3>1 DEF PageInv, PageTypeOK
  <2>5. /\ current_virt' >= start_addr + num_pages
        /\ START_VIRT <= current_virt'
    BY <1>11, <2>3, Numbers
  <2>6. \A q \in Pages : q >= current_virt' => page_table'[q] = None
    BY <1>11, <1>12, <2>3, <2>5, PagesDef
  <2>7. LoopInv'
    BY <1>1, <1>11, <1>12, <2>3, <2>5 DEF LoopInv
  <2>8. BumpInv'
    BY <2>5, <2>6 DEF BumpInv
  <2> QED
    BY <1>9, <1>10, <2>3, <2>4, <2>7, <2>8 DEF PageInv, LocalFrameInv
<1> QED
  BY <1>13, <1>14

\* The entry of dealloc preserves the invariant.
LEMMA DeallocPreserves ==
  ASSUME PageInv, NEW addr \in Pages, NEW n \in Nat, dealloc(addr, n)
  PROVE  PageInv'
<1>1. /\ pa_pc = "idle" /\ pa_pc' = "unmap"
      /\ num_pages' = n /\ start_addr' = addr /\ i' = 0
      /\ UNCHANGED <<bitmap, page_table, tables, current_virt, panic, frame>>
  BY DEF dealloc
<1>2. PageTypeOK'
  BY <1>1 DEF PageInv, PageTypeOK
<1>3. FrameOwnership' /\ HeapWindow' /\ ReservedInUse'
  BY <1>1, MemoryKept DEF PageInv
<1> QED
  BY <1>1, <1>2, <1>3 DEF PageInv, LocalFrameInv, LoopInv, BumpInv

\* An iteration of dealloc's loop preserves the invariant.
LEMMA UnmapPagePreserves ==
  ASSUME PageInv, UnmapPage
  PROVE  PageInv'
<1> DEFINE page == page_virt
           f == page_table[page]
<1>1. pa_pc = "unmap" /\
      UNCHANGED <<tables, current_virt, num_pages, start_addr, frame>>
  BY DEF UnmapPage
<1>2. page \in Pages /\ page_table \in [Pages -> Frames \cup {None}]
  BY PageVirtType DEF PageInv, PageTypeOK
<1>3. CASE f = None
  <2>1. pa_pc' = "panicked" /\ panic' = "dealloc failed" /\
        UNCHANGED <<bitmap, page_table, i>>
    BY <1>3 DEF UnmapPage, Panic
  <2>2. PageTypeOK'
    BY <1>1, <2>1 DEF PageInv, PageTypeOK
  <2>3. FrameOwnership' /\ HeapWindow' /\ ReservedInUse'
    BY <1>1, <2>1, MemoryKept DEF PageInv
  <2> QED
    BY <1>1, <2>1, <2>2, <2>3 DEF PageInv, LocalFrameInv, LoopInv, BumpInv
<1>4. CASE f # None
  <2>1. f \in Frames /\ frame_as_index(f) = f
    BY <1>2, <1>4 DEF frame_as_index
  <2>2. /\ page_table' = [page_table EXCEPT ![page] = None]
        /\ bitmap' = bitmap \ {f}
        /\ i' = i + 1
        /\ pa_pc' = IF i + 1 = num_pages THEN "ok" ELSE "unmap"
        /\ panic' = panic
    BY <1>4, <2>1 DEF UnmapPage, deallocate_frame, Return
  <2>3. page_table'[page] = None /\
        \A q \in Pages : q # page => page_table'[q] = page_table[q]
    BY <1>2, <2>2
  <2>4. PageTypeOK'
    <3>1. page_table' \in [Pages -> Frames \cup {None}]
      BY <1>2, <2>2
    <3>2. bitmap \subseteq Frames /\ i \in Nat
      BY DEF PageInv, PageTypeOK
    <3>3. bitmap' \subseteq Frames /\ i' \in Nat
      BY <2>2, <3>2
    <3> QED
      BY <1>1, <2>2, <3>1, <3>3 DEF PageInv, PageTypeOK
  <2>5. MappedFrames' \subseteq MappedFrames \ {f}
    BY <1>2, <1>4, <2>3 DEF MappedFrames, PageInv, FrameOwnership
  <2>6. TableFrames' = TableFrames
    BY <1>1 DEF TableFrames
  <2>7. f \in MappedFrames
    BY <1>2, <1>4 DEF MappedFrames
  <2>8. FrameOwnership'
    <3>1. \A p, q \in Pages :
            page_table'[p] # None /\ page_table'[p] = page_table'[q] => p = q
      BY <2>3 DEF PageInv, FrameOwnership
    <3> QED
      BY <1>1, <2>2, <2>5, <2>6, <2>7, <3>1 DEF PageInv, FrameOwnership, Disjoint
  <2>9. HeapWindow' /\ ReservedInUse'
    <3>1. \A q \in Pages : page_table'[q] # None => page_table[q] # None
      BY <2>3
    <3>2. HeapWindow'
      BY <3>1 DEF PageInv, HeapWindow
    <3> QED
      BY <2>2, <2>7, <3>2 DEF PageInv, ReservedInUse, FrameOwnership
  <2>10. BumpInv'
    BY <1>1, <1>2, <2>2, <2>3 DEF PageInv, BumpInv
  <2> QED
    BY <2>2, <2>4, <2>8, <2>9, <2>10 DEF PageInv, LocalFrameInv, LoopInv
<1> QED
  BY <1>3, <1>4

\* Together: a step of a call in progress.
LEMMA PaStepPreserves ==
  ASSUME PageInv, OVERFLOW_CHECKS, PaStep
  PROVE  PageInv'
BY AllocFramePreserves, MapTablePreserves, MapPagePreserves, UnmapPagePreserves
DEF PaStep

\* Between two calls: the caller has the result, or makes the next call.
LEMMA ReturnPreserves ==
  ASSUME PageInv, pa_pc \notin {"frame", "walk"},
         pa_pc' \in {"idle", "panicked"},
         panic' \in {panic, "LARGE_ALLOCS is full!"},
         num_pages' \in Nat, start_addr' \in Pages, i' \in Nat,
         frame' \in Frames \cup {None},
         UNCHANGED <<bitmap, page_table, tables, current_virt>>
  PROVE  PageInv'
<1>1. PageTypeOK'
  BY DEF PageInv, PageTypeOK
<1>2. FrameOwnership' /\ HeapWindow' /\ ReservedInUse'
  BY MemoryKept DEF PageInv
<1> QED
  BY <1>1, <1>2 DEF PageInv, LocalFrameInv, LoopInv, BumpInv

\* The state that init_page_allocator makes satisfies the invariant.
LEMMA PaInitInv ==
  ASSUME PaInit
  PROVE  PageInv
<1>1. START_VIRT \in Pages /\ 0 \in Pages
  BY Numbers, PagesDef
<1>2. PageTypeOK
  BY <1>1, ReservedAssumption DEF PaInit, PageTypeOK
<1>3. /\ \A page \in Pages : page_table[page] = None
      /\ \A t \in Tables : tables[t] = None
  BY DEF PaInit
<1>4. MappedFrames = {} /\ TableFrames = {}
  BY <1>3 DEF MappedFrames, TableFrames
<1>5. FrameOwnership /\ HeapWindow /\ ReservedInUse
  BY <1>3, <1>4 DEF FrameOwnership, HeapWindow, ReservedInUse, Disjoint, PaInit
<1> QED
  BY <1>2, <1>3, <1>5, Numbers
  DEF PageInv, LocalFrameInv, LoopInv, BumpInv, PaInit

-----------------------------------------------------------------------------
(***************************************************************************)
(* The heap.                                                               *)
(***************************************************************************)
LOCAL INSTANCE WellFoundedInduction

\* The elements of a sequence over S are in S.
LEMMA InSeq ==
  ASSUME NEW S, NEW s \in Seq(S), NEW j \in 1 .. Len(s)
  PROVE  s[j] \in S
OBVIOUS

\* A set of numbers that is not empty has a least element.
LEMMA LeastElement ==
  ASSUME NEW S \in SUBSET Nat, S # {}
  PROVE  \E k \in S : \A j \in S : k <= j
<1> DEFINE R == OpToRel(<, Nat)
<1>1. PICK k \in S : \A j \in S : <<j, k>> \notin R
  BY NatLessThanWellFounded, WFMin
<1>2. \A j \in S : ~(j < k)
  BY <1>1, Zenon DEF OpToRel
<1> QED
  BY <1>2

\* list_index returns a size class or None.
LEMMA ListIndexType ==
  ASSUME NEW l
  PROVE  list_index(l) \in Classes \cup {None}
<1> DEFINE fits == {k \in Classes : BLOCK_SIZES[k] >= required_block_size(l)}
<1>1. CASE fits = {}
  BY <1>1 DEF list_index
<1>2. CASE fits # {}
  <2>1. fits \in SUBSET Nat
    BY HeapAssumption DEF Classes
  <2>2. \E k \in fits : \A j \in fits : k <= j
    BY <1>2, <2>1, LeastElement, Zenon
  <2>3. list_index(l) = CHOOSE k \in fits : \A j \in fits : k <= j
    BY <1>2 DEF list_index
  <2> HIDE DEF fits
  <2>4. list_index(l) \in fits
    BY <2>2, <2>3
  <2> QED
    BY <2>4 DEF fits
<1> QED
  BY <1>1, <1>2

\* A small layout has a size class.
LEMMA SmallIndex ==
  ASSUME NEW l, IsSmall(l)
  PROVE  list_index(l) \in Classes
BY ListIndexType DEF IsSmall

\* There is a first size class: BLOCK_SIZES is not empty.
LEMMA ClassOne == 1 \in Classes
BY HeapAssumption DEF Classes

\* A large request asks for at least one page.
LEMMA PagesForType ==
  ASSUME NEW l \in Layouts
  PROVE  PagesFor(l) \in Nat \ {0}
<1>1. l.size \in Nat \ {0} /\ l.align \in Nat \ {0}
  BY HeapAssumption
<1>2. required_block_size(l) \in Nat \ {0}
  BY <1>1 DEF required_block_size, Max2
<1>3. ASSUME NEW r \in Nat \ {0}, NEW p \in Nat \ {0}
      PROVE  (r + p - 1) \div p \in Nat \ {0}
  BY <1>3
<1> QED
  BY <1>2, <1>3, HeapAssumption DEF PagesFor

\* The blocks of a page are at natural addresses.
LEMMA CarveType ==
  ASSUME NEW page \in Nat, NEW index \in Classes, NEW skip \in Nat,
         NEW list \in Seq(Nat)
  PROVE  Carve(page, index, skip, list) \in Seq(Nat)
<1> DEFINE size == BLOCK_SIZES[index]
           num == PAGE_SIZE \div size
           new == [k \in 1 .. num - skip |-> page * PAGE_SIZE + (num - k) * size]
<1>1. size \in Nat \ {0} /\ PAGE_SIZE \in Nat
  BY HeapAssumption DEF Classes
<1>2. num \in Nat
  <2>1. ASSUME NEW a \in Nat, NEW b \in Nat \ {0} PROVE a \div b \in Nat
    BY <2>1
  <2> QED
    BY <1>1, <2>1
<1> HIDE DEF size, num
<1>3. ASSUME NEW k \in 1 .. num - skip
      PROVE  page * PAGE_SIZE + (num - k) * size \in Nat
  BY <1>1, <1>2, <1>3
<1>4. new \in Seq(Nat)
  <2>1. CASE num - skip \in Nat
    <3>1. new \in [1 .. num - skip -> Nat]
      BY <1>3
    <3> DEFINE m == num - skip
    <3>2. m \in Nat /\ new \in [1 .. m -> Nat]
      BY <2>1, <3>1, Zenon
    <3> HIDE DEF new, m
    <3> QED
      BY <3>2
  <2>2. CASE num - skip \notin Nat
    <3>1. 1 .. num - skip = {}
      BY <1>2, <2>2
    <3>2. new \in [1 .. num - skip -> Nat]
      BY <1>3
    <3>3. 1 .. num - skip = 1 .. 0
      BY <3>1
    <3>4. new \in [1 .. 0 -> Nat]
      BY <3>2, <3>3
    <3> HIDE DEF new
    <3> QED
      BY <3>4
  <2> QED
    BY <2>1, <2>2
<1> QED
  BY <1>4 DEF Carve, size, num

-----------------------------------------------------------------------------
(***************************************************************************)
(* HeapInv is inductive.                                                   *)
(***************************************************************************)
LEMMA InitInv ==
  ASSUME Init
  PROVE  HeapInv
<1>1. PageInv
  BY PaInitInv DEF Init
<1>2. TypeOK
  <2>1. PageTypeOK
    BY <1>1 DEF PageInv
  <2>2. LARGE_ALLOCS \in Seq([addr : Pages, num_pages : Nat]) /\ Len(LARGE_ALLOCS) = 0
    BY DEF Init
  <2>3. /\ list_heads \in [Classes -> Seq(Nat)]
        /\ list_lengths \in [Classes -> 0 .. MAX_LIST_LENGTH]
    BY HeapAssumption DEF Init
  <2> QED
    BY <2>1, <2>2, <2>3, HeapAssumption DEF Init, TypeOK
<1> QED
  BY <1>1, <1>2 DEF HeapInv, CallInv, FailsOnlyWhenExhausted, Init, PaInit

\* A call of PageAllocator::alloc: it fails at once only for want of addresses.
LEMMA AllocCall ==
  ASSUME HeapInv, OVERFLOW_CHECKS, NEW n \in Nat \ {0}, alloc(n)
  PROVE  PageInv' /\ FailsOnlyWhenExhausted'
<1>1. PageInv'
  BY AllocPreserves DEF HeapInv
<1>2. current_virt \in Nat /\ UNCHANGED current_virt /\ num_pages' = n
  BY LocalsType DEF HeapInv, PageInv, alloc
<1>3. ASSUME pa_pc' = "err" PROVE current_virt + n > END_VIRT
  <2>1. ~Overflows(current_virt, n)
    BY <1>3 DEF alloc, Panic
  <2>2. current_virt + n \in Nat /\ current_virt + n < ADDR_PAGES
    BY <1>2, <2>1, Numbers DEF Overflows
  <2>3. (current_virt + n) % ADDR_PAGES = current_virt + n
    BY <2>2, Numbers, ModSmall
  <2>4. pa_pc' = IF current_virt + n > END_VIRT THEN "err" ELSE "frame"
    BY <2>1, <2>3 DEF alloc, Return
  <2> QED
    BY <1>3, <2>4
<1> QED
  BY <1>1, <1>2, <1>3 DEF FailsOnlyWhenExhausted

\* init's call of the page allocator preserves the invariant.
LEMMA initPreserves ==
  ASSUME HeapInv, OVERFLOW_CHECKS, init
  PROVE  HeapInv'
<1>1. PageInv' /\ FailsOnlyWhenExhausted'
  BY AllocCall DEF init
<1>2. TypeOK'
  BY <1>1 DEF HeapInv, TypeOK, PageInv, init, KeepCall
<1> QED
  BY <1>1, <1>2 DEF HeapInv, CallInv, init

\* refill_free_list's call of the page allocator preserves the invariant.
LEMMA RefillCallPreserves ==
  ASSUME HeapInv, OVERFLOW_CHECKS, NEW l \in Layouts, refill_free_list(l)
  PROVE  HeapInv'
<1>1. PageInv' /\ FailsOnlyWhenExhausted'
  BY AllocCall DEF refill_free_list
<1>2. TypeOK'
  BY <1>1 DEF HeapInv, TypeOK, PageInv, refill_free_list
<1>3. CallInv'
  BY DEF CallInv, refill_free_list, IsSmall, list_index, required_block_size
<1> QED
  BY <1>1, <1>2, <1>3 DEF HeapInv

\* fallback_alloc's call of the page allocator preserves the invariant.
LEMMA FallbackCallPreserves ==
  ASSUME HeapInv, OVERFLOW_CHECKS, NEW l \in Layouts, fallback_alloc(l)
  PROVE  HeapInv'
<1>1. PageInv' /\ FailsOnlyWhenExhausted'
  BY AllocCall, PagesForType DEF fallback_alloc
<1>2. TypeOK'
  BY <1>1 DEF HeapInv, TypeOK, PageInv, fallback_alloc
<1> QED
  BY <1>1, <1>2 DEF HeapInv, CallInv, fallback_alloc

\* A call that returns leaves the pages as they are.
LEMMA DoneKeepsPages ==
  ASSUME HeapInv, Done, KeepPages, pa_pc \in {"idle", "ok", "err"}
  PROVE  PageInv' /\ FailsOnlyWhenExhausted' /\ CallInv'
<1>1. 0 \in Pages
  BY Numbers, PagesDef
<1>2. PageInv'
  BY <1>1, ReturnPreserves DEF HeapInv, Done, KeepPages
<1> QED
  BY <1>2 DEF Done, FailsOnlyWhenExhausted, CallInv

\* A list of free blocks grows by the blocks of a page.
LEMMA CarvedListType ==
  ASSUME HeapInv, NEW index \in Classes, NEW skip \in Nat,
         list_heads' = [list_heads EXCEPT
                          ![index] = Carve(start_addr, index, skip, @)]
  PROVE  list_heads' \in [Classes -> Seq(Nat)]
<1>1. list_heads \in [Classes -> Seq(Nat)] /\ start_addr \in Nat
  BY LocalsType DEF HeapInv, TypeOK, PageInv
<1>2. Carve(start_addr, index, skip, list_heads[index]) \in Seq(Nat)
  BY <1>1, CarveType
<1> QED
  BY <1>1, <1>2

\* An address of the heap, in units.
LEMMA AddressType ==
  ASSUME HeapInv
  PROVE  start_addr * PAGE_SIZE \in Nat
<1>1. start_addr \in Nat /\ PAGE_SIZE \in Nat
  BY LocalsType, HeapAssumption DEF HeapInv, PageInv
<1> QED
  BY <1>1

\* The end of init, which carves the blocks, preserves the invariant.
LEMMA InitDonePreserves ==
  ASSUME HeapInv, init_done
  PROVE  HeapInv'
<1>1. PageInv' /\ FailsOnlyWhenExhausted' /\ CallInv'
  BY DoneKeepsPages DEF init_done
<1>2. list_heads' \in [Classes -> Seq(Nat)]
  BY ClassOne, CarvedListType, Zenon DEF init_done, HeapInv, TypeOK
<1>3. TypeOK'
  BY <1>1, <1>2 DEF HeapInv, TypeOK, PageInv, init_done, Done
<1> QED
  BY <1>1, <1>3 DEF HeapInv

\* The end of refill_free_list, with a block or without, preserves the invariant.
LEMMA RefillDonePreserves ==
  ASSUME HeapInv, refill_done
  PROVE  HeapInv'
<1>1. PageInv' /\ FailsOnlyWhenExhausted' /\ CallInv'
  BY DoneKeepsPages DEF refill_done
<1>2. layout \in Layouts /\ list_index(layout) \in Classes
  BY SmallIndex DEF HeapInv, CallInv, refill_done
<1>3. list_heads' \in [Classes -> Seq(Nat)]
  BY <1>2, CarvedListType, Zenon DEF refill_done, HeapInv, TypeOK
<1>4. live' \subseteq [ptr : Nat, layout : Layouts]
  BY <1>2, AddressType DEF refill_done, Hold, HeapInv, TypeOK
<1>5. TypeOK'
  BY <1>1, <1>3, <1>4 DEF HeapInv, TypeOK, PageInv, refill_done, Done
<1> QED
  BY <1>1, <1>5 DEF HeapInv

\* The end of fallback_alloc, with large_alloc_insert, preserves the invariant.
LEMMA FallbackDonePreserves ==
  ASSUME HeapInv, fallback_done
  PROVE  HeapInv'
<1> DEFINE Entries == [addr : Pages, num_pages : Nat]
<1>1. /\ LARGE_ALLOCS \in Seq(Entries) /\ Len(LARGE_ALLOCS) <= MAX_LARGE_ALLOCS
      /\ live \subseteq [ptr : Nat, layout : Layouts]
      /\ layout \in Layouts /\ start_addr \in Pages /\ num_pages \in Nat
  BY DEF HeapInv, TypeOK, PageTypeOK, CallInv, fallback_done
<1>2. KeepPages /\ UNCHANGED <<list_heads, list_lengths>>
  BY DEF fallback_done
<1>3. CASE Done /\ UNCHANGED <<LARGE_ALLOCS, live>> /\ pa_pc \in {"ok", "err"}
  <2>1. PageInv' /\ FailsOnlyWhenExhausted' /\ CallInv'
    BY <1>2, <1>3, DoneKeepsPages
  <2> QED
    BY <1>2, <1>3, <2>1 DEF HeapInv, TypeOK, PageInv, Done
<1>4. CASE pa_pc = "ok" /\ Len(LARGE_ALLOCS) < MAX_LARGE_ALLOCS /\
           large_alloc_insert(start_addr, num_pages)
  <2> DEFINE e == [addr |-> start_addr, num_pages |-> num_pages]
  <2>1. Done /\ LARGE_ALLOCS' = Append(LARGE_ALLOCS, e) /\
        live' = live \cup {[ptr |-> start_addr * PAGE_SIZE, layout |-> layout]}
    BY <1>4 DEF large_alloc_insert, Hold
  <2>2. PageInv' /\ FailsOnlyWhenExhausted' /\ CallInv'
    BY <1>2, <1>4, <2>1, DoneKeepsPages
  <2>3. /\ LARGE_ALLOCS' \in Seq(Entries)
        /\ Len(LARGE_ALLOCS') <= MAX_LARGE_ALLOCS
    BY <1>1, <1>4, <2>1, HeapAssumption
  <2>4. live' \subseteq [ptr : Nat, layout : Layouts]
    BY <1>1, <2>1, AddressType
  <2> QED
    BY <1>2, <2>1, <2>2, <2>3, <2>4 DEF HeapInv, TypeOK, PageInv, Done
<1>5. CASE pa_pc = "ok" /\ ~(Len(LARGE_ALLOCS) < MAX_LARGE_ALLOCS) /\
           large_alloc_insert(start_addr, num_pages)
  <2>1. /\ pa_pc' = "panicked" /\ panic' = "LARGE_ALLOCS is full!"
        /\ UNCHANGED <<LARGE_ALLOCS, live, heap_pc, layout, ptr, slot,
                       num_pages, start_addr, i, frame>>
    BY <1>5 DEF large_alloc_insert, Panic
  <2>2. PageInv'
    <3>1. /\ num_pages \in Nat /\ start_addr \in Pages /\ i \in Nat
          /\ frame \in Frames \cup {None}
      BY DEF HeapInv, PageInv, PageTypeOK
    <3> QED
      BY <1>2, <1>5, <2>1, <3>1, ReturnPreserves DEF HeapInv, KeepPages
  <2> QED
    BY <1>2, <1>5, <2>1, <2>2
    DEF HeapInv, TypeOK, PageInv, CallInv, FailsOnlyWhenExhausted, IsSmall,
        list_index
<1> QED
  BY <1>3, <1>4, <1>5 DEF fallback_done

\* The steps that leave the page allocator alone.
LEMMA PagesAlone ==
  ASSUME HeapInv, UNCHANGED pa_vars
  PROVE  PageInv' /\ FailsOnlyWhenExhausted'
<1>1. FrameOwnership' /\ HeapWindow' /\ ReservedInUse'
  BY MemoryKept DEF HeapInv, PageInv, pa_vars
<1>2. MappedFrames' = MappedFrames /\ TableFrames' = TableFrames
  BY DEF MappedFrames, TableFrames, pa_vars
<1>3. PageTypeOK' /\ LocalFrameInv' /\ LoopInv' /\ BumpInv'
  BY <1>2 DEF HeapInv, PageInv, pa_vars, PageTypeOK, LocalFrameInv, LoopInv, BumpInv
<1> QED
  BY <1>1, <1>3 DEF HeapInv, PageInv, pa_vars, FailsOnlyWhenExhausted, NoFreeFrame

\* An alloc that pops a block from its list preserves the invariant.
LEMMA AllocPopPreserves ==
  ASSUME HeapInv, NEW l \in Layouts, alloc_pop(l)
  PROVE  HeapInv'
<1>1. PageInv' /\ FailsOnlyWhenExhausted'
  BY PagesAlone DEF alloc_pop
<1> DEFINE index == list_index(l)
<1>2. index \in Classes /\ list_heads \in [Classes -> Seq(Nat)]
  BY SmallIndex DEF alloc_pop, HeapInv, TypeOK
<1> HIDE DEF index
<1>3. /\ list_heads[index] # << >>
      /\ live' = live \cup {[ptr |-> Head(list_heads[index]), layout |-> l]}
      /\ list_heads' = [list_heads EXCEPT ![index] = Tail(@)]
  BY DEF alloc_pop, index, Hold
<1>4. Head(list_heads[index]) \in Nat /\ Tail(list_heads[index]) \in Seq(Nat)
  BY <1>2, <1>3
<1>5. /\ list_heads' \in [Classes -> Seq(Nat)]
      /\ live' \subseteq [ptr : Nat, layout : Layouts]
  BY <1>2, <1>3, <1>4 DEF HeapInv, TypeOK
<1>6. UNCHANGED <<list_lengths, LARGE_ALLOCS, heap_pc, layout, ptr, slot>>
  BY DEF alloc_pop, KeepCall
<1>7. TypeOK'
  BY <1>1, <1>5, <1>6 DEF HeapInv, TypeOK, PageInv
<1> QED
  BY <1>1, <1>6, <1>7 DEF HeapInv, CallInv, alloc_pop

\* A dealloc of a small block, which is pushed or leaked, preserves the invariant.
LEMMA DeallocSmallPreserves ==
  ASSUME HeapInv, NEW b \in live, dealloc_small(b)
  PROVE  HeapInv'
<1>1. PageInv' /\ FailsOnlyWhenExhausted'
  BY PagesAlone DEF dealloc_small
<1> DEFINE index == list_index(b.layout)
<1>2. /\ index \in Classes
      /\ list_heads \in [Classes -> Seq(Nat)]
      /\ list_lengths \in [Classes -> 0 .. MAX_LIST_LENGTH]
      /\ b.ptr \in Nat
      /\ live' \subseteq [ptr : Nat, layout : Layouts]
  BY SmallIndex DEF dealloc_small, HeapInv, TypeOK
<1> HIDE DEF index
<1>4. /\ list_heads' \in [Classes -> Seq(Nat)]
      /\ list_lengths' \in [Classes -> 0 .. MAX_LIST_LENGTH]
  <2>1. CASE AtCapacity(index)
    BY <1>2, <2>1 DEF dealloc_small, index
  <2>2. CASE ~AtCapacity(index)
    <3>1. /\ list_heads' = [list_heads EXCEPT ![index] = <<b.ptr>> \o @]
          /\ list_lengths' = [list_lengths EXCEPT ![index] = @ + 1]
      BY <2>2 DEF dealloc_small, index
    <3>2. <<b.ptr>> \o list_heads[index] \in Seq(Nat)
      BY <1>2
    <3>3. list_lengths[index] + 1 \in 0 .. MAX_LIST_LENGTH
      BY <1>2, <2>2, HeapAssumption DEF AtCapacity
    <3> QED
      BY <1>2, <3>1, <3>2, <3>3
  <2> QED
    BY <2>1, <2>2
<1>5. UNCHANGED <<LARGE_ALLOCS, heap_pc, layout, ptr, slot>>
  BY DEF dealloc_small, KeepCall
<1>6. TypeOK'
  BY <1>1, <1>2, <1>4, <1>5 DEF HeapInv, TypeOK, PageInv
<1> QED
  BY <1>1, <1>5, <1>6 DEF HeapInv, CallInv, dealloc_small

\* The start of the scan of LARGE_ALLOCS preserves the invariant.
LEMMA DeallocLargePreserves ==
  ASSUME HeapInv, NEW b \in live, dealloc_large(b)
  PROVE  HeapInv'
<1>1. PageInv' /\ FailsOnlyWhenExhausted'
  BY PagesAlone DEF dealloc_large
<1>2. TypeOK'
  BY <1>1 DEF HeapInv, TypeOK, PageInv, dealloc_large
<1> QED
  BY <1>1, <1>2 DEF HeapInv, CallInv, dealloc_large

\* A slot that matches, whose pages are unmapped, preserves the invariant.
LEMMA DeallocMatchPreserves ==
  ASSUME HeapInv, dealloc_match
  PROVE  HeapInv'
<1>1. PICK k \in slot .. Len(LARGE_ALLOCS) :
        /\ dealloc(LARGE_ALLOCS[k].addr, LARGE_ALLOCS[k].num_pages)
        /\ slot' = k + 1
  BY DEF dealloc_match
<1>2. LARGE_ALLOCS \in Seq([addr : Pages, num_pages : Nat]) /\ slot \in Nat
  BY DEF HeapInv, TypeOK
<1>3. slot # 0
  BY DEF HeapInv, CallInv, dealloc_match
<1>4. k \in 1 .. Len(LARGE_ALLOCS) /\ slot' \in Nat /\ slot' # 0
  BY <1>1, <1>2, <1>3
<1>5. LARGE_ALLOCS[k].addr \in Pages /\ LARGE_ALLOCS[k].num_pages \in Nat
  <2>1. LARGE_ALLOCS[k] \in [addr : Pages, num_pages : Nat]
    BY <1>2, <1>4, InSeq, Zenon
  <2> QED
    BY <2>1
<1>6. PageInv'
  BY <1>1, <1>5, DeallocPreserves DEF HeapInv
<1>7. FailsOnlyWhenExhausted'
  BY <1>1 DEF dealloc, FailsOnlyWhenExhausted
<1>8. TypeOK'
  BY <1>4, <1>6 DEF HeapInv, TypeOK, PageInv, dealloc_match
<1> QED
  BY <1>4, <1>6, <1>7, <1>8 DEF HeapInv, CallInv, dealloc_match

\* A slot that does not match preserves the invariant.
LEMMA DeallocNextPreserves ==
  ASSUME HeapInv, dealloc_next
  PROVE  HeapInv'
<1>1. /\ num_pages \in Nat /\ start_addr \in Pages /\ i \in Nat
      /\ frame \in Frames \cup {None}
  BY DEF HeapInv, PageInv, PageTypeOK
<1>2. PageInv'
  BY <1>1, ReturnPreserves DEF HeapInv, dealloc_next, Return, KeepPages
<1> QED
  BY <1>2
  DEF HeapInv, TypeOK, PageInv, CallInv, dealloc_next, heap_vars,
      FailsOnlyWhenExhausted, Return

\* The end of a dealloc preserves the invariant.
LEMMA DeallocDonePreserves ==
  ASSUME HeapInv, dealloc_done
  PROVE  HeapInv'
<1>1. PageInv' /\ FailsOnlyWhenExhausted' /\ CallInv'
  BY DoneKeepsPages DEF dealloc_done
<1>2. TypeOK'
  BY <1>1 DEF HeapInv, TypeOK, PageInv, dealloc_done, Done
<1> QED
  BY <1>1, <1>2 DEF HeapInv

\* The loop of alloc fails only for want of a frame: page i is not mapped.
LEMMA PageStepPreserves ==
  ASSUME HeapInv, OVERFLOW_CHECKS, PageStep
  PROVE  HeapInv'
<1>1. PageInv'
  BY PaStepPreserves DEF HeapInv, PageStep
<1>2. FailsOnlyWhenExhausted'
  <2> SUFFICES ASSUME pa_pc' = "err" PROVE NoFreeFrame'
    BY DEF FailsOnlyWhenExhausted
  <2>1. CASE AllocFrame
    BY <2>1 DEF AllocFrame, Return, Panic, NoFreeFrame
  <2>2. CASE MapTable
    BY <2>2 DEF MapTable, Return, NoFreeFrame
  <2>3. CASE MapPage
    <3>1. page_table[page_virt] = None
      BY <2>3, LoopPage DEF MapPage, HeapInv
    <3> QED
      BY <2>3, <3>1 DEF MapPage, Return, Panic
  <2>4. CASE UnmapPage
    BY <2>4 DEF UnmapPage, Return, Panic
  <2> QED
    BY <2>1, <2>2, <2>3, <2>4 DEF PageStep, PaStep
<1> QED
  BY <1>1, <1>2
  DEF HeapInv, TypeOK, PageInv, CallInv, PageStep, heap_vars

\* Every step of the heap and of the page allocator preserves the invariant.
LEMMA NextInv ==
  ASSUME HeapInv, OVERFLOW_CHECKS, [Next]_vars
  PROVE  HeapInv'
<1>1. CASE UNCHANGED vars
  <2>1. PageInv' /\ FailsOnlyWhenExhausted'
    BY <1>1, PagesAlone DEF vars
  <2> QED
    BY <1>1, <2>1 DEF HeapInv, TypeOK, PageInv, CallInv, vars, heap_vars
<1>2. CASE Call
  BY <1>2, initPreserves, AllocPopPreserves, RefillCallPreserves,
     FallbackCallPreserves, DeallocSmallPreserves, DeallocLargePreserves DEF Call
<1>3. CASE Step
  BY <1>3, PageStepPreserves, InitDonePreserves, RefillDonePreserves,
     FallbackDonePreserves, DeallocMatchPreserves, DeallocNextPreserves,
     DeallocDonePreserves DEF Step
<1> QED
  BY <1>1, <1>2, <1>3 DEF Next, Halted

-----------------------------------------------------------------------------
\* HeapInv holds always, when arithmetic overflow traps.
THEOREM HeapInvariant ==
  ASSUME OVERFLOW_CHECKS
  PROVE  Spec => []HeapInv
<1>1. Init => HeapInv
  BY InitInv
<1>2. HeapInv /\ [Next]_vars => HeapInv'
  BY NextInv
<1> QED
  BY <1>1, <1>2, PTL DEF Spec

\* Every variable of the three allocators keeps its type: the counters and
\* LARGE_ALLOCS their bounds, the free lists addresses.
THEOREM TypeCorrect ==
  ASSUME OVERFLOW_CHECKS
  PROVE  Spec => []TypeOK
<1>1. HeapInv => TypeOK
  BY DEF HeapInv
<1> QED
  BY <1>1, HeapInvariant, PTL

\* No frame has two owners, however allocations, refills, failures in the
\* middle of PageAllocator::alloc and deallocations follow each other.
THEOREM FramesOwnedOnce ==
  ASSUME OVERFLOW_CHECKS
  PROVE  Spec => []FrameOwnership
<1>1. HeapInv => FrameOwnership
  BY DEF HeapInv, PageInv
<1> QED
  BY <1>1, HeapInvariant, PTL

\* The heap maps no page outside its window.
THEOREM HeapStaysInWindow ==
  ASSUME OVERFLOW_CHECKS
  PROVE  Spec => []HeapWindow
<1>1. HeapInv => HeapWindow
  BY DEF HeapInv, PageInv
<1> QED
  BY <1>1, HeapInvariant, PTL

\* PageAllocator::alloc fails only when frames or addresses have run out.
THEOREM FailureMeansExhausted ==
  ASSUME OVERFLOW_CHECKS
  PROVE  Spec => []FailsOnlyWhenExhausted
<1>1. HeapInv => FailsOnlyWhenExhausted
  BY DEF HeapInv
<1> QED
  BY <1>1, HeapInvariant, PTL

-----------------------------------------------------------------------------
(***************************************************************************)
(* The frames that nobody owns.                                            *)
(***************************************************************************)
\* The frame that alloc has in a local while map_to runs.
LocalFrame(pc, f) == IF pc = "walk" THEN {f} ELSE {}

\* A step that changes neither the bitmap nor the tables loses no frame.
LEMMA LostKept ==
  ASSUME UNCHANGED <<bitmap, page_table, tables>>,
         LocalFrame(pa_pc', frame') = LocalFrame(pa_pc, frame)
  PROVE  LostFrames' = LostFrames
<1>1. MappedFrames' = MappedFrames /\ TableFrames' = TableFrames
  BY DEF MappedFrames, TableFrames
<1> QED
  BY <1>1 DEF LostFrames, LocalFrame

\* In the page allocator, only map_to's failure changes the lost frames.
LEMMA PaStepLoses ==
  ASSUME PageInv, PaStep, LostFrames' # LostFrames
  PROVE  LostFrames \subseteq LostFrames' /\ pa_pc' = "err"
<1>0. LostFrames = bitmap \ (RESERVED \cup MappedFrames \cup TableFrames
                               \cup LocalFrame(pa_pc, frame))
  BY DEF LostFrames, LocalFrame
<1>a. LostFrames' = bitmap' \ (RESERVED \cup MappedFrames' \cup TableFrames'
                                 \cup LocalFrame(pa_pc', frame'))
  BY DEF LostFrames, LocalFrame
<1>b. MappedFrames \cup TableFrames \subseteq bitmap /\ RESERVED \subseteq bitmap
  BY DEF PageInv, FrameOwnership, ReservedInUse
<1>1. CASE AllocFrame
  <2>1. pa_pc = "frame" /\ UNCHANGED <<page_table, tables>>
    BY <1>1 DEF AllocFrame
  <2>2. MappedFrames' = MappedFrames /\ TableFrames' = TableFrames
    BY <2>1 DEF MappedFrames, TableFrames
  <2>3. CASE bitmap' = bitmap /\ pa_pc' # "walk"
    BY <2>1, <2>3, LostKept DEF LocalFrame
  <2>4. CASE \E f \in Frames : bitmap' = bitmap \cup {f} /\ frame' = f /\ pa_pc' = "walk" /\ f \notin bitmap
    BY <1>0, <1>a, <1>b, <2>1, <2>2, <2>4 DEF LocalFrame
  <2> QED
    BY <1>1, <2>3, <2>4 DEF AllocFrame, allocate_frame, IsFirstFree, Return, Panic
<1>2. CASE MapTable
  <2>1. pa_pc = "walk" /\ UNCHANGED <<page_table, frame>>
    BY <1>2 DEF MapTable
  <2>2. MappedFrames' = MappedFrames
    BY <2>1 DEF MappedFrames
  <2>3. CASE pa_pc' = "err" /\ UNCHANGED <<bitmap, tables>>
    <3>1. TableFrames' = TableFrames
      BY <2>3 DEF TableFrames
    <3> QED
      BY <1>0, <1>a, <2>1, <2>2, <2>3, <3>1 DEF LocalFrame
  <2>4. ASSUME NEW level \in Levels, NEW f \in Frames, allocate_frame(f),
               IsMissing(level, page_virt), UNCHANGED pa_pc,
               tables' = [tables EXCEPT ![TableOf(level, page_virt)] = f]
        PROVE  FALSE
    <3> DEFINE t == TableOf(level, page_virt)
    <3>1. t \in Tables /\ tables[t] = None /\ tables \in [Tables -> Frames \cup {None}]
      BY <2>4, TableOfType, PageVirtType DEF PageInv, PageTypeOK, IsMissing
    <3>2. f \notin bitmap /\ bitmap' = bitmap \cup {f} /\ f # None
      BY <2>4, FrameCountAssumption DEF allocate_frame, IsFirstFree, Frames, None
    <3>3. tables'[t] = f /\ \A u \in Tables : u # t => tables'[u] = tables[u]
      BY <2>4, <3>1
    <3> HIDE DEF t
    <3>4. TableFrames' = TableFrames \cup {f}
      BY <3>1, <3>2, <3>3 DEF TableFrames
    <3>5. LocalFrame(pa_pc', frame') = LocalFrame(pa_pc, frame)
      BY <2>1, <2>4
    <3> QED
      BY <1>0, <1>a, <1>b, <2>2, <3>2, <3>4, <3>5
  <2> QED
    BY <1>2, <2>3, <2>4 DEF MapTable, Return
<1>3. CASE MapPage
  <2> DEFINE page == page_virt
  <2>1. pa_pc = "walk" /\ UNCHANGED <<bitmap, tables, frame>>
    BY <1>3 DEF MapPage
  <2>2. page \in Pages /\ page_table[page] = None
    BY <2>1, LoopPage
  <2>3. page_table' = [page_table EXCEPT ![page] = frame] /\ pa_pc' # "walk"
    BY <1>3, <2>2 DEF MapPage, Return, Panic
  <2>4. page_table \in [Pages -> Frames \cup {None}] /\ frame \in Frames
    BY <2>1 DEF PageInv, PageTypeOK, LocalFrameInv
  <2>5. frame # None
    BY <2>4, FrameCountAssumption DEF Frames, None
  <2>6. page_table'[page] = frame /\ \A q \in Pages : q # page => page_table'[q] = page_table[q]
    BY <2>2, <2>3, <2>4
  <2> HIDE DEF page
  <2>7. MappedFrames' = MappedFrames \cup {frame} /\ TableFrames' = TableFrames
    BY <2>1, <2>2, <2>5, <2>6 DEF MappedFrames, TableFrames
  <2> QED
    BY <1>0, <1>a, <2>1, <2>3, <2>7 DEF LocalFrame
<1>4. CASE UnmapPage
  <2> DEFINE page == page_virt
             f == page_table[page]
  <2>1. pa_pc = "unmap" /\ pa_pc' # "walk" /\ UNCHANGED tables
    BY <1>4 DEF UnmapPage, Return, Panic
  <2>2. page \in Pages /\ page_table \in [Pages -> Frames \cup {None}]
    BY PageVirtType DEF PageInv, PageTypeOK
  <2>3. CASE f = None
    <3>1. UNCHANGED <<bitmap, page_table>>
      BY <1>4, <2>3 DEF UnmapPage
    <3> QED
      BY <2>1, <3>1, LostKept DEF LocalFrame
  <2>4. CASE f # None
    <3>1. f \in Frames /\ frame_as_index(f) = f
      BY <2>2, <2>4 DEF frame_as_index
    <3>2. page_table' = [page_table EXCEPT ![page] = None] /\ bitmap' = bitmap \ {f}
      BY <1>4, <2>4, <3>1 DEF UnmapPage, deallocate_frame
    <3>3. page_table'[page] = None /\ \A q \in Pages : q # page => page_table'[q] = page_table[q]
      BY <2>2, <3>2
    <3>4. \A q \in Pages : q # page => page_table[q] # f
      BY <2>2, <2>4 DEF PageInv, FrameOwnership
    <3> HIDE DEF page
    <3>5. MappedFrames' = MappedFrames \ {f} /\ f \in MappedFrames
      BY <2>2, <2>4, <3>3, <3>4 DEF MappedFrames
    <3>6. TableFrames' = TableFrames
      BY <2>1 DEF TableFrames
    <3>7. f \notin RESERVED \cup TableFrames
      BY <3>5 DEF PageInv, FrameOwnership, Disjoint
    <3> HIDE DEF f
    <3> QED
      BY <1>0, <1>a, <2>1, <3>2, <3>5, <3>6, <3>7 DEF LocalFrame
  <2> QED
    BY <2>3, <2>4
<1> QED
  BY <1>1, <1>2, <1>3, <1>4 DEF PaStep

\* A frame is lost only where map_to finds no frame for a page table, and no
\* step gives a lost frame back (PageAllocator::alloc).
THEOREM FramesLostInFailure ==
  ASSUME OVERFLOW_CHECKS
  PROVE  Spec => FramesLostOnlyInFailure
<1> DEFINE Kept == LostFrames' # LostFrames => LostFrames \subseteq LostFrames' /\ pa_pc' = "err"
<1>1. ASSUME UNCHANGED <<bitmap, page_table, tables>>,
             UNCHANGED <<pa_pc, frame>> \/ (pa_pc # "walk" /\ pa_pc' # "walk")
      PROVE  Kept
  BY <1>1, LostKept DEF LocalFrame
<1>2. ASSUME HeapInv, [Next]_vars
      PROVE  Kept
  <2>1. CASE UNCHANGED vars
    BY <1>1, <2>1 DEF vars, pa_vars
  <2>2. ASSUME NEW n, alloc(n)
        PROVE  Kept
    BY <1>1, <2>2 DEF alloc, Return, Panic
  <2>3. CASE Call
    <3>1. CASE init
      BY <2>2, <3>1 DEF init
    <3>2. ASSUME NEW l \in Layouts, refill_free_list(l) \/ fallback_alloc(l)
          PROVE  Kept
      BY <2>2, <3>2 DEF refill_free_list, fallback_alloc
    <3>3. ASSUME NEW l \in Layouts, alloc_pop(l)
          PROVE  Kept
      BY <1>1, <3>3 DEF alloc_pop, pa_vars
    <3>4. ASSUME NEW b \in live, dealloc_small(b) \/ dealloc_large(b)
          PROVE  Kept
      BY <1>1, <3>4 DEF dealloc_small, dealloc_large, pa_vars
    <3> HIDE DEF Kept
    <3> QED
      BY <2>3, <3>1, <3>2, <3>3, <3>4, Zenon DEF Call
  <2>4. CASE PageStep
    BY <1>2, <2>4, PaStepLoses DEF PageStep, HeapInv
  <2>5. CASE init_done \/ refill_done \/ dealloc_next \/ dealloc_done
    BY <1>1, <2>5 DEF init_done, refill_done, dealloc_next, dealloc_done, Done, KeepPages, Return
  <2>6. CASE fallback_done
    BY <1>1, <2>6 DEF fallback_done, large_alloc_insert, Done, KeepPages, Panic
  <2>7. CASE dealloc_match
    BY <1>1, <2>7 DEF dealloc_match, dealloc
  <2> HIDE DEF Kept
  <2> QED
    BY <1>2, <2>1, <2>3, <2>4, <2>5, <2>6, <2>7 DEF Next, Step, Halted
<1>3. HeapInv /\ [Next]_vars => [Kept]_vars
  BY <1>2, Zenon
<1> QED
  BY <1>3, HeapInvariant, PTL DEF Spec, FramesLostOnlyInFailure

-----------------------------------------------------------------------------
(***************************************************************************)
(* Arithmetic.                                                             *)
(***************************************************************************)
\* Multiplying keeps the order.
LEMMA TimesKeepsOrder ==
  ASSUME NEW a \in Nat, NEW b \in Nat, NEW p \in Nat, a <= b
  PROVE  a * p \in Nat /\ b * p \in Nat /\ a * p <= b * p
OBVIOUS

\* A factor distributes over a sum.
LEMMA TimesSum ==
  ASSUME NEW a \in Int, NEW b \in Int, NEW p \in Int
  PROVE  (a + b) * p = a * p + b * p
OBVIOUS

\* A number that is divided without a remainder is a multiple.
LEMMA DividedIsMultiple ==
  ASSUME NEW a \in Nat, NEW s \in Nat \ {0}, a % s = 0
  PROVE  \E q \in Nat : a = q * s
<1>1. a \div s \in Nat /\ a = (a \div s) * s
  OBVIOUS
<1> QED
  BY <1>1

\* A multiple is divided without a remainder.
LEMMA MultipleIsDivided ==
  ASSUME NEW q \in Nat, NEW s \in Nat \ {0}
  PROVE  (q * s) % s = 0
OBVIOUS

\* Divisibility is transitive.
LEMMA DividesThrough ==
  ASSUME NEW a \in Nat, NEW s \in Nat \ {0}, NEW d \in Nat \ {0}, a % s = 0, s % d = 0
  PROVE  a % d = 0
<1>1. PICK q \in Nat : a = q * s
  BY DividedIsMultiple
<1>2. PICK r \in Nat : s = r * d
  BY DividedIsMultiple
<1>3. a = (q * r) * d
  BY <1>1, <1>2
<1>4. q * r \in Nat
  OBVIOUS
<1> QED
  BY <1>3, <1>4, MultipleIsDivided, Zenon

\* Multiples of a divisor of a page that follow the start of a page.
LEMMA MultiplesInPage ==
  \A page, k \in Nat, p, s \in Nat \ {0} : p % s = 0 => (page * p + k * s) % s = 0
<1> SUFFICES ASSUME NEW page \in Nat, NEW p \in Nat \ {0}, NEW s \in Nat \ {0}, p % s = 0,
                    NEW k \in Nat
             PROVE  (page * p + k * s) % s = 0
  OBVIOUS
<1>1. PICK q \in Nat : p = q * s
  BY DividedIsMultiple
<1>2. page * p + k * s = (page * q + k) * s
  <2>1. page * p = (page * q) * s
    BY <1>1
  <2>2. (page * q + k) * s = (page * q) * s + k * s
    BY TimesSum
  <2> QED
    BY <2>1, <2>2
<1>3. page * q + k \in Nat
  OBVIOUS
<1> QED
  BY <1>2, <1>3, MultipleIsDivided, Zenon

-----------------------------------------------------------------------------
(***************************************************************************)
(* Layouts and pages of blocks.                                            *)
(***************************************************************************)
\* The constants without the intervals and sequences.
LEMMA Sizes ==
  /\ PAGE_SIZE \in Nat \ {0}
  /\ \A x \in Classes : BLOCK_SIZES[x] \in Nat \ {0} /\ PAGE_SIZE % BLOCK_SIZES[x] = 0
  /\ \A l \in Layouts :
       /\ l.size \in Nat \ {0} /\ l.align \in Nat \ {0}
       /\ PAGE_SIZE % l.align = 0
       /\ \A x \in Classes : BLOCK_SIZES[x] >= l.align => BLOCK_SIZES[x] % l.align = 0
BY HeapAssumption, AlignAssumption DEF Classes

\* The block size that list_index finds is large enough.
LEMMA IndexFits ==
  ASSUME NEW l, IsSmall(l)
  PROVE  /\ list_index(l) \in Classes
         /\ BLOCK_SIZES[list_index(l)] >= required_block_size(l)
<1> DEFINE fits == {k \in Classes : BLOCK_SIZES[k] >= required_block_size(l)}
<1>1. fits # {}
  BY DEF IsSmall, list_index
<1>2. fits \in SUBSET Nat
  BY HeapAssumption DEF Classes
<1>3. \E k \in fits : \A j \in fits : k <= j
  BY <1>1, <1>2, LeastElement, Zenon
<1>4. list_index(l) = CHOOSE k \in fits : \A j \in fits : k <= j
  BY <1>1 DEF list_index
<1> HIDE DEF fits
<1>5. list_index(l) \in fits
  BY <1>3, <1>4
<1> QED
  BY <1>5 DEF fits

\* A number rounded up to pages is no smaller.
LEMMA RoundedUp ==
  ASSUME NEW r \in Nat, NEW p \in Nat \ {0}
  PROVE  r <= ((r + p - 1) \div p) * p
OBVIOUS

\* A block has room for what was asked for.
LEMMA RoomFits ==
  ASSUME NEW l \in Layouts
  PROVE  /\ Room(l) \in Nat \ {0} /\ l.size <= Room(l)
         /\ IsSmall(l) => Room(l) % l.align = 0
<1>1. l.size \in Nat \ {0} /\ l.align \in Nat \ {0}
  BY Sizes
<1>2. /\ required_block_size(l) \in Nat \ {0}
      /\ l.size <= required_block_size(l) /\ l.align <= required_block_size(l)
  BY <1>1 DEF required_block_size, Max2
<1>3. CASE IsSmall(l)
  <2>1. Room(l) = BLOCK_SIZES[list_index(l)]
    BY <1>3 DEF Room
  <2> DEFINE size == BLOCK_SIZES[list_index(l)]
  <2>2. size \in Nat \ {0} /\ size >= required_block_size(l)
    BY <1>3, IndexFits, Sizes
  <2>3. size >= l.align
    BY <1>1, <1>2, <2>2
  <2>4. size % l.align = 0
    BY <1>3, <2>3, IndexFits, Sizes
  <2> QED
    BY <1>1, <1>2, <2>1, <2>2, <2>4
<1>4. CASE ~IsSmall(l)
  <2>1. Room(l) = PagesFor(l) * PAGE_SIZE
    BY <1>4 DEF Room
  <2>2. required_block_size(l) <= PagesFor(l) * PAGE_SIZE
    BY <1>2, Sizes, RoundedUp DEF PagesFor
  <2>3. PagesFor(l) * PAGE_SIZE \in Nat
    BY PagesForType, Sizes
  <2> QED
    BY <1>1, <1>2, <1>4, <2>1, <2>2, <2>3
<1> QED
  BY <1>3, <1>4

\* A size that divides a page fits into it, and a page is made of its blocks.
LEMMA BlocksOfPage ==
  ASSUME NEW p \in Nat \ {0}, NEW s \in Nat \ {0}, p % s = 0
  PROVE  p \div s \in Nat \ {0} /\ (p \div s) * s = p /\ s <= p
OBVIOUS

\* What is on a list that is put before another one.
LEMMA TwoLists ==
  ASSUME NEW s \in Seq(Nat), NEW t \in Seq(Nat)
  PROVE  /\ s \o t \in Seq(Nat) /\ Len(s \o t) = Len(s) + Len(t)
         /\ \A k \in 1 .. Len(s) : (s \o t)[k] = s[k]
         /\ \A k \in 1 .. Len(s \o t) :
              k > Len(s) => k - Len(s) \in 1 .. Len(t) /\ (s \o t)[k] = t[k - Len(s)]
<1>1. s \o t \in Seq(Nat) /\ Len(s \o t) = Len(s) + Len(t)
  OBVIOUS
<1>2. \A k \in 1 .. Len(s) : (s \o t)[k] = s[k]
  OBVIOUS
<1>3. ASSUME NEW k \in 1 .. Len(s \o t), k > Len(s)
      PROVE  k - Len(s) \in 1 .. Len(t) /\ (s \o t)[k] = t[k - Len(s)]
  BY <1>1, <1>3
<1> QED
  BY <1>1, <1>2, <1>3

\* The blocks of a page are in the page behind the first skip ones, do not
\* overlap, and are on the list before the blocks that were there.
CarvedWell(page, x, skip, list) ==
  LET size == BLOCK_SIZES[x]
      n == PAGE_SIZE \div size - skip
      base == page * PAGE_SIZE
      carved == Carve(page, x, skip, list)
  IN  /\ n \in Nat /\ base \in Nat
      /\ carved \in Seq(Nat) /\ Len(carved) = n + Len(list)
      /\ \A k \in 1 .. Len(carved) :
           k > n => k - n \in 1 .. Len(list) /\ carved[k] = list[k - n]
      /\ \A k \in 1 .. Len(carved) :
           k <= n => /\ base + skip * size <= carved[k]
                     /\ carved[k] + size <= base + PAGE_SIZE
                     /\ carved[k] % size = 0
      /\ \A j, k \in 1 .. Len(carved) :
           j <= n /\ k <= n /\ j # k => Apart(carved[j], size, carved[k], size)

\* Carve does what CarvedWell says.
LEMMA CarveFacts ==
  ASSUME NEW page \in Nat, NEW x \in Classes, NEW skip \in {0, 1}, NEW list \in Seq(Nat)
  PROVE  CarvedWell(page, x, skip, list)
<1> DEFINE size == BLOCK_SIZES[x]
           num == PAGE_SIZE \div size
           n == num - skip
           base == page * PAGE_SIZE
           new == [k \in 1 .. n |-> base + (num - k) * size]
           carved == Carve(page, x, skip, list)
<1>1. size \in Nat \ {0} /\ PAGE_SIZE \in Nat \ {0} /\ PAGE_SIZE % size = 0
  BY Sizes
<1>2. num \in Nat \ {0} /\ num * size = PAGE_SIZE
  BY <1>1, BlocksOfPage, Zenon
<1>3. n \in Nat /\ base \in Nat
  BY <1>1, <1>2
<1>4. carved = new \o list
  BY DEF Carve
<1> HIDE DEF size, num, base, carved
<1>5. ASSUME NEW k \in 1 .. n
      PROVE  /\ base + (num - k) * size \in Nat
             /\ base + skip * size <= base + (num - k) * size
             /\ base + (num - k) * size + size <= base + PAGE_SIZE
             /\ (base + (num - k) * size) % size = 0
  <2>1. num - k \in Nat /\ skip <= num - k /\ num - k + 1 <= num /\ skip \in Nat
    BY <1>2
  <2>2. skip * size <= (num - k) * size /\ (num - k) * size \in Nat /\ skip * size \in Nat
    BY <1>1, <2>1, TimesKeepsOrder
  <2>3. (num - k + 1) * size <= PAGE_SIZE
    BY <1>1, <1>2, <2>1, TimesKeepsOrder
  <2>4. (num - k + 1) * size = (num - k) * size + size
    BY <1>1, <2>1
  <2>5. (base + (num - k) * size) % size = 0
    <3> DEFINE c == num - k
    <3>1. c \in Nat /\ base = page * PAGE_SIZE
      BY <2>1 DEF base
    <3> HIDE DEF c
    <3>2. (page * PAGE_SIZE + c * size) % size = 0
      <4>1. size \in Nat \ {0}
        BY <1>1
      <4>2. PAGE_SIZE \in Nat \ {0}
        BY <1>1
      <4>3. PAGE_SIZE % size = 0
        BY <1>1
      <4>4. c \in Nat
        BY <3>1
      <4>5. \A p, s \in Nat \ {0} : p % s = 0 => (page * p + c * s) % s = 0
        BY <4>4, MultiplesInPage, Zenon
      <4> QED
        BY <4>1, <4>2, <4>3, <4>5, Zenon
    <3> QED
      BY <3>1, <3>2 DEF c
  <2> DEFINE d == (num - k) * size  e == skip * size
  <2>6. d \in Nat /\ e \in Nat /\ e <= d /\ d + size <= PAGE_SIZE
    BY <2>2, <2>3, <2>4
  <2> HIDE DEF d, e
  <2>7. base + d \in Nat /\ base + e <= base + d /\ base + d + size <= base + PAGE_SIZE
    BY <1>1, <1>3, <2>6
  <2> QED
    BY <2>5, <2>7 DEF d, e
<1>6. ASSUME NEW j \in 1 .. n, NEW k \in 1 .. n, j < k
      PROVE  base + (num - k) * size + size <= base + (num - j) * size
  <2>1. num - k \in Nat /\ num - j \in Nat /\ num - k + 1 <= num - j
    BY <1>2, <1>6
  <2>2. (num - k + 1) * size <= (num - j) * size
    <3> DEFINE a == num - k + 1  b == num - j
    <3>1. a \in Nat /\ b \in Nat /\ a <= b
      BY <2>1
    <3> HIDE DEF a, b
    <3>2. a * size <= b * size
      BY <1>1, <3>1, TimesKeepsOrder
    <3> QED
      BY <3>2 DEF a, b
  <2>3. (num - k + 1) * size = (num - k) * size + size
    BY <1>1, <2>1
  <2> DEFINE d == (num - k) * size  e == (num - j) * size
  <2>4. d \in Nat /\ e \in Nat /\ d + size <= e
    BY <1>1, <2>1, <2>2, <2>3
  <2> HIDE DEF d, e
  <2>5. base + d + size <= base + e
    BY <1>1, <1>3, <2>4
  <2> QED
    BY <2>5 DEF d, e
<1>7. new \in Seq(Nat) /\ Len(new) = n /\ \A k \in 1 .. n : new[k] = base + (num - k) * size
  BY <1>3, <1>5
<1>8. /\ carved \in Seq(Nat) /\ Len(carved) = n + Len(list)
      /\ \A k \in 1 .. n : carved[k] = base + (num - k) * size
      /\ \A k \in 1 .. Len(carved) : k > n => k - n \in 1 .. Len(list) /\ carved[k] = list[k - n]
  <2> HIDE DEF new, n
  <2> QED
    BY <1>3, <1>4, <1>7, TwoLists, Zenon
<1>9. \A j, k \in 1 .. n : j # k => Apart(carved[j], size, carved[k], size)
  <2> SUFFICES ASSUME NEW j \in 1 .. n, NEW k \in 1 .. n, j # k
               PROVE  Apart(carved[j], size, carved[k], size)
    OBVIOUS
  <2>1. carved[j] = base + (num - j) * size /\ carved[k] = base + (num - k) * size
    BY <1>8
  <2>2. j < k \/ k < j
    BY <1>3
  <2> QED
    BY <1>6, <2>1, <2>2 DEF Apart
<1>10. \A k \in 1 .. n :
         /\ base + skip * size <= carved[k] /\ carved[k] + size <= base + PAGE_SIZE
         /\ carved[k] % size = 0
  BY <1>5, <1>8
<1>11. \A k \in 1 .. Len(carved) : k <= n => k \in 1 .. n
  BY <1>3
<1> QED
  BY <1>3, <1>8, <1>9, <1>10, <1>11 DEF CarvedWell, size, num, base, carved

-----------------------------------------------------------------------------
(***************************************************************************)
(* What is left of a call: StepsLeft goes down with every step.            *)
(***************************************************************************)
\* In a loop over pages there is a page left.
LEMMA PagesLeft ==
  ASSUME HeapInv, BackedInv, pa_pc \in {"frame", "walk", "unmap"}
  PROVE  num_pages - i \in Nat \ {0} /\ heap_pc \notin {"boot", "idle"}
<1>1. num_pages \in Nat /\ i \in Nat
  BY LocalsType DEF HeapInv, PageInv
<1>2. i < num_pages
  BY DEF HeapInv, PageInv, LoopInv, BackedInv, FreedInv
<1>3. heap_pc \notin {"boot", "idle"}
  BY DEF BackedInv, FreedInv
<1> QED
  BY <1>1, <1>2, <1>3

\* A frame for a page leaves its tables and the page itself.
LEMMA AllocFrameAdvances ==
  ASSUME HeapInv, BackedInv, AllocFrame, UNCHANGED heap_vars
  PROVE  StepsLeft' \in 0 .. StepsLeft - 1
<1> DEFINE left == num_pages - i
<1>1. left \in Nat \ {0} /\ heap_pc \notin {"boot", "idle"}
  BY PagesLeft DEF AllocFrame
<1>2. /\ pa_pc = "frame" /\ pa_pc' \in {"walk", "err", "panicked"}
      /\ UNCHANGED <<num_pages, i, heap_pc>>
  BY DEF AllocFrame, Return, Panic, heap_vars
<1>3. TablesToMake' \in 0 .. 3
  BY DEF TablesToMake
<1>4. StepsLeft = 5 * left + 2
  BY <1>1, <1>2 DEF StepsLeft
<1>5. \/ pa_pc' = "walk" /\ StepsLeft' = 5 * left - 2 + TablesToMake'
      \/ pa_pc' = "err" /\ StepsLeft' = 2
      \/ pa_pc' = "panicked" /\ StepsLeft' = 0
  BY <1>1, <1>2 DEF StepsLeft
<1> HIDE DEF left
<1> QED
  BY <1>1, <1>3, <1>4, <1>5

\* A table leaves the tables of the levels below it.
LEMMA MapTableAdvances ==
  ASSUME HeapInv, BackedInv, MapTable, UNCHANGED heap_vars
  PROVE  StepsLeft' \in 0 .. StepsLeft - 1
<1> DEFINE left == num_pages - i
<1>1. left \in Nat \ {0} /\ heap_pc \notin {"boot", "idle"}
  BY PagesLeft DEF MapTable
<1>2. pa_pc = "walk" /\ UNCHANGED <<num_pages, start_addr, i, heap_pc>>
  BY DEF MapTable, heap_vars
<1>3. PICK level \in Levels :
        /\ IsMissing(level, page_virt)
        /\ \/ \E f \in Frames : /\ tables' = [tables EXCEPT ![TableOf(level, page_virt)] = f]
                                /\ pa_pc' = pa_pc
           \/ pa_pc' = "err"
  BY DEF MapTable, Return
<1>4. level \in 1 .. 3 /\ TablesToMake = level
  BY <1>3 DEF TablesToMake, IsMissing, Levels
<1>5. StepsLeft = 5 * left - 2 + level
  BY <1>1, <1>2, <1>4 DEF StepsLeft
<1>6. CASE pa_pc' = "err"
  <2>1. StepsLeft' = 2
    BY <1>1, <1>2, <1>6 DEF StepsLeft
  <2> HIDE DEF left
  <2> QED
    BY <1>1, <1>4, <1>5, <2>1
<1>7. CASE pa_pc' # "err"
  <2>1. PICK f \in Frames : tables' = [tables EXCEPT ![TableOf(level, page_virt)] = f]
    BY <1>3, <1>7
  <2>2. page_virt' = page_virt
    BY <1>2 DEF page_virt
  <2>3. \A l \in Levels : l >= level => tables'[TableOf(l, page_virt)] # None
    <3>1. \A l \in Levels : l > level => tables[TableOf(l, page_virt)] # None
      BY <1>3 DEF IsMissing
    <3>2. TableOf(level, page_virt) \in Tables /\ tables \in [Tables -> Frames \cup {None}]
      BY PageVirtType, TableOfType DEF HeapInv, PageInv, PageTypeOK
    <3>3. tables'[TableOf(level, page_virt)] # None
      BY <2>1, <3>2 DEF Frames, None
    <3>4. \A l \in Levels : l # level => TableOf(l, page_virt) # TableOf(level, page_virt)
      BY DEF TableOf
    <3>5. \A l \in Levels : l # level =>
            tables'[TableOf(l, page_virt)] = tables[TableOf(l, page_virt)]
      BY <2>1, <3>2, <3>4, PageVirtType, TableOfType DEF HeapInv, PageInv
    <3> QED
      BY <3>1, <3>3, <3>5 DEF Levels
  <2>4. TablesToMake' \in 0 .. level - 1
    <3>1. \A l \in Levels : l >= level => ~IsMissing(l, page_virt)'
      BY <2>2, <2>3 DEF IsMissing
    <3> DEFINE m1 == IsMissing(1, page_virt)'
               m2 == IsMissing(2, page_virt)'
               m3 == IsMissing(3, page_virt)'
    <3>2. TablesToMake' = IF m3 THEN 3 ELSE IF m2 THEN 2 ELSE IF m1 THEN 1 ELSE 0
      BY Zenon DEF TablesToMake
    <3>3. ~m3 /\ (2 >= level => ~m2) /\ (1 >= level => ~m1)
      <4>1. 3 \in Levels /\ 2 \in Levels /\ 1 \in Levels /\ 3 >= level
        BY <1>4 DEF Levels
      <4> QED
        BY <3>1, <4>1, Zenon
    <3> HIDE DEF m1, m2, m3
    <3> QED
      BY <1>4, <3>2, <3>3
  <2>5. StepsLeft' = 5 * left - 2 + TablesToMake'
    BY <1>1, <1>2, <1>3, <1>7 DEF StepsLeft
  <2> DEFINE now == TablesToMake'
  <2>6. now \in 0 .. level - 1 /\ StepsLeft' = 5 * left - 2 + now
    BY <2>4, <2>5
  <2> HIDE DEF left, now
  <2> QED
    BY <1>1, <1>4, <1>5, <2>6
<1> QED
  BY <1>6, <1>7

\* A page that is mapped leaves the pages after it.
LEMMA MapPageAdvances ==
  ASSUME HeapInv, BackedInv, MapPage, UNCHANGED heap_vars
  PROVE  StepsLeft' \in 0 .. StepsLeft - 1
<1> DEFINE left == num_pages - i
<1>1. left \in Nat \ {0} /\ heap_pc \notin {"boot", "idle"}
  BY PagesLeft DEF MapPage
<1>2. /\ pa_pc = "walk" /\ UNCHANGED <<num_pages, heap_pc>>
      /\ \/ pa_pc' \in {"err", "panicked"}
         \/ pa_pc' = "ok"
         \/ pa_pc' = "frame" /\ i' = i + 1 /\ i + 1 # num_pages
  BY DEF MapPage, Return, Panic, heap_vars
<1>3. TablesToMake = 0
  <2>1. \A l \in Levels : ~IsMissing(l, page_virt)
    BY Zenon DEF MapPage, Walked, IsMissing
  <2>2. 1 \in Levels /\ 2 \in Levels /\ 3 \in Levels
    BY DEF Levels
  <2> QED
    BY <2>1, <2>2, Zenon DEF TablesToMake
<1>4. StepsLeft = 5 * left - 2
  BY <1>1, <1>2, <1>3 DEF StepsLeft
<1>5. i \in Nat /\ num_pages \in Nat
  BY LocalsType DEF HeapInv, PageInv
<1>6. CASE pa_pc' = "frame"
  <2>1. StepsLeft' = 5 * (num_pages - (i + 1)) + 2 /\ i + 1 # num_pages
    BY <1>1, <1>2, <1>6 DEF StepsLeft
  <2> QED
    BY <1>1, <1>4, <1>5, <2>1
<1>7. CASE pa_pc' # "frame"
  <2>1. StepsLeft' \in {0, 2}
    BY <1>1, <1>2, <1>7 DEF StepsLeft
  <2> HIDE DEF left
  <2> QED
    BY <1>1, <1>4, <2>1
<1> QED
  BY <1>6, <1>7

\* A page that is unmapped leaves the pages after it.
LEMMA UnmapPageAdvances ==
  ASSUME HeapInv, BackedInv, UnmapPage, UNCHANGED heap_vars
  PROVE  StepsLeft' \in 0 .. StepsLeft - 1
<1>1. num_pages - i \in Nat \ {0} /\ heap_pc \notin {"boot", "idle"}
  BY PagesLeft DEF UnmapPage
<1>2. /\ pa_pc = "unmap" /\ UNCHANGED <<num_pages, heap_pc>>
      /\ \/ pa_pc' \in {"ok", "panicked"}
         \/ pa_pc' = "unmap" /\ i' = i + 1 /\ i + 1 # num_pages
  BY DEF UnmapPage, Return, Panic, heap_vars
<1>3. StepsLeft = num_pages - i + 2
  BY <1>1, <1>2 DEF StepsLeft
<1>4. i \in Nat /\ num_pages \in Nat
  BY LocalsType DEF HeapInv, PageInv
<1>5. \/ StepsLeft' \in {0, 2}
      \/ StepsLeft' = num_pages - (i + 1) + 2 /\ i + 1 # num_pages
  BY <1>1, <1>2 DEF StepsLeft
<1> QED
  BY <1>1, <1>3, <1>4, <1>5

\* A call that has its pages, or knows that there are none, returns or panics.
LEMMA DoneAdvances ==
  ASSUME init_done \/ refill_done \/ fallback_done
  PROVE  StepsLeft' \in 0 .. StepsLeft - 1
<1>1. heap_pc \in {"init", "refill", "fallback"} /\ pa_pc \in {"ok", "err"}
  BY DEF init_done, refill_done, fallback_done
<1>2. heap_pc' = "idle" \/ pa_pc' = "panicked"
  BY DEF init_done, refill_done, fallback_done, large_alloc_insert, Done, Panic
<1> QED
  BY <1>1, <1>2 DEF StepsLeft

\* The scan of LARGE_ALLOCS finds the entry that was counted, and after it none.
LEMMA ScanAdvances ==
  ASSUME HeapInv, BackedInv, dealloc_match \/ dealloc_next \/ dealloc_done
  PROVE  StepsLeft' \in 0 .. StepsLeft - 1
<1>1. heap_pc = "dealloc"
  BY DEF dealloc_match, dealloc_next, dealloc_done
<1>2. CASE dealloc_match
  <2>1. /\ pa_pc = "idle" /\ pa_pc' = "unmap" /\ UNCHANGED <<heap_pc, LARGE_ALLOCS>>
    BY <1>2 DEF dealloc_match, dealloc
  <2>2. PICK k \in slot .. Len(LARGE_ALLOCS) :
          /\ Matches(k) /\ \A j \in slot .. k - 1 : ~Matches(j)
          /\ num_pages' = LARGE_ALLOCS[k].num_pages /\ i' = 0
    BY <1>2 DEF dealloc_match, dealloc
  <2>3. slot \in Nat /\ slot # 0 /\ LARGE_ALLOCS \in Seq([addr : Pages, num_pages : Nat])
    BY <1>1 DEF HeapInv, TypeOK, CallInv
  <2>4. LARGE_ALLOCS[k].num_pages \in Nat
    <3>1. k \in 1 .. Len(LARGE_ALLOCS)
      BY <2>3
    <3>2. LARGE_ALLOCS[k] \in [addr : Pages, num_pages : Nat]
      BY <2>3, <3>1, InSeq, Zenon
    <3> QED
      BY <3>2, Zenon
  <2>5. k \in ToFind /\ \A j \in ToFind : k <= j
    BY <2>2, <2>3 DEF ToFind
  <2>6. \A m \in ToFind : (\A j \in ToFind : m <= j) => m = k
    BY <2>3, <2>5 DEF ToFind
  <2>7. PagesFound = LARGE_ALLOCS[k].num_pages
    BY <2>5, <2>6, Zenon DEF PagesFound
  <2>8. StepsLeft = LARGE_ALLOCS[k].num_pages + 3
    BY <1>1, <2>1, <2>5, <2>7 DEF StepsLeft
  <2>9. StepsLeft' = LARGE_ALLOCS[k].num_pages + 2
    <3>1. heap_pc' = "dealloc" /\ pa_pc' = "unmap"
      BY <1>1, <2>1, Zenon
    <3>2. StepsLeft' = num_pages' - i' + 2
      BY <3>1 DEF StepsLeft
    <3>3. ASSUME NEW a \in Nat PROVE a - 0 = a
      BY <3>3
    <3> QED
      BY <2>2, <2>4, <3>2, <3>3, Zenon
  <2> DEFINE pages == LARGE_ALLOCS[k].num_pages
  <2> HIDE DEF pages
  <2>10. pages \in Nat /\ StepsLeft = pages + 3 /\ StepsLeft' = pages + 2
    BY <2>4, <2>8, <2>9, Zenon DEF pages
  <2> QED
    BY <2>10
<1>3. CASE dealloc_next
  <2>1. pa_pc = "ok" /\ pa_pc' = "idle" /\ heap_pc' = "dealloc" /\ UNCHANGED <<slot, LARGE_ALLOCS, ptr>>
    BY <1>1, <1>3 DEF dealloc_next, Return, heap_vars
  <2>2. ToFind = {}
    BY <1>1, <2>1 DEF BackedInv, FreedInv, ToFind
  <2>3. ToFind' = {}
    BY <2>1, <2>2 DEF ToFind, Matches
  <2> QED
    BY <1>1, <2>1, <2>3 DEF StepsLeft
<1>4. CASE dealloc_done
  <2>1. pa_pc = "idle" /\ heap_pc' = "idle" /\ ToFind = {}
    BY <1>4 DEF dealloc_done, Done, ToFind
  <2> QED
    BY <1>1, <2>1 DEF StepsLeft
<1> QED
  BY <1>2, <1>3, <1>4

\* Every step in a call is one of those that are left.
LEMMA StepAdvances ==
  ASSUME HeapInv, BackedInv, heap_pc \notin {"boot", "idle"}, [Next]_vars, ~UNCHANGED vars
  PROVE  StepsLeft' \in 0 .. StepsLeft - 1
<1>1. Step
  BY DEF Next, Halted, Call, init, alloc_pop, refill_free_list, fallback_alloc,
         dealloc_small, dealloc_large
<1>2. CASE PageStep
  BY <1>2, AllocFrameAdvances, MapTableAdvances, MapPageAdvances, UnmapPageAdvances
  DEF PageStep, PaStep
<1>3. CASE init_done \/ refill_done \/ fallback_done
  BY <1>3, DoneAdvances
<1>4. CASE dealloc_match \/ dealloc_next \/ dealloc_done
  BY <1>4, ScanAdvances
<1> QED
  BY <1>1, <1>2, <1>3, <1>4 DEF Step
=============================================================================
