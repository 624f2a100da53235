---------------------------- MODULE MCKernelHeap ----------------------------
(***************************************************************************)
(* Instances of KernelHeap for TLC.  A page is 4 units and the block sizes *)
(* are 1 and 2 units, so that as in the code the largest block is half a   *)
(* page and every block size divides a page.                               *)
(***************************************************************************)
EXTENDS KernelHeap

MCBlockSizes == <<1, 2>>

L(s, a) == [size |-> s, align |-> a]

\* Both block sizes, an alignment above the size, one page, and two pages,
\* for which the frames run out half-way.
MixedLayouts == {L(1, 1), L(1, 2), L(3, 1), L(7, 4)}

\* One block size of half a page (a page is 2 units), and up to three pages.
OneBlockSize == <<1>>

PageLayouts == {L(1, 1), L(2, 1), L(3, 2), L(6, 1)}
=============================================================================
