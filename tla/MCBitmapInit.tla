---------------------------- MODULE MCBitmapInit ----------------------------
(***************************************************************************)
(* Instances of BootInfoFrames and BitmapInit for TLC.  A page is 4 bytes, *)
(* memory is 9 pieces of half a page, and each piece is usable, reserved   *)
(* or in no region: all maps of this memory are tried.                     *)
(***************************************************************************)
EXTENDS BootInfoFrames

Pieces == 0 .. 8

PieceSize == 2

Kinds == {"usable", "reserved", "hole"}

\* A run of pieces of one kind is one region.
MapOf(kind) ==
  LET Starts == {p \in Pieces : kind[p] # "hole" /\ (p = 0 \/ kind[p - 1] # kind[p])}
      Start(k) == CHOOSE p \in Starts : Cardinality({q \in Starts : q < p}) = k - 1
      LastOf(p) == Min({q \in Pieces : q >= p /\ (q = 8 \/ kind[q + 1] # kind[p])})
      Region(p) == [start |-> p * PieceSize, end |-> (LastOf(p) + 1) * PieceSize,
                    usable |-> kind[p] = "usable"]
  IN  [k \in 1 .. Cardinality(Starts) |-> Region(Start(k))]

AllMaps == {MapOf(kind) : kind \in [Pieces -> Kinds]}
=============================================================================
