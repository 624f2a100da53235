-------------------------------- MODULE MCSMP --------------------------------
(***************************************************************************)
(* Instances of SMP for TLC.                                               *)
(***************************************************************************)
EXTENDS SMP

TwoAPs == <<"ap1", "ap2">>

\* Three delays of different lengths, as in the code.
ShortDelays == [k \in 0 .. 2 |-> IF k = 0 THEN 3 ELSE IF k = 1 THEN 2 ELSE 1]
=============================================================================
