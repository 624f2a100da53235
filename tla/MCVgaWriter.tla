----------------------------- MODULE MCVgaWriter -----------------------------
(***************************************************************************)
(* An instance of VgaWriter for TLC: a screen of 3 rows and 2 columns.     *)
(***************************************************************************)
EXTENDS VgaWriter

MCBytes == {"a"}
=============================================================================
