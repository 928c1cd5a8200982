--------------------------- MODULE MCFileGeneration ---------------------------
(* Instances of FileGeneration small enough for TLC. *)
EXTENDS FileGeneration

TwoGenerations == 1..2
TwoChunksAndNone == <<2, 0>>
=============================================================================
