------------------------------ MODULE MCFileQueue ------------------------------
(***************************************************************************)
(* A small instance of FileQueue for TLC.                                  *)
(***************************************************************************)
EXTENDS FileQueue

\* Two files in two messages each.  The middle two messages make the first
\* page, an older one and a new one follow.
TwoFiles == {1, 2}
None == 0
FourMessages == <<2, 1, 2, 1>>
MiddleTwo == <<2, 3>>
=============================================================================
