--------------------------- MODULE MCMessageHistory ---------------------------
(* Instances of MessageHistory small enough for TLC. *)
EXTENDS MessageHistory

NoReplies == {}
FourthAnswers == {4}

\* The properties say nothing of a list in trouble: what follows is not explored.
Untroubled == trouble = {}
=============================================================================
