------------------------------- MODULE MCReading -------------------------------
(***************************************************************************)
(* A small instance of Reading for TLC.  It starts with no row or with     *)
(* all, and with the open chat as the only one that is not muted: pages    *)
(* and MuteChanges bring the other cases.                                  *)
(***************************************************************************)
EXTENDS Reading

TwoChats == {1, 2}
First == 1

StartInit ==
  /\ Init
  /\ announced \in {{}, Chats}
  /\ muted = [c \in Chats |-> c # Open]

StartSpec == StartInit /\ [][Next]_vars /\ Fairness
=============================================================================
