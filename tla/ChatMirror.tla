------------------------------ MODULE ChatMirror ------------------------------
(***************************************************************************)
(* What a list of chats promises its reader: a row shows a last message    *)
(* TDLib has had for the chat, and while it is shown it never goes back to *)
(* an older one.  Rows may come and go, one at a time or all at once.      *)
(* ChatList implements this specification.                                 *)
(***************************************************************************)
EXTENDS Integers

CONSTANT Chats

VARIABLES
  newest,   \* number of the chat's last message
  shown     \* number shown by its row, Absent without a row

Absent == -1

Init ==
  /\ newest = [c \in Chats |-> 0]
  /\ shown = [c \in Chats |-> Absent]

Advance(c) ==
  /\ newest' = [newest EXCEPT ![c] = @ + 1]
  /\ UNCHANGED shown

Show(c) ==
  /\ \E v \in 0..newest[c] :
       /\ v >= shown[c]
       /\ shown' = [shown EXCEPT ![c] = v]
  /\ UNCHANGED newest

Hide(c) ==
  /\ shown' = [shown EXCEPT ![c] = Absent]
  /\ UNCHANGED newest

HideAll ==
  /\ shown' = [c \in Chats |-> Absent]
  /\ UNCHANGED newest

Next ==
  \/ \E c \in Chats : Advance(c) \/ Show(c) \/ Hide(c)
  \/ HideAll

Spec == Init /\ [][Next]_<<newest, shown>>
=============================================================================
