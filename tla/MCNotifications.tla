---------------------------- MODULE MCNotifications ----------------------------
(***************************************************************************)
(* Small instances of Notifications for TLC.                               *)
(***************************************************************************)
EXTENDS Notifications

TwoChats == {1, 2}
\* A state before "Connecting", and the way to "Ready".
States == {"Connecting", "Updating", "Ready"}
=============================================================================
