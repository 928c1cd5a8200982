------------------------------ MODULE MCChatList ------------------------------
(* Instances of ChatList small enough for TLC. *)
EXTENDS ChatList

TwoChats == 1..2
ThreeOrders == 0..2
TwoOrders == 0..1
=============================================================================
