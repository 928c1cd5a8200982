------------------------------- MODULE MCJoining -------------------------------
(***************************************************************************)
(* A small instance of Joining for TLC.                                    *)
(***************************************************************************)
EXTENDS Joining

\* A user, a group and a restricted group; an invitation of a group the user
\* is in, and one of a group the user is not in.
ThreeNames == {1, 2, 3}
TwoLinks == {4, 5}
Types == <<"Private", "Supergroup", "Supergroup", "BasicGroup", "NoAccess">>
Third == {3}
=============================================================================
