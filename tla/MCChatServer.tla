----------------------------- MODULE MCChatServer -----------------------------
(* Instances of ChatServer for TLC.                                        *)
EXTENDS ChatServer, TLC

Symmetry == Permutations(Session)

(* One length that is accepted and one that is not.                        *)
Lengths == {MaxPackSize, MaxPackSize + 1}
=============================================================================
