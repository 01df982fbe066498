----------------------------- MODULE MCChatClient -----------------------------
(* A small instance of ChatClient: lengths on both sides of the limits of  *)
(* the client (one of them with a zero byte).                              *)
EXTENDS ChatClient

Lengths == {0, 1569, 1570, 1792, 16385}
=============================================================================
