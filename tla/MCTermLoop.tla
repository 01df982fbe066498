------------------------------ MODULE MCTermLoop ------------------------------
(* TermLoop with the connection of the start and a second one.             *)
EXTENDS TermLoop
=============================================================================
