------------------------------- MODULE MCEditor -------------------------------
(* Editor with a letter and the space.                                     *)
EXTENDS Editor

Letters == {"a", Space}
=============================================================================
