--------------------------------- MODULE MCApp ---------------------------------
(* App with a field of three columns and a queue of two events.           *)
EXTENDS App
=============================================================================
