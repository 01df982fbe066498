---------------------------- MODULE MCSelectServer ----------------------------
(* SelectServer with a table of two and one connection more than fits.     *)
EXTENDS SelectServer
=============================================================================
