------------------------------- MODULE MCLayout -------------------------------
(* Windows from too small for anything to room for two messages, input     *)
(* lines of up to six characters, which fill from one row to four, with    *)
(* the cursor anywhere in or out of them, messages with a newline at the   *)
(* start of a row, within it and behind its end.                           *)
EXTENDS Layout

Sizes == [rows : {4, 6, 8, 13}, cols : {8, 9, 11, 12, 13}]
Plain(k) == [i \in 1 .. k |-> "x"]
Typed == UNION {[text : {Plain(k)}, cursor_pos : -1 .. k + 1] : k \in 0 .. 6}
Received == {Plain(7), Plain(3) \o <<Newline>> \o Plain(2), <<Newline>> \o Plain(2)}
Heights == {1, 4}
=============================================================================
