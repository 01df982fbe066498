------------------------------- MODULE LineRelay -------------------------------
(***************************************************************************)
(* What the command-line client promises of the lines that its user types, *)
(* without handlers, queues or timers: one connection, which is made once  *)
(* and closed once, and a wire to which the lines go, packet by packet, in *)
(* the order typed and each for every recipient.  Nothing goes out before  *)
(* the connection is made or after it was closed, and nothing comes twice. *)
(***************************************************************************)
EXTENDS Integers, Sequences

CONSTANT Recipients

VARIABLES
  typed,  \* how many lines were typed
  conn,   \* the connection: "connecting", "up" or "closed"
  wire    \* the packets that went out

vars == <<typed, conn, wire>>

Init ==
  /\ typed = 0
  /\ conn = "connecting"
  /\ wire = <<>>

Type ==
  /\ typed' = typed + 1
  /\ UNCHANGED <<conn, wire>>

Connect ==
  /\ conn = "connecting"
  /\ conn' = "up"
  /\ UNCHANGED <<typed, wire>>

(* The packet with number n, from 0.                                       *)
Nth(n) == [msg |-> 1 + (n \div Recipients), to |-> 1 + (n % Recipients)]

Send ==
  /\ conn = "up"
  /\ Len(wire) < typed * Recipients
  /\ wire' = Append(wire, Nth(Len(wire)))
  /\ UNCHANGED <<typed, conn>>

Shut ==
  /\ conn' = "closed"
  /\ UNCHANGED <<typed, wire>>

Next == Type \/ Connect \/ Send \/ Shut

Spec == Init /\ [][Next]_vars
=============================================================================
