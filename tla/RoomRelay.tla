------------------------------- MODULE RoomRelay -------------------------------
(***************************************************************************)
(* What the chat room promises, without queues, sockets or timers: one     *)
(* log of messages that only grows, and for every session a window of it.  *)
(* The window opens at the oldest message of the history when the session  *)
(* joins, its end follows the log for as long as the session is a member   *)
(* and never moves again once it has quit; the session is given the        *)
(* messages of its window one by one, in the order of the log.             *)
(***************************************************************************)
EXTENDS Integers, Sequences

CONSTANTS Session, Msg, MaxRecent

VARIABLES
  log,      \* every message posted, in order
  joined,   \* sessions that have joined, even if they quit since
  members,  \* sessions that have joined and not quit
  base,     \* where in the log the window of a session starts
  end,      \* where it ends
  inbox     \* what the session was given of it

vars == <<log, joined, members, base, end, inbox>>

Init ==
  /\ log = <<>>
  /\ joined = {}
  /\ members = {}
  /\ base = [s \in Session |-> 0]
  /\ end = [s \in Session |-> 0]
  /\ inbox = [s \in Session |-> <<>>]

Join(s) ==
  /\ s \notin joined
  /\ joined' = joined \cup {s}
  /\ members' = members \cup {s}
  /\ base' = [base EXCEPT ![s] =
                IF Len(log) > MaxRecent THEN Len(log) - MaxRecent ELSE 0]
  /\ end' = [end EXCEPT ![s] = Len(log)]
  /\ UNCHANGED <<log, inbox>>

(* One message more; TLC is spared the enumeration of Msg.                 *)
Post ==
  /\ log' # <<>>
  /\ log'[Len(log')] \in Msg
  /\ log' = Append(log, log'[Len(log')])
  /\ end' = [s \in Session |-> IF s \in members THEN Len(log) + 1 ELSE end[s]]
  /\ UNCHANGED <<joined, members, base, inbox>>

Deliver(s) ==
  LET next == base[s] + Len(inbox[s]) + 1
  IN  /\ next <= end[s]
      /\ inbox' = [inbox EXCEPT ![s] = Append(@, log[next])]
      /\ UNCHANGED <<log, joined, members, base, end>>

Quit(s) ==
  /\ members' = members \ {s}
  /\ UNCHANGED <<log, joined, base, end, inbox>>

Next ==
  \/ \E s \in Session : Join(s) \/ Deliver(s) \/ Quit(s)
  \/ Post

Spec == Init /\ [][Next]_vars
=============================================================================
