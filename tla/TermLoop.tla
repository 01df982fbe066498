-------------------------------- MODULE TermLoop --------------------------------
(***************************************************************************)
(* The main loop of the terminal client (term/main.c): select over the     *)
(* keyboard and the socket, then one key (keyb), the command it completes  *)
(* (processEvents), one read from the socket, and the messages that        *)
(* cmd_enter has queued.  Between any two of these steps the user types,   *)
(* the window is resized, and the peer sends, stalls, closes or breaks.    *)
(*                                                                         *)
(* keyb puts at most one event into gInputEventQueue, and processEvents    *)
(* empties it in the same round: the queue is the variable event.  What    *)
(* the editing keys do with the line is the matter of Editor; here it is   *)
(* empty or not.  SIGWINCH is the only signal with a handler, so a select  *)
(* that it interrupts is called again; it is seen here only where it       *)
(* interrupts something else: half a key, a send, a connect.               *)
(***************************************************************************)
EXTENDS Integers, Sequences, FiniteSets

CONSTANTS
  MaxKeys,        \* bound of the model: the keys pressed
  MaxStack,       \* bound of the model: the keys on the control stack
  MaxConnections  \* bound of the model: the connections made

ASSUME TermLoopAssumption ==
  MaxKeys \in Nat /\ MaxStack \in Nat /\ MaxConnections \in Nat \ {0}

Connections == 1 .. MaxConnections
Nobody == 0                        \* a descriptor that is closed
Fds == 3 .. 3 + MaxConnections
NoSocket == -1                     \* of sockfd

(* A key of each kind.  The code of the backtick, the first one that can   *)
(* be printed, is 0.                                                       *)
Backtick == "backtick"
Printable == {Backtick, "k"}
Keys == Printable \cup {"ctrl_x", "ctrl_o", "enter", "backspace", "ctrl_g", "ctrl_d"}

(* keyCommands: a combination and its command.  The macro leaves out the   *)
(* text that a command should insert.                                      *)
keyCommands ==
  {[combo |-> <<"ctrl_x", "ctrl_o">>, cmd |-> "connect"],
   [combo |-> <<"enter">>, cmd |-> "enter"],
   [combo |-> <<"backspace">>, cmd |-> "backspace"],
   [combo |-> <<"k">>, cmd |-> "insert"]}

Event(cmd, text) == [cmd |-> cmd, text |-> text]
NoEvent == Event("none", FALSE)

VARIABLES
  ctrlStack,  \* the keys on the control stack, the last one on top
  event,      \* the event that keyb hands to processEvents
  line,       \* whether the input line holds text
  sockfd,
  conn,       \* the connection of each descriptor, or Nobody
  out,        \* outgoing_queue: messages, by number
  hand,       \* the message that is being sent, or was when the sending failed
  terminate,
  pc,         \* where the loop is, or how the program has ended
  readable,   \* what select has left in read_fds and in write_fds, and
  writable,   \*   what conn was then (history)
  seen,
  tty,        \* "idle", "key": a key waits, "part": of a key, "eof"
  pressed,    \* how many keys have been pressed
  peer,       \* how each connection stands
  inbox,      \* the connections with data to be read
  full,       \* the connections that take no more data now
  entered,    \* how many messages have been queued (history)
  sent        \* the messages sent whole (history)

keyVars == <<ctrlStack, event, line>>
fdVars == <<sockfd, conn>>
outVars == <<out, hand, entered, sent>>
setVars == <<readable, writable, seen>>
ttyVars == <<tty, pressed>>
peerVars == <<peer, inbox, full>>
vars == <<keyVars, fdVars, outVars, setVars, ttyVars, peerVars, terminate, pc>>

Steps == {"select", "keyb", "events", "read", "write", "dequeue", "send"}
Ended == {"left", "closed", "failed", "killed"}

(* The types; sockfd, once it is set, is an open descriptor.               *)
TypeOK ==
  /\ ctrlStack \in Seq(Keys) /\ line \in BOOLEAN
  /\ event \in [cmd : {"none"} \cup {k.cmd : k \in keyCommands}, text : BOOLEAN]
  /\ conn \in [Fds -> Connections \cup {Nobody}]
  /\ sockfd \in Fds \cup {NoSocket} /\ (sockfd \in Fds => conn[sockfd] # Nobody)
  /\ out \in Seq(Nat) /\ hand \in Seq(Nat) /\ entered \in Nat /\ sent \in Seq(Nat)
  /\ terminate \in BOOLEAN /\ pc \in Steps \cup Ended
  /\ readable \subseteq {0} \cup Fds /\ writable \subseteq Fds
  /\ seen \in [Fds -> Connections \cup {Nobody}]
  /\ tty \in {"idle", "key", "part", "eof"} /\ pressed \in 0 .. MaxKeys
  /\ peer \in [Connections -> {"none", "up", "fin", "reset", "left"}]
  /\ inbox \subseteq Connections /\ full \subseteq Connections

(* client_init has connected before the loop begins.                       *)
Init ==
  /\ ctrlStack = <<>> /\ event = NoEvent /\ line = FALSE
  /\ sockfd = 3 /\ conn = [fd \in Fds |-> IF fd = 3 THEN 1 ELSE Nobody]
  /\ out = <<>> /\ hand = <<>> /\ entered = 0 /\ sent = <<>>
  /\ terminate = FALSE /\ pc = "select"
  /\ readable = {} /\ writable = {} /\ seen = conn
  /\ tty = "idle" /\ pressed = 0
  /\ peer = [c \in Connections |-> IF c = 1 THEN "up" ELSE "none"]
  /\ inbox = {} /\ full = {}

Closed(c) == peer[c] \in {"fin", "reset"}
Takes(c) == c \notin full \/ peer[c] = "reset"

-----------------------------------------------------------------------------
(* select.                                                                 *)

(* The bits of other descriptors in write_fds, which is never zeroed, are  *)
(* overwritten by select with the others, and nobody asks for them.        *)
Select ==
  LET sock == {sockfd} \ {NoSocket}
      in == {fd \in sock : conn[fd] \in inbox \/ Closed(conn[fd])}
              \cup {fd \in {0} : tty # "idle"}
      ready == {fd \in sock : Takes(conn[fd])}
  IN /\ pc = "select" /\ in \cup ready # {}
     /\ readable' = in /\ writable' = ready /\ seen' = conn
     /\ pc' = IF 0 \in in THEN "keyb" ELSE "read"
     /\ UNCHANGED <<keyVars, fdVars, outVars, ttyVars, peerVars, terminate>>

-----------------------------------------------------------------------------
(* keyb and the control stack.                                             *)

(* clearCtrlStack pops until popCtrlStack returns 0: it stops behind a     *)
(* backtick, or when the stack is empty.                                   *)
Cleared(stack) ==
  LET kept == {0} \cup {i - 1 : i \in {j \in 1 .. Len(stack) : stack[j] = Backtick}}
  IN SubSeq(stack, 1, CHOOSE n \in kept : \A m \in kept : m <= n)

(* Mutant: keys below the combination do not matter.                      *)
Push_Suffix(key) ==
  LET stack == Append(ctrlStack, key)
      found == {k \in keyCommands : \E n \in 0 .. Len(ctrlStack) :
                                      k.combo = SubSeq(stack, n + 1, Len(stack))}
  IN /\ Len(stack) <= MaxStack
     /\ \/ found = {} /\ event' = NoEvent /\ ctrlStack' = stack
        \/ \E k \in found : event' = Event(k.cmd, FALSE) /\ ctrlStack' = Cleared(stack)

(* A key is pushed, and the whole stack compared with the combinations.    *)
Push(key) ==
  LET stack == Append(ctrlStack, key)
      found == {k \in keyCommands : k.combo = stack}
  IN /\ Len(stack) <= MaxStack
     /\ \/ found = {} /\ event' = NoEvent /\ ctrlStack' = stack
        \/ \E k \in found : event' = Event(k.cmd, FALSE) /\ ctrlStack' = Cleared(stack)

Keyb(key) ==
  /\ pc = "keyb" /\ tty = "key"
  /\ \/ /\ key \in Printable /\ ctrlStack = <<>>
        /\ event' = Event("insert", TRUE) /\ UNCHANGED ctrlStack
     \/ /\ key = "ctrl_g"
        /\ event' = NoEvent /\ ctrlStack' = Cleared(ctrlStack)
     \/ /\ key # "ctrl_g" /\ (key \notin Printable \/ ctrlStack # <<>>)
        /\ Push(key)
  /\ terminate' = (key = "ctrl_d")
  /\ tty' = "idle" /\ pc' = "events"
  /\ UNCHANGED <<line, fdVars, outVars, setVars, pressed, peerVars>>

(* read gives nothing at the end of the input, and an error when SIGWINCH  *)
(* interrupts it in the middle of a key, whose first bytes are dropped.    *)
KeybNothing ==
  /\ pc = "keyb" /\ tty \in {"eof", "part"}
  /\ tty' = IF tty = "part" THEN "idle" ELSE tty
  /\ event' = NoEvent /\ terminate' = FALSE /\ pc' = "events"
  /\ UNCHANGED <<ctrlStack, line, fdVars, outVars, setVars, pressed, peerVars>>

-----------------------------------------------------------------------------
(* processEvents.                                                          *)

AtEvent(cmd) == pc = "events" /\ event.cmd = cmd

(* Mutant: the network waits while the keyboard is ready ("else if ?").   *)
EventDone_ElseIf == event' = NoEvent /\ pc' = IF terminate THEN "left" ELSE "select"

EventDone == event' = NoEvent /\ pc' = "read"

Edit ==
  /\ \/ AtEvent("none") /\ line' = line
     \/ AtEvent("insert") /\ line' = TRUE
     \/ AtEvent("backspace") /\ line' \in {line, FALSE}
  /\ EventDone
  /\ UNCHANGED <<ctrlStack, fdVars, outVars, setVars, ttyVars, peerVars, terminate>>

(* cmd_enter.  Without a connection the text is only shown.                *)
Enter ==
  /\ AtEvent("enter")
  /\ line' = FALSE
  /\ IF line /\ sockfd # NoSocket
     THEN entered' = entered + 1 /\ out' = Append(out, entered')
     ELSE UNCHANGED <<entered, out>>
  /\ EventDone
  /\ UNCHANGED <<ctrlStack, fdVars, hand, sent, setVars, ttyVars, peerVars, terminate>>

(* Nobody asks for the connection that sockfd leaves behind.               *)
Left == {conn[fd] : fd \in {sockfd} \ {NoSocket}}
Leave(peers) == [c \in Connections |-> IF c \in Left THEN "left" ELSE peers[c]]

(* socket takes the lowest free descriptor.                                *)
Lowest(fd, open) == open[fd] = Nobody /\ \A lower \in Fds : open[lower] = Nobody => fd <= lower

(* Mutant: the old socket is closed first, and its number given again.    *)
ConnectOk_Closes(fd, c) ==
  LET open == [f \in Fds |-> IF f = sockfd THEN Nobody ELSE conn[f]]
  IN /\ AtEvent("connect")
     /\ Lowest(fd, open) /\ peer[c] = "none"
     /\ sockfd' = fd /\ conn' = [open EXCEPT ![fd] = c]
     /\ peer' = Leave([peer EXCEPT ![c] = "up"])
     /\ inbox' = inbox \ Left /\ full' = full \ Left
     /\ EventDone
     /\ UNCHANGED <<ctrlStack, line, outVars, setVars, ttyVars, terminate>>

(* connect_to_server: the old socket, if there is one, stays open.         *)
ConnectOk(fd, c) ==
  /\ AtEvent("connect")
  /\ Lowest(fd, conn) /\ peer[c] = "none"
  /\ sockfd' = fd /\ conn' = [conn EXCEPT ![fd] = c]
  /\ peer' = Leave([peer EXCEPT ![c] = "up"])
  /\ inbox' = inbox \ Left /\ full' = full \ Left
  /\ EventDone
  /\ UNCHANGED <<ctrlStack, line, outVars, setVars, ttyVars, terminate>>

(* Mutant: a socket whose connect has failed is closed and kept.          *)
ConnectFails_Keeps ==
  /\ AtEvent("connect")
  /\ \E fd \in Fds : Lowest(fd, conn) /\ sockfd' = fd
  /\ peer' = Leave(peer) /\ inbox' = inbox \ Left /\ full' = full \ Left
  /\ EventDone
  /\ UNCHANGED <<ctrlStack, line, conn, outVars, setVars, ttyVars, terminate>>

(* It fails, or is interrupted: the new socket is closed again.            *)
ConnectFails ==
  /\ AtEvent("connect")
  /\ sockfd' = NoSocket
  /\ peer' = Leave(peer) /\ inbox' = inbox \ Left /\ full' = full \ Left
  /\ EventDone
  /\ UNCHANGED <<ctrlStack, line, conn, outVars, setVars, ttyVars, terminate>>

-----------------------------------------------------------------------------
(* The socket.  sockfd may have been changed since select.                 *)

Idle == <<keyVars, fdVars, setVars, ttyVars>>  \* what the steps below leave alone

NotReadable ==
  /\ pc = "read" /\ sockfd \notin readable
  /\ pc' = "write"
  /\ UNCHANGED <<Idle, outVars, peerVars, terminate>>

ReadData ==
  /\ pc = "read" /\ sockfd \in readable /\ conn[sockfd] \in inbox
  /\ inbox' \in {inbox, inbox \ {conn[sockfd]}}  \* a buffer full, or all
  /\ pc' = "write"
  /\ UNCHANGED <<Idle, outVars, peer, full, terminate>>

ReadEnds ==
  /\ pc = "read" /\ sockfd \in readable /\ conn[sockfd] \notin inbox
  /\ \/ peer[conn[sockfd]] = "fin" /\ pc' = "closed"
     \/ peer[conn[sockfd]] = "reset" /\ pc' = "failed"
  /\ UNCHANGED <<Idle, outVars, peerVars, terminate>>

AskWrite ==
  /\ pc = "write" /\ sockfd \in writable
  /\ pc' = "dequeue"
  /\ UNCHANGED <<Idle, outVars, peerVars, terminate>>

EndRound ==
  /\ \/ pc = "write" /\ sockfd \notin writable
     \/ pc = "dequeue" /\ out = <<>>
  /\ pc' = IF terminate THEN "left" ELSE "select"
  /\ readable' = {} /\ writable' = {}  \* the next select overwrites them
  /\ UNCHANGED <<keyVars, fdVars, outVars, seen, ttyVars, peerVars, terminate>>

Dequeue ==
  /\ pc = "dequeue" /\ out # <<>>
  /\ hand' = <<Head(out)>> /\ out' = Tail(out)
  /\ pc' = "send"
  /\ UNCHANGED <<Idle, entered, sent, peerVars, terminate>>

(* After each message, sent or not, terminate is asked for: it also ends   *)
(* the sending when it was Ctrl-D that set it.                             *)
NextMessage == pc' = IF terminate' THEN "left" ELSE "dequeue"

(* The calls of send that take a message to its end; each waits for room.  *)
(* A peer that has closed may answer with a reset.                         *)
SendWhole ==
  LET c == conn[sockfd]
  IN /\ pc = "send" /\ peer[c] # "reset" /\ c \notin full
     /\ sent' = sent \o hand /\ hand' = <<>>
     /\ peer' \in {peer, IF Closed(c) THEN [peer EXCEPT ![c] = "reset"] ELSE peer}
     /\ terminate' = terminate /\ NextMessage
     /\ UNCHANGED <<Idle, out, entered, inbox, full>>

(* Mutant: the loop goes on with the next message.                        *)
SendFails_GoesOn ==
  LET c == conn[sockfd]
  IN /\ pc = "send" /\ (peer[c] = "reset" \/ c \in full)
     /\ pc' = "dequeue" /\ terminate' = TRUE
     /\ UNCHANGED <<Idle, outVars, peerVars>>

(* send fails: the connection is broken, or SIGWINCH interrupts the wait   *)
(* for room.  The message is freed, the program ends.                      *)
SendFails ==
  LET c == conn[sockfd]
  IN /\ pc = "send" /\ (peer[c] = "reset" \/ c \in full)
     /\ terminate' = TRUE /\ NextMessage
     /\ UNCHANGED <<Idle, outVars, peerVars>>

(* Nothing handles SIGPIPE.                                                *)
SendKills ==
  /\ pc = "send" /\ peer[conn[sockfd]] = "reset"
  /\ pc' = "killed"
  /\ UNCHANGED <<Idle, outVars, peerVars, terminate>>

Loop ==
  \/ Select \/ \E key \in Keys : Keyb(key)
  \/ Edit \/ Enter \/ ConnectFails
  \/ \E fd \in Fds, c \in Connections : ConnectOk(fd, c)
  \/ NotReadable \/ ReadData \/ ReadEnds
  \/ AskWrite \/ EndRound \/ Dequeue \/ SendWhole \/ SendKills

(* Steps that take SIGWINCH, or the end of the input.                      *)
Interrupted == KeybNothing \/ SendFails

-----------------------------------------------------------------------------
(* The user and the peer at the other end of sockfd.  What they do shows   *)
(* when the loop asks for it: at select, and the peer also at read and at  *)
(* each send.  Nobody asks for the connections that were left open.        *)

Press(arrives) ==
  /\ pc = "select" /\ tty = "idle" /\ pressed < MaxKeys
  /\ tty' = arrives /\ pressed' = pressed + 1
  /\ UNCHANGED <<keyVars, fdVars, outVars, setVars, peerVars, terminate, pc>>

TtyGoes(from, to) ==
  /\ pc \in {"select", "keyb"} /\ tty = from /\ tty' = to
  /\ UNCHANGED <<keyVars, fdVars, outVars, setVars, pressed, peerVars, terminate, pc>>

Asked == pc \in {"select", "read", "send"}

PeerMoves(c, from, to) ==
  /\ Asked /\ peer[c] \in from /\ peer' = [peer EXCEPT ![c] = to]
  /\ UNCHANGED <<keyVars, fdVars, outVars, setVars, ttyVars, inbox, full, terminate, pc>>

PeerSends(c) ==
  /\ Asked /\ peer[c] = "up" /\ inbox' = inbox \cup {c}
  /\ UNCHANGED <<keyVars, fdVars, outVars, setVars, ttyVars, peer, full, terminate, pc>>

PeerStalls(c) ==
  /\ Asked /\ peer[c] = "up" /\ full' \in {full \cup {c}, full \ {c}}
  /\ UNCHANGED <<keyVars, fdVars, outVars, setVars, ttyVars, peer, inbox, terminate, pc>>

Environment ==
  \/ Press("key") \/ Press("part") \/ TtyGoes("part", "key") \/ TtyGoes("idle", "eof")
  \/ \E c \in {conn[fd] : fd \in {sockfd} \ {NoSocket}} :
       \/ PeerMoves(c, {"up"}, "fin") \/ PeerMoves(c, {"up", "fin"}, "reset")
       \/ PeerSends(c) \/ PeerStalls(c)

Next == pc \notin Ended /\ (Loop \/ Interrupted \/ Environment)

Spec == Init /\ [][Next]_vars

(* The program is not stopped, and the end of the input is read at once.   *)
FairSpec == Spec /\ WF_vars(Loop) /\ WF_vars(tty = "eof" /\ KeybNothing)

-----------------------------------------------------------------------------
(* Properties.                                                             *)

(* No insert without a text reaches processEvents, though the table has    *)
(* two and whatever keys are left on the control stack: cmd_insert would   *)
(* take the length of a null pointer.                                      *)
InsertHasText == event.cmd = "insert" => event.text

(* The messages entered go out whole, once and in order, over whatever     *)
(* connections there are; one is lost at most, when a send has failed, and *)
(* nothing is sent after it.                                               *)
EnteredIsSent ==
  /\ sent \o hand \o out = [i \in 1 .. entered |-> i]
  /\ hand # <<>> => pc = "send" \/ terminate \/ pc \in Ended

(* When the socket is read it is the one that select has reported, and     *)
(* there is something to be read; when messages are sent, it is the one    *)
(* that select found ready: also when the key of this round has connected. *)
SocketIsSeen ==
  /\ pc = "read" /\ sockfd \in readable =>
       /\ conn[sockfd] = seen[sockfd]
       /\ conn[sockfd] \in inbox \/ Closed(conn[sockfd])
  /\ pc \in {"write", "dequeue"} /\ sockfd \in writable => conn[sockfd] = seen[sockfd]

(* What can hold up a message: no connection, a peer that does not read,   *)
(* the first bytes of a key whose last ones do not come.                   *)
HeldUp ==
  \/ sockfd = NoSocket \/ (sockfd # NoSocket /\ conn[sockfd] \in full)
  \/ pc = "keyb" /\ tty = "part"

(* Nothing else holds it up, in particular no key and no end of the input. *)
QueuedIsSent == out # <<>> ~> out = <<>> \/ pc \in Ended \/ HeldUp
=============================================================================
