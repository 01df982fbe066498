------------------------------ MODULE SelectServer ------------------------------
(***************************************************************************)
(* The select server of term/srv.c: one loop that waits in select, then    *)
(* walks the descriptors which select reported, from the lowest one on.    *)
(* The listener accepts into the first free slot of client_fds, a line of  *)
(* the standard input is sent to every client, a client is received from.  *)
(* The sockets block: a send to a client that does not read waits, and the *)
(* whole server with it.                                                   *)
(*                                                                         *)
(* The standard input is a terminal, which gives fgets one line at a time. *)
(* Descriptors are numbers and are given again once they are closed, the   *)
(* lowest first; the listener has been opened before any client.  Beside   *)
(* them stands the connection that each of them means: the server never    *)
(* knows it, the properties ask for it.  Between two steps of the walk the *)
(* peers connect, send, close and break as they like.                      *)
(***************************************************************************)
EXTENDS Integers, FiniteSets

CONSTANTS
  MaxClients,   \* MAX_CLIENTS
  Connections,  \* every connection that is ever made
  MaxTyped      \* bound of the model: lines that wait on the standard input

ASSUME ConstantsAssumption ==
  /\ MaxClients \in Nat \ {0}
  /\ MaxTyped \in Nat

Stdin == 0
Listener == 3
ClientFds == 4 .. 4 + MaxClients  \* a full table and the one refused
Slots == 0 .. MaxClients - 1
Free == -1                        \* of a slot of client_fds
Nobody == "nobody"                \* a descriptor that is closed

ASSUME NobodyAssumption == Nobody \notin Connections

VARIABLES
  client_fds,  \* the table
  conn,        \* the connection of each descriptor, or Nobody
  peer,        \* how each connection stands
  data,        \* the connections with data to be received
  full,        \* the connections that take no more until their peer reads
  typed,       \* lines on the standard input, and whether it has ended
  eof,
  pc,          \* "select", "walk", "send", or "killed" by SIGPIPE
  slot,        \* the slot whose client the line is sent to next
  ready,       \* the descriptors in read_fds that are still to be walked
  seen         \* what conn was when select returned (history)

lineVars == <<typed, eof, slot>>
vars == <<client_fds, conn, peer, data, full, lineVars, pc, ready, seen>>

(* The types; between lines no slot is left to be sent to.                 *)
TypeOK ==
  /\ client_fds \in [Slots -> ClientFds \cup {Free}]
  /\ conn \in [ClientFds -> Connections \cup {Nobody}]
  /\ peer \in [Connections -> {"none", "backlog", "up", "fin", "reset", "gone"}]
  /\ data \subseteq Connections /\ full \subseteq Connections
  /\ typed \in 0 .. MaxTyped /\ eof \in BOOLEAN
  /\ slot \in 0 .. MaxClients /\ (pc \in {"select", "walk"} => slot = MaxClients)
  /\ pc \in {"select", "walk", "send", "killed"}
  /\ ready \subseteq {Stdin, Listener} \cup ClientFds
  /\ seen \in [ClientFds -> Connections \cup {Nobody}]

Init ==
  /\ client_fds = [j \in Slots |-> Free]
  /\ conn = [fd \in ClientFds |-> Nobody]
  /\ peer = [c \in Connections |-> "none"]
  /\ data = {} /\ full = {}
  /\ typed = 0 /\ eof = FALSE /\ slot = MaxClients
  /\ pc = "select" /\ ready = {} /\ seen = conn

Tabled == {client_fds[j] : j \in Slots} \ {Free}
Closed(c) == peer[c] \in {"fin", "reset"}

-----------------------------------------------------------------------------
(* The server.                                                             *)

(* What select would report now, of the descriptors in master_set.         *)
Readable ==
  {fd \in Tabled : conn[fd] \in data \/ (conn[fd] # Nobody /\ Closed(conn[fd]))}
    \cup {fd \in {Stdin} : typed > 0 \/ eof}
    \cup {fd \in {Listener} : \E c \in Connections : peer[c] = "backlog"}

Select ==
  /\ pc = "select" /\ Readable # {}
  /\ pc' = "walk" /\ ready' = Readable /\ seen' = conn
  /\ UNCHANGED <<client_fds, conn, peer, data, full, lineVars>>

(* The walk has come to fd, and goes on behind it.                         *)
At(fd) ==
  /\ pc = "walk" /\ fd \in ready
  /\ \A other \in ready : fd <= other
  /\ ready' = ready \ {fd}

EndWalk ==
  /\ pc = "walk" /\ ready = {}
  /\ pc' = "select"
  /\ UNCHANGED <<client_fds, conn, peer, data, full, lineVars, ready, seen>>

(* accept: the lowest descriptor, into the lowest free slot.               *)
Accept(c, fd, j) ==
  /\ At(Listener) /\ peer[c] = "backlog"
  /\ conn[fd] = Nobody /\ \A lower \in ClientFds : conn[lower] = Nobody => fd <= lower
  /\ client_fds[j] = Free /\ \A lower \in Slots : client_fds[lower] = Free => j <= lower
  /\ conn' = [conn EXCEPT ![fd] = c]
  /\ client_fds' = [client_fds EXCEPT ![j] = fd]
  /\ peer' = [peer EXCEPT ![c] = "up"]
  /\ UNCHANGED <<data, full, lineVars, pc, seen>>

(* accept with a full table: the new descriptor is closed at once.         *)
Refuse(c) ==
  /\ At(Listener) /\ peer[c] = "backlog"
  /\ \A j \in Slots : client_fds[j] # Free
  /\ peer' = [peer EXCEPT ![c] = "gone"]
  /\ UNCHANGED <<client_fds, conn, data, full, lineVars, pc, seen>>

(* accept fails: the connection has broken before.                         *)
AcceptFails(c) ==
  /\ At(Listener) /\ peer[c] = "backlog"
  /\ peer' = [peer EXCEPT ![c] = "gone"]
  /\ UNCHANGED <<client_fds, conn, data, full, lineVars, pc, seen>>

(* A line is read, and goes to the clients of the slots one by one.        *)
ReadLine ==
  /\ At(Stdin) /\ typed > 0
  /\ typed' = typed - 1
  /\ pc' = "send" /\ slot' = 0
  /\ UNCHANGED <<client_fds, conn, peer, data, full, eof, seen>>

Sending(j) == pc = "send" /\ slot = j
Receiver(j) == conn[client_fds[j]]

SkipSlot(j) ==
  /\ Sending(j) /\ client_fds[j] = Free
  /\ slot' = j + 1
  /\ UNCHANGED <<client_fds, conn, peer, data, full, typed, eof, pc, ready, seen>>

(* send returns when there is room for the line, of which it may take the  *)
(* last; until then it waits.  It also takes what is sent to a peer that   *)
(* has closed, which may answer with a reset (PeerBreaks).                 *)
Send(j) ==
  /\ Sending(j) /\ client_fds[j] # Free
  /\ peer[Receiver(j)] # "reset" /\ Receiver(j) \notin full
  /\ slot' = j + 1
  /\ full' \in {full, full \cup {Receiver(j)}}
  /\ UNCHANGED <<client_fds, conn, peer, data, typed, eof, pc, ready, seen>>

(* Mutant: a client that send fails for is thrown out at once.            *)
SendFails_Drops(j) ==
  /\ Sending(j) /\ client_fds[j] # Free
  /\ peer[Receiver(j)] = "reset"
  /\ slot' = j + 1
  /\ conn' = [conn EXCEPT ![client_fds[j]] = Nobody]
  /\ client_fds' = [client_fds EXCEPT ![j] = Free]
  /\ peer' = [peer EXCEPT ![Receiver(j)] = "gone"]
  /\ UNCHANGED <<data, full, typed, eof, pc, ready, seen>>

(* After a reset it fails, which is only printed, or raises SIGPIPE, which *)
(* nothing handles.                                                        *)
SendFails(j) ==
  /\ Sending(j) /\ client_fds[j] # Free
  /\ peer[Receiver(j)] = "reset"
  /\ slot' = j + 1 /\ pc' \in {pc, "killed"}
  /\ UNCHANGED <<client_fds, conn, peer, data, full, typed, eof, ready, seen>>

LineSent ==
  /\ Sending(MaxClients)
  /\ pc' = "walk"
  /\ UNCHANGED <<client_fds, conn, peer, data, full, lineVars, ready, seen>>

(* At the end of the standard input fgets returns NULL: nothing is done,   *)
(* and select reports it again.                                            *)
ReadEof ==
  /\ At(Stdin) /\ typed = 0 /\ eof
  /\ UNCHANGED <<client_fds, conn, peer, data, full, lineVars, pc, seen>>

(* recv from a client: data is printed.                                    *)
Recv(fd) ==
  /\ At(fd) /\ fd \in ClientFds
  /\ conn[fd] \in data
  /\ data' = data \ {conn[fd]}
  /\ UNCHANGED <<client_fds, conn, peer, full, lineVars, pc, seen>>

(* Mutants: recv of 0 is taken for an empty message; the slot is kept.     *)
RecvEnds_Stays(fd) ==
  /\ At(fd) /\ fd \in ClientFds
  /\ conn[fd] \notin data /\ conn[fd] # Nobody /\ Closed(conn[fd])
  /\ UNCHANGED <<client_fds, conn, peer, data, full, lineVars, pc, seen>>
RecvEnds_KeepsSlot(fd) ==
  /\ At(fd) /\ fd \in ClientFds
  /\ conn[fd] \notin data /\ conn[fd] # Nobody /\ Closed(conn[fd])
  /\ conn' = [conn EXCEPT ![fd] = Nobody]
  /\ UNCHANGED <<client_fds, peer, data, full, lineVars, pc, seen>>

(* recv returns 0 or an error: the descriptor is closed, its slot freed.   *)
RecvEnds(fd) ==
  /\ At(fd) /\ fd \in ClientFds
  /\ conn[fd] \notin data /\ conn[fd] # Nobody /\ Closed(conn[fd])
  /\ conn' = [conn EXCEPT ![fd] = Nobody]
  /\ client_fds' = [j \in Slots |-> IF client_fds[j] = fd THEN Free ELSE client_fds[j]]
  /\ peer' = [peer EXCEPT ![conn[fd]] = "gone"]
  /\ full' = full \ {conn[fd]}
  /\ UNCHANGED <<data, lineVars, pc, seen>>

Round ==
  \/ Select \/ EndWalk
  \/ \E c \in Connections :
       Refuse(c) \/ AcceptFails(c) \/ \E fd \in ClientFds, j \in Slots : Accept(c, fd, j)
  \/ ReadLine \/ LineSent \/ ReadEof
  \/ \E j \in Slots : SkipSlot(j) \/ Send(j) \/ SendFails(j)
  \/ \E fd \in ClientFds : Recv(fd) \/ RecvEnds(fd)

-----------------------------------------------------------------------------
(* The user at the server's terminal, and the peers.                       *)

Type ==
  /\ typed < MaxTyped /\ ~eof
  /\ typed' = typed + 1
  /\ UNCHANGED <<client_fds, conn, peer, data, full, eof, slot, pc, ready, seen>>

EndInput ==
  /\ ~eof /\ eof' = TRUE
  /\ UNCHANGED <<client_fds, conn, peer, data, full, typed, slot, pc, ready, seen>>

PeerMoves(c, from, to) ==
  /\ peer[c] \in from /\ peer' = [peer EXCEPT ![c] = to]
  /\ UNCHANGED <<client_fds, conn, data, full, lineVars, pc, ready, seen>>

Connect(c) == PeerMoves(c, {"none"}, "backlog")
PeerCloses(c) == PeerMoves(c, {"up"}, "fin")
PeerBreaks(c) == PeerMoves(c, {"up", "fin"}, "reset")

PeerSends(c) ==
  /\ peer[c] = "up" /\ c \notin data
  /\ data' = data \cup {c}
  /\ UNCHANGED <<client_fds, conn, peer, full, lineVars, pc, ready, seen>>

PeerReads(c) ==
  /\ c \in full /\ peer[c] # "reset"
  /\ full' = full \ {c}
  /\ UNCHANGED <<client_fds, conn, peer, data, lineVars, pc, ready, seen>>

Environment ==
  \/ Type \/ EndInput
  \/ \E c \in Connections :
       Connect(c) \/ PeerCloses(c) \/ PeerBreaks(c) \/ PeerSends(c) \/ PeerReads(c)

Next == pc # "killed" /\ (Round \/ Environment)

Spec == Init /\ [][Next]_vars

(* The server goes on whenever it does not wait, in select for something   *)
(* to be reported or in send for a peer to read.                           *)
FairSpec == Spec /\ WF_vars(Round)

-----------------------------------------------------------------------------
(* Properties.                                                             *)

(* A descriptor is open exactly when it has a slot of client_fds, and it   *)
(* has one slot: no connection is leaked and none is sent a line twice.    *)
TableIsOpen ==
  /\ Tabled = {fd \in ClientFds : conn[fd] # Nobody}
  /\ \A i, j \in Slots : client_fds[i] = client_fds[j] => i = j \/ client_fds[i] = Free

(* A descriptor that select has reported and the walk has not reached is   *)
(* still that of the same connection, whatever was accepted and whatever   *)
(* send has failed before: recv is never called on a closed descriptor, or *)
(* on a new connection that has sent nothing.                              *)
SeenIsSame ==
  pc \in {"walk", "send"} =>
    \A fd \in ready \cap ClientFds : conn[fd] # Nobody /\ conn[fd] = seen[fd]

(* The one place but select where the server waits: a send to a client     *)
(* that does not read.  Nobody else is served meanwhile.                   *)
HeldUp ==
  \E j \in Slots :
    /\ Sending(j) /\ client_fds[j] # Free
    /\ Receiver(j) \in full /\ peer[Receiver(j)] # "reset"

(* As long as no client holds up a send for ever, a connection whose peer  *)
(* has closed gives up its slot, whatever the others send, even when the   *)
(* standard input has ended and every select returns at once; unless       *)
(* SIGPIPE kills the server before.                                        *)
ClosedIsReleased ==
  []<>~HeldUp =>
    \A c \in Connections : peer[c] = "fin" ~> pc = "killed" \/ peer[c] = "gone"
=============================================================================
