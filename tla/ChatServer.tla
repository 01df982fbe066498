------------------------------ MODULE ChatServer ------------------------------
(***************************************************************************)
(* The chat server of srv/: one ChatRoom and the PersonInRoom sessions     *)
(* that its Server accepts.  Everything runs in the handlers of one        *)
(* io_service drained by a single worker thread (MainServer.cpp), so a     *)
(* handler is one atomic action; the order in which ready handlers run,    *)
(* the peers, the network and the clock are nondeterministic.              *)
(*                                                                         *)
(* An asynchronous operation is "in the air" until the environment         *)
(* completes it, which queues its handler with a success or an error; the  *)
(* handler runs in a later step.  Closing a socket completes what is in    *)
(* the air on it with an error, and an operation started on a closed       *)
(* socket fails at once.                                                   *)
(***************************************************************************)
EXTENDS Integers, Sequences

CONSTANTS
  Session,       \* the PersonInRoom objects the server may create
  MaxRecent,     \* max_recent_msgs: the history replayed to a newcomer
  MaxPackSize,   \* MAX_PACK_SIZE: the longest body a header may announce
  HeaderLength,  \* the lengths peers put in headers
  MaxBody        \* bound of the model: bodies one peer sends

ASSUME ConstantsAssumption ==
  /\ MaxRecent \in Nat \ {0}
  /\ MaxPackSize \in Nat
  /\ HeaderLength \subseteq Nat
  /\ MaxBody \in Nat

VARIABLES
  members,    \* ChatRoom::participants_
  recent,     \* ChatRoom::recent_msgs_
  conn,       \* the socket of a session: "none" before it is accepted
  rd,         \* its one read operation: what is read, and how it stands
  hdr,        \* the length in read_msg_ once a header was read
  got,        \* bodies read so far; the last of them is in read_msg_
  wq,         \* write_msgs_
  writing,    \* async_writes in the air
  written,    \* WriteHandlers queued with a success
  failed,     \* WriteHandlers queued with an error
  deadline,   \* deadline_.expiry(): "max", "set" (to come) or "past"
  waiting,    \* async_waits of deadline_ in the air
  fired,      \* CheckDeadlines queued, expired or cancelled
  log,        \* history: all broadcasts of the room, in order
  base,       \* history: where in the log a session's stream starts
  delivered   \* history: what was written to a session's peer

roomVars  == <<members, recent, log>>
writeVars == <<wq, writing, written, failed, delivered>>
timerVars == <<deadline, waiting, fired>>
vars == <<roomVars, conn, rd, hdr, got, writeVars, timerVars, base>>

(* A message is named by its sender and its number in the sender's order.  *)
Message == [from : Session, n : Nat]

ReadState == {"new", "none", "hdrWait", "hdrOk", "hdrErr",
              "bodyWait", "bodyOk", "bodyErr"}

Open(s) == conn[s] \in {"up", "broken"}

RoomTypeOK ==
  /\ members \subseteq Session
  /\ recent \in Seq(Message)
  /\ Len(recent) <= MaxRecent
  /\ log \in Seq(Message)

ReadTypeOK ==
  /\ conn \in [Session -> {"none", "up", "broken", "closed"}]
  /\ rd \in [Session -> ReadState]
  /\ hdr \in [Session -> Nat]
  /\ got \in [Session -> Nat]
  /\ base \in [Session -> Int]

WriteTypeOK ==
  /\ wq \in [Session -> Seq(Message)]
  /\ writing \in [Session -> Nat]
  /\ written \in [Session -> Nat]
  /\ failed \in [Session -> Nat]
  /\ delivered \in [Session -> Seq(Message)]

TimerTypeOK ==
  /\ deadline \in [Session -> {"max", "set", "past"}]
  /\ waiting \in [Session -> Nat]
  /\ fired \in [Session -> Nat]

(* The types; the history is within its limit.                             *)
TypeOK == RoomTypeOK /\ ReadTypeOK /\ WriteTypeOK /\ TimerTypeOK

Init ==
  /\ members = {}
  /\ recent = <<>>
  /\ conn = [s \in Session |-> "none"]
  /\ rd = [s \in Session |-> "new"]
  /\ hdr = [s \in Session |-> 0]
  /\ got = [s \in Session |-> 0]
  /\ wq = [s \in Session |-> <<>>]
  /\ writing = [s \in Session |-> 0]
  /\ written = [s \in Session |-> 0]
  /\ failed = [s \in Session |-> 0]
  /\ deadline = [s \in Session |-> "max"]
  /\ waiting = [s \in Session |-> 0]
  /\ fired = [s \in Session |-> 0]
  /\ log = <<>>
  /\ base = [s \in Session |-> 0]
  /\ delivered = [s \in Session |-> <<>>]

-----------------------------------------------------------------------------
(* Starting asynchronous operations.                                       *)

(* async_write of the front of write_msgs_ for every session of S.         *)
StartWrite(S) ==
  /\ writing' = [s \in Session |->
                   writing[s] + IF s \in S /\ Open(s) THEN 1 ELSE 0]
  /\ failed' = [s \in Session |->
                  failed[s] + IF s \in S /\ ~Open(s) THEN 1 ELSE 0]

(* async_read of a header or of a body into read_msg_.                     *)
StartRead(s, wait, err) ==
  rd' = [rd EXCEPT ![s] = IF Open(s) THEN wait ELSE err]

(* deadline_.expires_after / expires_at: the waits in the air are          *)
(* cancelled, which queues their handlers too.                             *)
SetDeadline(s, when) ==
  /\ deadline' = [deadline EXCEPT ![s] = when]
  /\ fired' = [fired EXCEPT ![s] = @ + waiting[s]]
  /\ waiting' = [waiting EXCEPT ![s] = 0]

(* Mutant: writes at once, even while a write is in progress.              *)
OnMessage_AlwaysWrites(S, m) ==
  /\ wq' = [s \in Session |-> IF s \in S THEN Append(wq[s], m) ELSE wq[s]]
  /\ StartWrite(S)

(* PersonInRoom::OnMessage with m, for every session of S.                 *)
OnMessage(S, m) ==
  /\ wq' = [s \in Session |-> IF s \in S THEN Append(wq[s], m) ELSE wq[s]]
  /\ StartWrite({s \in S : wq[s] = <<>>})

-----------------------------------------------------------------------------
(* The room.                                                               *)

(* Mutants: the history is never trimmed; it is trimmed one too early.     *)
Remember_NoTrim(m) == Append(recent, m)
Remember_TrimEarly(m) ==
  LET longer == Append(recent, m)
  IN  IF Len(longer) >= MaxRecent THEN Tail(longer) ELSE longer

(* The history with m appended, trimmed to MaxRecent messages.             *)
Remember(m) ==
  LET longer == Append(recent, m)
  IN  IF Len(longer) > MaxRecent THEN Tail(longer) ELSE longer

(* Mutant: the newcomer is not sent the history.                           *)
Enter_NoReplay(s) ==
  /\ members' = members \cup {s}
  /\ base' = [base EXCEPT ![s] = Len(log) - Len(recent)]
  /\ UNCHANGED <<recent, log, writeVars>>

(* ChatRoom::Enter: the newcomer is sent the recent messages.              *)
Enter(s) ==
  /\ members' = members \cup {s}
  /\ wq' = [wq EXCEPT ![s] = @ \o recent]
  /\ StartWrite(IF wq[s] = <<>> /\ recent # <<>> THEN {s} ELSE {})
  /\ base' = [base EXCEPT ![s] = Len(log) - Len(recent)]
  /\ UNCHANGED <<recent, log, written, delivered>>

Leave(s) == members' = members \ {s}

(* Mutant: the sender is left out.                                         *)
Broadcast_NoEcho(m) ==
  /\ recent' = Remember(m)
  /\ log' = Append(log, m)
  /\ OnMessage(members \ {m.from}, m)
  /\ UNCHANGED <<members, written, delivered>>

(* ChatRoom::Broadcast: to the history, then to every member.              *)
Broadcast(m) ==
  /\ recent' = Remember(m)
  /\ log' = Append(log, m)
  /\ OnMessage(members, m)
  /\ UNCHANGED <<members, written, delivered>>

-----------------------------------------------------------------------------
(* The handlers.                                                           *)

(* Server::OnAccept without an error: PersonInRoom::Start checks the       *)
(* deadline (not set yet, so it only waits), reads a header and enters.    *)
OnAccept(s) ==
  /\ rd[s] = "new"
  /\ Open(s)
  /\ waiting' = [waiting EXCEPT ![s] = @ + 1]
  /\ StartRead(s, "hdrWait", "hdrErr")
  /\ Enter(s)
  /\ UNCHANGED <<conn, hdr, got, deadline, fired>>

(* Mutant: the session reads no more and stays in the room.                *)
StopReading_NoLeave(s) ==
  /\ rd' = [rd EXCEPT ![s] = "none"]
  /\ UNCHANGED <<roomVars, writeVars, timerVars>>

(* The session reads no more and leaves; its socket is not closed.         *)
StopReading(s) ==
  /\ rd' = [rd EXCEPT ![s] = "none"]
  /\ Leave(s)
  /\ UNCHANGED <<recent, log, writeVars, timerVars>>

(* Mutant: the body is read without a time limit.                          *)
HeaderHandler_NoDeadline(s) ==
  /\ \/ /\ rd[s] = "hdrOk"
        /\ hdr[s] <= MaxPackSize
        /\ StartRead(s, "bodyWait", "bodyErr")
        /\ UNCHANGED <<roomVars, writeVars, timerVars>>
     \/ /\ rd[s] = "hdrErr" \/ (rd[s] = "hdrOk" /\ hdr[s] > MaxPackSize)
        /\ StopReading(s)
  /\ hdr' = [hdr EXCEPT ![s] = 0]
  /\ UNCHANGED <<conn, got, base>>

(* PersonInRoom::HeaderHandler: a body of an acceptable length is read     *)
(* under a time limit.                                                     *)
HeaderHandler(s) ==
  /\ \/ /\ rd[s] = "hdrOk"
        /\ hdr[s] <= MaxPackSize
        /\ SetDeadline(s, "set")
        /\ StartRead(s, "bodyWait", "bodyErr")
        /\ UNCHANGED <<roomVars, writeVars>>
     \/ /\ rd[s] = "hdrOk"
        /\ hdr[s] > MaxPackSize
        /\ StopReading(s)
     \/ /\ rd[s] = "hdrErr"
        /\ StopReading(s)
  /\ hdr' = [hdr EXCEPT ![s] = 0]
  /\ UNCHANGED <<conn, got, base>>

(* Mutants: the deadline of the body is not lifted; a body is broadcast    *)
(* only for a member.                                                      *)
ReadHandler_KeepsDeadline(s) ==
  /\ \/ /\ rd[s] = "bodyOk"
        /\ Broadcast([from |-> s, n |-> got[s]])
        /\ StartRead(s, "hdrWait", "hdrErr")
        /\ UNCHANGED timerVars
     \/ /\ rd[s] = "bodyErr"
        /\ StopReading(s)
  /\ UNCHANGED <<conn, hdr, got, base>>
ReadHandler_MembersOnly(s) ==
  /\ \/ /\ rd[s] = "bodyOk"
        /\ SetDeadline(s, "max")
        /\ \/ s \in members /\ Broadcast([from |-> s, n |-> got[s]])
           \/ s \notin members /\ UNCHANGED <<roomVars, writeVars>>
        /\ StartRead(s, "hdrWait", "hdrErr")
     \/ /\ rd[s] = "bodyErr"
        /\ StopReading(s)
  /\ UNCHANGED <<conn, hdr, got, base>>

(* PersonInRoom::ReadHandler: the body read is broadcast, whether or not   *)
(* its sender is still a member, and the next header is read.              *)
ReadHandler(s) ==
  /\ \/ /\ rd[s] = "bodyOk"
        /\ SetDeadline(s, "max")
        /\ Broadcast([from |-> s, n |-> got[s]])
        /\ StartRead(s, "hdrWait", "hdrErr")
     \/ /\ rd[s] = "bodyErr"
        /\ StopReading(s)
  /\ UNCHANGED <<conn, hdr, got, base>>

(* Mutant: the next message of the queue is not written.                   *)
WriteHandlerOk_NoNext(s) ==
  /\ written[s] > 0
  /\ written' = [written EXCEPT ![s] = @ - 1]
  /\ wq' = [wq EXCEPT ![s] = Tail(@)]
  /\ delivered' = [delivered EXCEPT ![s] = Append(@, Head(wq[s]))]
  /\ UNCHANGED <<roomVars, conn, rd, hdr, got, writing, failed, timerVars,
                 base>>

(* PersonInRoom::WriteHandler after a success: the front of the queue has  *)
(* been written, the next message follows.                                 *)
WriteHandlerOk(s) ==
  /\ written[s] > 0
  /\ written' = [written EXCEPT ![s] = @ - 1]
  /\ wq' = [wq EXCEPT ![s] = Tail(@)]
  /\ delivered' = [delivered EXCEPT ![s] = Append(@, Head(wq[s]))]
  /\ StartWrite(IF Len(wq[s]) > 1 THEN {s} ELSE {})
  /\ UNCHANGED <<roomVars, conn, rd, hdr, got, timerVars, base>>

(* PersonInRoom::WriteHandler after an error: the session leaves; what is  *)
(* queued stays queued, and the read operation goes on.                    *)
WriteHandlerErr(s) ==
  /\ failed[s] > 0
  /\ failed' = [failed EXCEPT ![s] = @ - 1]
  /\ Leave(s)
  /\ UNCHANGED <<recent, log, conn, rd, hdr, got, wq, writing, written,
                 delivered, timerVars, base>>

(* What socket_.close() does to the operations in the air of session s.    *)
CloseSocket(s) ==
  /\ conn' = [conn EXCEPT ![s] = "closed"]
  /\ rd' = [rd EXCEPT ![s] = CASE @ = "hdrWait" -> "hdrErr"
                               [] @ = "bodyWait" -> "bodyErr"
                               [] OTHER -> @]
  /\ failed' = [failed EXCEPT ![s] = @ + writing[s]]
  /\ writing' = [writing EXCEPT ![s] = 0]

(* Mutants: the watchdog is not set again after an expiry; the end of a    *)
(* wait is taken for an expiry without a look at the clock.                *)
CheckDeadline_Once(s) ==
  /\ fired[s] > 0
  /\ fired' = [fired EXCEPT ![s] = @ - 1]
  /\ \/ /\ deadline[s] = "past"
        /\ CloseSocket(s)
        /\ deadline' = [deadline EXCEPT ![s] = "max"]
        /\ UNCHANGED waiting
     \/ /\ deadline[s] # "past"
        /\ waiting' = [waiting EXCEPT ![s] = @ + 1]
        /\ UNCHANGED <<conn, rd, failed, writing, deadline>>
  /\ UNCHANGED <<roomVars, hdr, got, wq, written, delivered, base>>
CheckDeadline_NoRecheck(s) ==
  /\ fired[s] > 0
  /\ CloseSocket(s)
  /\ deadline' = [deadline EXCEPT ![s] = "max"]
  /\ fired' = [fired EXCEPT ![s] = @ - 1 + waiting[s]]
  /\ waiting' = [waiting EXCEPT ![s] = 1]
  /\ UNCHANGED <<roomVars, hdr, got, wq, written, delivered, base>>

(* PersonInRoom::CheckDeadline, run when a wait ends for whatever reason:  *)
(* it tells an expiry from a cancellation by the clock, and waits again.   *)
CheckDeadline(s) ==
  /\ fired[s] > 0
  /\ \/ /\ deadline[s] = "past"
        /\ CloseSocket(s)
        /\ deadline' = [deadline EXCEPT ![s] = "max"]
        /\ fired' = [fired EXCEPT ![s] = @ - 1 + waiting[s]]
        /\ waiting' = [waiting EXCEPT ![s] = 1]
     \/ /\ deadline[s] # "past"
        /\ fired' = [fired EXCEPT ![s] = @ - 1]
        /\ waiting' = [waiting EXCEPT ![s] = @ + 1]
        /\ UNCHANGED <<conn, rd, failed, writing, deadline>>
  /\ UNCHANGED <<roomVars, hdr, got, wq, written, delivered, base>>

-----------------------------------------------------------------------------
(* The environment: peers, network and clock, which complete operations.   *)

Connect(s) ==
  /\ conn[s] = "none"
  /\ conn' = [conn EXCEPT ![s] = "up"]
  /\ UNCHANGED <<roomVars, rd, hdr, got, writeVars, timerVars, base>>

(* The peer goes away; what it sent before may still be read.              *)
PeerDrops(s) ==
  /\ conn[s] = "up"
  /\ conn' = [conn EXCEPT ![s] = "broken"]
  /\ UNCHANGED <<roomVars, rd, hdr, got, writeVars, timerVars, base>>

HeaderArrives(s) ==
  /\ rd[s] = "hdrWait"
  /\ got[s] < MaxBody
  /\ rd' = [rd EXCEPT ![s] = "hdrOk"]
  /\ \E len \in HeaderLength : hdr' = [hdr EXCEPT ![s] = len]
  /\ UNCHANGED <<roomVars, conn, got, writeVars, timerVars, base>>

BodyArrives(s) ==
  /\ rd[s] = "bodyWait"
  /\ rd' = [rd EXCEPT ![s] = "bodyOk"]
  /\ got' = [got EXCEPT ![s] = @ + 1]
  /\ UNCHANGED <<roomVars, conn, hdr, writeVars, timerVars, base>>

ReadFails(s) ==
  /\ conn[s] = "broken"
  /\ \/ rd[s] = "hdrWait"  /\ rd' = [rd EXCEPT ![s] = "hdrErr"]
     \/ rd[s] = "bodyWait" /\ rd' = [rd EXCEPT ![s] = "bodyErr"]
  /\ UNCHANGED <<roomVars, conn, hdr, got, writeVars, timerVars, base>>

WriteDone(s) ==
  /\ writing[s] > 0
  /\ writing' = [writing EXCEPT ![s] = @ - 1]
  /\ written' = [written EXCEPT ![s] = @ + 1]
  /\ UNCHANGED <<roomVars, conn, rd, hdr, got, wq, failed, delivered,
                 timerVars, base>>

WriteFails(s) ==
  /\ conn[s] = "broken"
  /\ writing[s] > 0
  /\ writing' = [writing EXCEPT ![s] = @ - 1]
  /\ failed' = [failed EXCEPT ![s] = @ + 1]
  /\ UNCHANGED <<roomVars, conn, rd, hdr, got, wq, written, delivered,
                 timerVars, base>>

DeadlinePasses(s) ==
  /\ deadline[s] = "set"
  /\ deadline' = [deadline EXCEPT ![s] = "past"]
  /\ UNCHANGED <<roomVars, conn, rd, hdr, got, writeVars, waiting, fired,
                 base>>

TimerFires(s) ==
  /\ deadline[s] = "past"
  /\ waiting[s] > 0
  /\ waiting' = [waiting EXCEPT ![s] = @ - 1]
  /\ fired' = [fired EXCEPT ![s] = @ + 1]
  /\ UNCHANGED <<roomVars, conn, rd, hdr, got, writeVars, deadline, base>>

-----------------------------------------------------------------------------
Handlers(s) ==
  \/ OnAccept(s)
  \/ HeaderHandler(s)
  \/ ReadHandler(s)
  \/ WriteHandlerOk(s)
  \/ WriteHandlerErr(s)
  \/ CheckDeadline(s)

Environment(s) ==
  \/ Connect(s)
  \/ PeerDrops(s)
  \/ HeaderArrives(s)
  \/ BodyArrives(s)
  \/ ReadFails(s)
  \/ WriteDone(s)
  \/ WriteFails(s)
  \/ DeadlinePasses(s)
  \/ TimerFires(s)

Next == \E s \in Session : Handlers(s) \/ Environment(s)

Spec == Init /\ [][Next]_vars

(* The worker thread runs every queued handler; the reactor reports a      *)
(* broken connection and an expired timer; the clock advances.  Nothing is *)
(* assumed of the peers.                                                   *)
Fairness ==
  \A s \in Session :
    /\ WF_vars(OnAccept(s))
    /\ WF_vars(HeaderHandler(s))
    /\ WF_vars(ReadHandler(s))
    /\ WF_vars(WriteHandlerOk(s))
    /\ WF_vars(WriteHandlerErr(s))
    /\ WF_vars(CheckDeadline(s))
    /\ WF_vars(ReadFails(s))
    /\ WF_vars(DeadlinePasses(s))
    /\ WF_vars(TimerFires(s))

FairSpec == Spec /\ Fairness

-----------------------------------------------------------------------------
(* Properties.                                                             *)

(* The stream of a session: what its peer was sent and what is queued.     *)
Stream(s) == delivered[s] \o wq[s]
StreamEnd(s) == base[s] + Len(delivered[s]) + Len(wq[s])

(* No broadcast is lost, repeated or reordered on its way to a peer: the   *)
(* stream of a session is a run of consecutive broadcasts of the room, the *)
(* replayed history included, which for a member goes up to the last one.  *)
StreamIsWindow ==
  \A s \in Session :
    /\ 0 <= base[s]
    /\ StreamEnd(s) <= Len(log)
    /\ \A i \in 1 .. Len(Stream(s)) : Stream(s)[i] = log[base[s] + i]
    /\ s \in members => StreamEnd(s) = Len(log)

(* The history a newcomer is sent is the last MaxRecent broadcasts, oldest *)
(* first, or all of them while there are fewer.                            *)
HistoryIsTail ==
  /\ Len(recent) = IF Len(log) < MaxRecent THEN Len(log) ELSE MaxRecent
  /\ \A i \in 1 .. Len(recent) :
       recent[i] = log[Len(log) - Len(recent) + i]

(* OnMessage and WriteHandler keep at most one async_write in the air or   *)
(* answered per session (two would interleave on the socket), only of a    *)
(* message that is still queued, and always one while a member's queue is  *)
(* not empty (or the queue would never move again).                        *)
Outstanding(s) == writing[s] + written[s] + failed[s]
OneWriteOf(s) ==
  /\ Outstanding(s) <= 1
  /\ Outstanding(s) = 1 => wq[s] # <<>>
  /\ s \in members /\ wq[s] # <<>> => Outstanding(s) = 1
OneWrite == \A s \in Session : OneWriteOf(s)

(* CheckDeadline is always either waiting or about to run, once: however   *)
(* waits and cancellations overlap, the watchdog of a session neither dies *)
(* nor multiplies.                                                         *)
OneWatchdog ==
  \A s \in Session : rd[s] # "new" => waiting[s] + fired[s] = 1

(* The room never keeps a session that nobody reads from: it could neither *)
(* speak nor be found dead.                                                *)
MemberIsRead == \A s \in members : rd[s] \notin {"new", "none"}

(* The deadline runs over the whole of a body read and never over a header *)
(* read: a peer that is slow within a packet is watched, one that is       *)
(* silent between packets is not.                                          *)
DeadlineFollowsRead ==
  \A s \in Session :
    /\ rd[s] = "bodyWait" => deadline[s] # "max"
    /\ rd[s] \in {"new", "hdrWait", "hdrOk"} => deadline[s] = "max"

(* What is read from a peer is broadcast exactly once and in the order in  *)
(* which it was sent; only the body just read may be yet to come.          *)
BroadcastOnce ==
  /\ \A i, j \in 1 .. Len(log) :
       i < j /\ log[i].from = log[j].from => log[i].n < log[j].n
  /\ \A s \in Session : \A n \in 1 .. got[s] :
       \/ n = got[s] /\ rd[s] = "bodyOk"
       \/ \E i \in 1 .. Len(log) : log[i] = [from |-> s, n |-> n]

(* A wait that expired just as the body arrived must not hit the next      *)
(* packet: no step closes the socket of a session that is between packets. *)
NoIdleDisconnect ==
  [][\A s \in Session :
       conn[s] # "closed" /\ conn'[s] = "closed"
         => rd[s] \notin {"new", "hdrWait", "hdrOk"}]_vars

(* The sessions, their queues and the history implement the promise.       *)
Joined == {s \in Session : rd[s] # "new"}
Ends == [s \in Session |-> StreamEnd(s)]
Relay == INSTANCE RoomRelay WITH
  Msg <- Message, joined <- Joined, end <- Ends, inbox <- delivered
RelaySpec == Relay!Spec

(* A session whose connection broke or was closed is out of the room       *)
(* sooner or later, for good.                                              *)
DeadSessionLeaves ==
  \A s \in Session : conn[s] \in {"broken", "closed"} ~> [](s \notin members)

(* No peer can make the server wait for the rest of a packet for ever.     *)
BodyReadEnds == \A s \in Session : rd[s] = "bodyWait" ~> rd[s] # "bodyWait"

(* If the peer of a session keeps taking what is written to it, the queue  *)
(* of the session empties again and again for as long as it is a member.   *)
QueueDrains ==
  \A s \in Session :
    []<>(writing[s] = 0) => []<>(wq[s] = <<>> \/ s \notin members)
=============================================================================
