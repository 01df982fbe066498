------------------------------ MODULE ChatClient ------------------------------
(***************************************************************************)
(* The command-line client of srv/ (Client.cpp): one connection, the loop  *)
(* that reads packets under a timer, the queue of packets to send, and the *)
(* messages that the main thread (MainClient.cpp) posts to the thread that *)
(* runs the handlers.  A handler is one atomic action.  The io_service has *)
(* no work object: its thread returns as soon as nothing is left to do.    *)
(*                                                                         *)
(* A message is a number; what is sent is a packet of that message for     *)
(* each recipient.  Of what is received only the length in the header and  *)
(* the kind of body matter.                                                *)
(***************************************************************************)
EXTENDS Integers, Sequences

CONSTANTS
  Recipients,      \* how many recipients' keys the client was given
  MinPackSize,     \* MIN_PACK_SIZE
  MaxPackSize,     \* MAX_PACK_SIZE
  SyncMarkerSize,  \* SYNC_MARKER_SIZE
  ReadQueueSize,   \* READ_QUEUE_SIZE
  HeaderLength,    \* the lengths the server puts in headers
  MaxMessages,     \* bound of the model: messages the user types
  MaxPackets       \* bound of the model: headers the server sends

Byte == 0 .. 255
Uint16 == 0 .. 65535

(* The usage line of MainClient.cpp asks for at least one recipient.       *)
ASSUME ConstantsAssumption ==
  /\ Recipients \in Nat \ {0}
  /\ MinPackSize \in Nat /\ MaxPackSize \in Nat
  /\ SyncMarkerSize \in Nat \ {0} /\ ReadQueueSize \in Nat
  /\ SyncMarkerSize <= MinPackSize
  /\ HeaderLength \subseteq Uint16
  /\ MaxMessages \in Nat /\ MaxPackets \in Nat

VARIABLES
  thread,   \* of the handlers: "running", "returned"; or "terminated"
  posted,   \* handlers posted to the io_service: messages, and Close
  typed,    \* how many messages the user has typed
  socket,   \* socket_
  rd,       \* its one connect or read operation, and how it stands
  buf,      \* the size of read_msg_
  need,     \* the length in the last header, the bytes a body read asks for
  body,     \* what the body read holds: "good", "unmarked" or "torn"
  headers,  \* how many headers the server has sent
  queue,    \* read_queue_: the last bytes of the headers
  waiting,  \* async_waits of read_timeout_timer_ in the air
  expired,  \* HandleDataTimeouts queued without an error
  wq,       \* write_msgs_
  writing,  \* async_writes in the air
  written,  \* WriteHandlers queued with a success
  failed,   \* WriteHandlers queued with an error
  sent      \* history: the packets written to the server

readVars  == <<rd, buf, need, body, headers, queue>>
timerVars == <<waiting, expired>>
writeVars == <<wq, writing, written, failed, sent>>
vars == <<thread, posted, typed, socket, readVars, timerVars, writeVars>>

Close == 0
Packet == [msg : Nat \ {0}, to : 1 .. Recipients]
PacketsOf(m) == [i \in 1 .. Recipients |-> [msg |-> m, to |-> i]]

(* The types; no more bytes of the headers are kept than the queue is for. *)
TypeOK ==
  /\ thread \in {"running", "returned", "terminated"}
  /\ posted \in Seq(Nat) /\ typed \in Nat
  /\ socket \in {"connecting", "up", "broken", "closed"}
  /\ rd \in {"connWait", "connOk", "connErr", "none", "hdrWait", "hdrOk",
             "hdrErr", "bodyWait", "bodyOk", "bodyErr"}
  /\ buf \in Nat /\ need \in Nat /\ headers \in Nat
  /\ body \in {"good", "unmarked", "torn"}
  /\ queue \in Seq(Byte) /\ Len(queue) <= ReadQueueSize
  /\ waiting \in 0 .. 1 /\ expired \in Nat
  /\ wq \in Seq(Packet) /\ sent \in Seq(Packet)
  /\ writing \in Nat /\ written \in Nat /\ failed \in Nat

Init ==
  /\ thread = "running"
  /\ posted = <<>> /\ typed = 0
  /\ socket = "connecting" /\ rd = "connWait"
  /\ buf = 0 /\ need = 0 /\ body = "good" /\ headers = 0 /\ queue = <<>>
  /\ waiting = 0 /\ expired = 0
  /\ wq = <<>> /\ sent = <<>>
  /\ writing = 0 /\ written = 0 /\ failed = 0

-----------------------------------------------------------------------------
(* Parts of the handlers.                                                  *)

Running == thread = "running"
Open == socket # "closed"

(* Client::CloseImpl: a write in the air fails; see Cut for a read.        *)
CloseSocket ==
  /\ socket' = "closed"
  /\ failed' = failed + writing
  /\ writing' = 0
  /\ UNCHANGED <<wq, written, sent>>

(* What closing the socket makes of the read or connect in the air.        *)
Cut(r) == CASE r = "connWait" -> "connErr"
            [] r = "hdrWait" -> "hdrErr"
            [] r = "bodyWait" -> "bodyErr"
            [] OTHER -> r

(* Client::Recover closes the socket and frees the read buffers.           *)
Recover ==
  /\ CloseSocket
  /\ queue' = <<>>
  /\ buf' = 0

(* async_read of the next header into a read_msg_ of two bytes.            *)
ReadHeader ==
  /\ buf' = 2
  /\ rd' = IF Open THEN "hdrWait" ELSE "hdrErr"

(* async_write of the front of write_msgs_.                                *)
StartWrite ==
  IF Open THEN writing' = writing + 1 /\ failed' = failed
          ELSE failed' = failed + 1 /\ writing' = writing

(* Client::checkSyncMarkerInQueue of queue q.                              *)
HasSyncMarker(q) ==
  \E i \in 1 .. Len(q) - SyncMarkerSize + 1 :
    \A j \in i .. i + SyncMarkerSize - 1 : q[j] = 0

(* Mutant: the queue is not trimmed.                                       *)
LastBytes_All(q) == q

(* read_queue_ cut to its last ReadQueueSize bytes.                        *)
LastBytes(q) ==
  IF Len(q) > ReadQueueSize
  THEN SubSeq(q, Len(q) - ReadQueueSize + 1, Len(q)) ELSE q

-----------------------------------------------------------------------------
(* The main thread.                                                        *)

(* Client::Write, for a line the user types.                               *)
Write ==
  /\ thread # "terminated"
  /\ typed < MaxMessages
  /\ typed' = typed + 1
  /\ posted' = Append(posted, typed + 1)
  /\ UNCHANGED <<thread, socket, readVars, timerVars, writeVars>>

(* Client::Close, the last thing the user of a client does with it.        *)
PostClose ==
  /\ thread # "terminated"
  /\ typed = MaxMessages
  /\ \A i \in 1 .. Len(posted) : posted[i] # Close
  /\ Open
  /\ posted' = Append(posted, Close)
  /\ UNCHANGED <<thread, typed, socket, readVars, timerVars, writeVars>>

-----------------------------------------------------------------------------
(* The handlers.                                                           *)

OnConnect ==
  /\ Running
  /\ \/ /\ rd = "connOk"
        /\ ReadHeader
        /\ UNCHANGED <<socket, writeVars>>
     \/ /\ rd = "connErr"
        /\ CloseSocket
        /\ rd' = "none"
        /\ UNCHANGED buf
  /\ UNCHANGED <<thread, posted, typed, need, body, headers, queue,
                 timerVars>>

(* Mutant: the body is read without a timer.                              *)
HeaderHandler_NoTimer ==
  LET bytes == queue \o <<need % 256, need \div 256>>
  IN  /\ Running
      /\ rd = "hdrOk" /\ buf = 2
      /\ ~HasSyncMarker(bytes) /\ need \in MinPackSize .. MaxPackSize
      /\ queue' = LastBytes(bytes)
      /\ buf' = need
      /\ rd' = IF Open THEN "bodyWait" ELSE "bodyErr"
      /\ UNCHANGED <<thread, posted, typed, socket, need, body, headers,
                     timerVars, writeVars>>

(* Client::HeaderHandler.  A length that is too short makes it recover and *)
(* go on all the same: it sets the timer and reads a body, on the socket   *)
(* that it has just closed.  read_msg_[0] of a buffer that was freed ends  *)
(* the process.                                                            *)
HeaderHandler ==
  LET bytes == queue \o <<need % 256, need \div 256>>
      refused == HasSyncMarker(bytes) \/ need > MaxPackSize
  IN  /\ Running
      /\ \/ /\ rd = "hdrErr"
            /\ CloseSocket
            /\ rd' = "none"
            /\ UNCHANGED <<thread, buf, queue, waiting>>
         \/ /\ rd = "hdrOk" /\ buf = 0
            /\ thread' = "terminated"
            /\ UNCHANGED <<socket, rd, buf, queue, waiting, writeVars>>
         \/ /\ rd = "hdrOk" /\ buf = 2 /\ refused
            /\ Recover
            /\ rd' = "none"
            /\ UNCHANGED <<thread, waiting>>
         \/ /\ rd = "hdrOk" /\ buf = 2 /\ ~refused
            /\ need < MinPackSize
            /\ CloseSocket
            /\ queue' = <<>>
            /\ buf' = need
            /\ rd' = "bodyErr"
            /\ waiting' = 1
            /\ UNCHANGED thread
         \/ /\ rd = "hdrOk" /\ buf = 2 /\ ~refused
            /\ need >= MinPackSize
            /\ queue' = LastBytes(bytes)
            /\ buf' = need
            /\ rd' = IF Open THEN "bodyWait" ELSE "bodyErr"
            /\ waiting' = 1
            /\ UNCHANGED <<thread, socket, writeVars>>
      /\ UNCHANGED <<posted, typed, need, body, headers, expired>>

(* Mutant: the timer goes on after a body was read.                        *)
ReadHandler_NoCancel ==
  /\ Running
  /\ rd = "bodyOk" /\ buf = need /\ body = "good"
  /\ ReadHeader
  /\ UNCHANGED <<thread, posted, typed, socket, need, body, headers, queue,
                 timerVars, writeVars>>

(* Client::ReadHandler.  A body shorter than the marker would make resize  *)
(* throw, as decipher does for one that is torn: the handler's exception   *)
(* ends the process.                                                       *)
ReadHandler ==
  /\ Running
  /\ \/ /\ rd = "bodyErr"
        /\ CloseSocket
        /\ rd' = "none"
        /\ UNCHANGED <<thread, buf, queue, waiting>>
     \/ /\ rd = "bodyOk" /\ buf # need
        /\ Recover
        /\ rd' = "none"
        /\ UNCHANGED <<thread, waiting>>
     \/ /\ rd = "bodyOk" /\ buf = need
        /\ body = "unmarked"
        /\ waiting' = 0
        /\ Recover
        /\ rd' = "none"
        /\ UNCHANGED thread
     \/ /\ rd = "bodyOk" /\ buf = need
        /\ body = "torn" \/ (body = "good" /\ buf < SyncMarkerSize)
        /\ waiting' = 0
        /\ thread' = "terminated"
        /\ UNCHANGED <<socket, rd, buf, queue, writeVars>>
     \/ /\ rd = "bodyOk" /\ buf = need
        /\ body = "good" /\ buf >= SyncMarkerSize
        /\ waiting' = 0
        /\ ReadHeader
        /\ UNCHANGED <<thread, socket, queue, writeVars>>
  /\ UNCHANGED <<posted, typed, need, body, headers, expired>>

(* Client::HandleDataTimeout of a wait that was not cancelled.             *)
HandleDataTimeout ==
  /\ Running
  /\ expired > 0
  /\ expired' = expired - 1
  /\ Recover
  /\ rd' = Cut(rd)
  /\ UNCHANGED <<thread, posted, typed, need, body, headers, waiting>>

(* Mutant: writes at once, even while a write is in progress.              *)
WriteImpl_AlwaysWrites ==
  /\ Running
  /\ posted # <<>> /\ Head(posted) # Close
  /\ posted' = Tail(posted)
  /\ wq' = wq \o PacketsOf(Head(posted))
  /\ StartWrite
  /\ UNCHANGED <<thread, typed, socket, readVars, timerVars, written, sent>>

(* Mutant: a new message overtakes those that wait.                        *)
WriteImpl_Overtakes ==
  /\ Running
  /\ posted # <<>> /\ Head(posted) # Close
  /\ posted' = Tail(posted)
  /\ wq' = PacketsOf(Head(posted)) \o wq
  /\ IF wq = <<>> THEN StartWrite ELSE UNCHANGED <<writing, failed>>
  /\ UNCHANGED <<thread, typed, socket, readVars, timerVars, written, sent>>

(* Client::WriteImpl: a packet of the message for every recipient.         *)
WriteImpl ==
  /\ Running
  /\ posted # <<>> /\ Head(posted) # Close
  /\ posted' = Tail(posted)
  /\ wq' = wq \o PacketsOf(Head(posted))
  /\ IF wq = <<>> THEN StartWrite ELSE UNCHANGED <<writing, failed>>
  /\ UNCHANGED <<thread, typed, socket, readVars, timerVars, written, sent>>

CloseImpl ==
  /\ Running
  /\ posted # <<>> /\ Head(posted) = Close
  /\ posted' = Tail(posted)
  /\ CloseSocket
  /\ rd' = Cut(rd)
  /\ UNCHANGED <<thread, typed, buf, need, body, headers, queue, timerVars>>

(* Mutants: the packet written stays in the queue; the next packet of the  *)
(* queue is not written.                                                   *)
WriteHandler_NoPop ==
  /\ Running
  /\ written > 0
  /\ written' = written - 1
  /\ Len(sent) < Recipients * MaxMessages
  /\ sent' = Append(sent, Head(wq))
  /\ StartWrite
  /\ UNCHANGED <<thread, posted, typed, socket, readVars, timerVars, wq>>
WriteHandler_NoNext ==
  /\ Running
  /\ written > 0
  /\ written' = written - 1
  /\ wq' = Tail(wq)
  /\ sent' = Append(sent, Head(wq))
  /\ UNCHANGED <<thread, posted, typed, socket, readVars, timerVars,
                 writing, failed>>

(* Client::WriteHandler.  After an error the queue keeps what it holds.    *)
WriteHandler ==
  /\ Running
  /\ \/ /\ written > 0
        /\ written' = written - 1
        /\ wq' = Tail(wq)
        /\ sent' = Append(sent, Head(wq))
        /\ IF Len(wq) > 1 THEN StartWrite ELSE UNCHANGED <<writing, failed>>
        /\ UNCHANGED <<socket, rd>>
     \/ /\ failed > 0
        /\ socket' = "closed"
        /\ failed' = failed - 1 + writing
        /\ writing' = 0
        /\ rd' = Cut(rd)
        /\ UNCHANGED <<wq, written, sent>>
  /\ UNCHANGED <<thread, posted, typed, buf, need, body, headers, queue,
                 timerVars>>

(* io_service::run returns when it has neither a handler to run nor an     *)
(* operation to wait for; what is posted later is never run.               *)
RunReturns ==
  /\ Running
  /\ posted = <<>> /\ rd = "none" /\ waiting + expired = 0
  /\ writing + written + failed = 0
  /\ thread' = "returned"
  /\ UNCHANGED <<posted, typed, socket, readVars, timerVars, writeVars>>

-----------------------------------------------------------------------------
(* The environment: the server, the network and the clock.                 *)

Connects ==
  /\ rd = "connWait"
  /\ \/ rd' = "connOk"  /\ socket' = "up"
     \/ rd' = "connErr" /\ UNCHANGED socket
  /\ UNCHANGED <<thread, posted, typed, buf, need, body, headers, queue,
                 timerVars, writeVars>>

ServerDrops ==
  /\ socket = "up"
  /\ socket' = "broken"
  /\ UNCHANGED <<thread, posted, typed, readVars, timerVars, writeVars>>

HeaderArrives ==
  /\ rd = "hdrWait"
  /\ headers < MaxPackets
  /\ headers' = headers + 1
  /\ rd' = "hdrOk"
  /\ need' \in HeaderLength
  /\ UNCHANGED <<thread, posted, typed, socket, buf, body, queue, timerVars,
                 writeVars>>

BodyArrives ==
  /\ rd = "bodyWait"
  /\ rd' = "bodyOk"
  /\ body' \in {"good", "unmarked", "torn"}
  /\ UNCHANGED <<thread, posted, typed, socket, buf, need, headers, queue,
                 timerVars, writeVars>>

ReadFails ==
  /\ socket = "broken"
  /\ rd \in {"hdrWait", "bodyWait"}
  /\ rd' = Cut(rd)
  /\ UNCHANGED <<thread, posted, typed, socket, buf, need, body, headers,
                 queue, timerVars, writeVars>>

WriteDone ==
  /\ writing > 0
  /\ socket \in {"up", "broken"}
  /\ writing' = writing - 1
  /\ written' = written + 1
  /\ UNCHANGED <<thread, posted, typed, socket, readVars, timerVars, wq,
                 failed, sent>>

(* Between two addresses of the server async_connect reopens the socket.   *)
WriteFails ==
  /\ writing > 0
  /\ socket \in {"connecting", "broken"}
  /\ writing' = writing - 1
  /\ failed' = failed + 1
  /\ UNCHANGED <<thread, posted, typed, socket, readVars, timerVars, wq,
                 written, sent>>

TimerFires ==
  /\ waiting > 0
  /\ waiting' = waiting - 1
  /\ expired' = expired + 1
  /\ UNCHANGED <<thread, posted, typed, socket, readVars, writeVars>>

-----------------------------------------------------------------------------
Handlers ==
  \/ OnConnect
  \/ HeaderHandler
  \/ ReadHandler
  \/ HandleDataTimeout
  \/ WriteImpl
  \/ CloseImpl
  \/ WriteHandler
  \/ RunReturns

Environment ==
  \/ Connects
  \/ ServerDrops
  \/ HeaderArrives
  \/ BodyArrives
  \/ ReadFails
  \/ WriteDone
  \/ WriteFails
  \/ TimerFires

Next == Write \/ PostClose \/ Handlers \/ Environment

Spec == Init /\ [][Next]_vars

(* The thread of the handlers runs what is queued, a connection attempt is *)
(* answered, a broken connection is reported, and the clock advances.      *)
Fairness ==
  /\ WF_vars(OnConnect) /\ WF_vars(HeaderHandler) /\ WF_vars(ReadHandler)
  /\ WF_vars(HandleDataTimeout)
  /\ WF_vars(WriteImpl) /\ WF_vars(CloseImpl) /\ WF_vars(WriteHandler)
  /\ WF_vars(RunReturns)
  /\ WF_vars(Connects) /\ WF_vars(ReadFails) /\ WF_vars(TimerFires)

FairSpec == Spec /\ Fairness

-----------------------------------------------------------------------------
(* Properties.                                                             *)

(* The packets of all messages taken from the queue of posted handlers.    *)
Taken ==
  LET left == {i \in 1 .. Len(posted) : posted[i] # Close}
      messages == IF left = {} THEN typed
                  ELSE posted[CHOOSE i \in left : \A j \in left : i <= j] - 1
  IN  [k \in 1 .. messages * Recipients |->
         [msg |-> 1 + ((k - 1) \div Recipients),
          to |-> 1 + ((k - 1) % Recipients)]]

(* WriteImpl and WriteHandler send each message once to each recipient, in *)
(* the order typed: what was sent and what is queued are all of them.      *)
SendsInOrder == sent \o wq = Taken

(* At most one async_write of the client is in the air or answered, and    *)
(* never of a packet that is gone from the queue; while the connection is  *)
(* open there is one as long as packets are queued, which nothing else     *)
(* would move.                                                             *)
OneWrite ==
  /\ writing + written + failed <= 1
  /\ writing + written + failed = 1 => wq # <<>>
  /\ wq # <<>> /\ writing + written + failed = 0 => socket = "closed"

(* The timer runs, or its expiry is about to be handled, over the whole of *)
(* a body read; between packets of an open connection it does not run.     *)
TimerFollowsBody ==
  /\ rd = "bodyWait" => waiting + expired > 0
  /\ waiting > 0 =>
       rd \in {"bodyWait", "bodyOk", "bodyErr"} \/ socket = "closed"

(* "At this moment the 2 bytes of the length have been read and are in     *)
(* read_msg_" (HeaderHandler): the buffer of a header read is there when   *)
(* its handler runs.                                                       *)
HeaderInReadMsg == rd = "hdrOk" => buf = 2

(* The connection is one until it is closed, and a packet is on the wire   *)
(* as soon as its async_write has succeeded, before WriteHandler knows.    *)
Conn == IF socket = "broken" THEN "up" ELSE socket
Wire == IF written > 0 THEN Append(sent, Head(wq)) ELSE sent
Relay == INSTANCE LineRelay WITH conn <- Conn, wire <- Wire

(* The handlers, however they interleave with the network and the user,    *)
(* implement the promise of LineRelay: a socket that Recover, CloseImpl or *)
(* an error has closed is not opened again and nothing more goes out, and  *)
(* the wire only grows, by the next packet in the order of the lines.      *)
LineRelaySpec == Relay!Spec

(* No server can make the client wait for the rest of a packet for ever.   *)
BodyReadEnds == Running /\ rd = "bodyWait" ~> rd # "bodyWait" \/ ~Running

(* While the server keeps taking what is written, what the user typed is   *)
(* sent, unless the connection was closed or the process ended.            *)
QueueDrains ==
  []<>(writing = 0) =>
    (wq # <<>> ~> wq = <<>> \/ socket = "closed" \/ ~Running)
=============================================================================
