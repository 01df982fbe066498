--------------------------- MODULE ChatClientProofs ---------------------------
(***************************************************************************)
(* Proofs about ChatClient for every number of recipients, every choice of *)
(* limits and header lengths, and any number of messages and packets: the  *)
(* writes are one at a time and in the order typed, and the timer runs     *)
(* over the body reads and over nothing else.                              *)
(***************************************************************************)
EXTENDS ChatClient, SequenceTheorems, TLAPS

(* The socket of a connection attempt that is not answered was never       *)
(* touched: whatever closes the socket answers the attempt as well.        *)
ConnectingFirst == rd = "connWait" => socket = "connecting"

(* The header that was read has two bytes.                                 *)
TwoBytes == need \in Uint16

(* The messages among posted handlers p: a Close is the last of them, as   *)
(* the user types no more once it has closed the client.                   *)
Lines(p) == IF p # <<>> /\ p[Len(p)] = Close THEN Len(p) - 1 ELSE Len(p)

(* With t messages typed, p holds the last of them in their order.         *)
InOrder(p, t) ==
  /\ Lines(p) <= t
  /\ \A i \in 1 .. Lines(p) : p[i] = t - Lines(p) + i
  /\ Lines(p) < Len(p) => t = MaxMessages

CloseIsLast == InOrder(posted, typed)

IInv ==
  /\ TypeOK /\ TwoBytes
  /\ ConnectingFirst /\ OneWrite /\ TimerFollowsBody
  /\ CloseIsLast /\ SendsInOrder

-----------------------------------------------------------------------------
(* Type correctness.                                                       *)

(* The last bytes of a queue are bytes, and no more than it is for.        *)
LEMMA LastBytesType ==
  ASSUME NEW q \in Seq(Byte)
  PROVE  LastBytes(q) \in Seq(Byte) /\ Len(LastBytes(q)) <= ReadQueueSize
<1>1. Len(q) \in Nat /\ ReadQueueSize \in Nat
  BY ConstantsAssumption
<1>2. CASE Len(q) > ReadQueueSize
  <2> DEFINE from == Len(q) - ReadQueueSize + 1
  <2>1. from \in Nat /\ from >= 1 /\ from <= Len(q) + 1
    BY <1>1, <1>2
  <2>2. \A i \in from .. Len(q) : q[i] \in Byte
    BY <2>1
  <2>3. /\ SubSeq(q, from, Len(q)) \in Seq(Byte)
        /\ Len(SubSeq(q, from, Len(q))) = IF from <= Len(q) THEN Len(q) - from + 1 ELSE 0
    BY <1>1, <2>1, <2>2, SubSeqProperties
  <2>4. LastBytes(q) = SubSeq(q, from, Len(q))
    BY <1>2 DEF LastBytes
  <2>5. QED
    BY <1>1, <2>1, <2>3, <2>4
<1>3. CASE ~(Len(q) > ReadQueueSize)
  BY <1>1, <1>3 DEF LastBytes
<1>4. QED
  BY <1>2, <1>3

(* The packets of a message, one for each recipient.                       *)
LEMMA PacketsOfType ==
  ASSUME NEW m \in Nat \ {0}
  PROVE  /\ PacketsOf(m) \in Seq(Packet) /\ Len(PacketsOf(m)) = Recipients
         /\ PacketsOf(m) # <<>>
<1>1. Recipients \in Nat /\ Recipients > 0
  BY ConstantsAssumption
<1>2. \A i \in 1 .. Recipients : [msg |-> m, to |-> i] \in Packet
  BY DEF Packet
<1>3. PacketsOf(m) \in Seq(Packet) /\ Len(PacketsOf(m)) = Recipients
  BY <1>1, <1>2 DEF PacketsOf
<1>4. QED
  BY <1>1, <1>3

(* A step of the handlers keeps the counters of the writes natural.        *)
LEMMA WriteType ==
  ASSUME TypeOK
  PROVE  /\ CloseSocket => /\ writing' \in Nat /\ failed' \in Nat /\ written' \in Nat
                           /\ wq' \in Seq(Packet) /\ sent' \in Seq(Packet)
                           /\ socket' = "closed"
         /\ StartWrite => writing' \in Nat /\ failed' \in Nat
BY DEF TypeOK, CloseSocket, StartWrite

(* The numbers of two bytes.                                               *)
LEMMA Uint16Is == 0 \in Uint16 /\ \A x \in Uint16 : x \in Nat /\ x <= 65535
BY DEF Uint16

(* In the beginning nothing is known but the types of the variables.       *)
LEMMA TypeInit == Init => TypeOK /\ TwoBytes
<1>1. SUFFICES ASSUME Init PROVE TypeOK /\ TwoBytes
  OBVIOUS
<1>2. TwoBytes
  BY <1>1, Uint16Is DEF Init, TwoBytes
<1>3. queue \in Seq(Byte) /\ Len(queue) <= ReadQueueSize
  BY <1>1, ConstantsAssumption DEF Init
<1>4. QED
  BY <1>1, <1>2, <1>3 DEF Init, TypeOK

(* The two bytes of a length are bytes.                                    *)
LEMMA TwoBytesSplit ==
  ASSUME TwoBytes
  PROVE  need % 256 \in Byte /\ need \div 256 \in Byte
<1>1. need \in Nat /\ need <= 65535
  BY Uint16Is DEF TwoBytes
<1>2. need % 256 \in Byte
  BY <1>1 DEF Byte
<1>3. need \div 256 \in Nat /\ need \div 256 <= 255
  BY <1>1
<1>4. need \div 256 \in Byte
  BY <1>3 DEF Byte
<1>5. QED
  BY <1>2, <1>4

LEMMA TypeStep ==
  ASSUME TypeOK, TwoBytes, OneWrite, [Next]_vars
  PROVE  TypeOK'
<1>1. CASE Write
  BY <1>1 DEF Write, TypeOK, readVars, timerVars, writeVars
<1>2. CASE PostClose
  BY <1>2 DEF PostClose, TypeOK, Close, readVars, timerVars, writeVars
<1>3. CASE OnConnect
  <2>1. UNCHANGED writeVars \/ CloseSocket
    BY <1>3 DEF OnConnect
  <2>2. /\ writing' \in Nat /\ failed' \in Nat /\ written' \in Nat
        /\ wq' \in Seq(Packet) /\ sent' \in Seq(Packet)
    BY <2>1, WriteType DEF TypeOK, writeVars
  <2>3. socket' \in {"closed", socket} /\ buf' \in {buf, 2} /\ rd' \in {"none", "hdrWait", "hdrErr"}
    BY <1>3 DEF OnConnect, ReadHeader, CloseSocket
  <2>4. UNCHANGED <<thread, posted, typed, need, body, headers, queue, timerVars>>
    BY <1>3 DEF OnConnect
  <2>5. QED
    BY <2>2, <2>3, <2>4 DEF TypeOK, timerVars
<1>4. CASE HeaderHandler
  <2>1. queue' \in Seq(Byte) /\ Len(queue') <= ReadQueueSize
    <3>1. need % 256 \in Byte /\ need \div 256 \in Byte
      BY TwoBytesSplit
    <3>2. queue \o <<need % 256, need \div 256>> \in Seq(Byte)
      BY <3>1 DEF TypeOK
    <3>3. CASE queue' = LastBytes(queue \o <<need % 256, need \div 256>>)
      BY <3>2, <3>3, LastBytesType
    <3>4. CASE queue' = <<>>
      BY <3>4, ConstantsAssumption
    <3>5. CASE queue' = queue
      BY <3>5 DEF TypeOK
    <3>6. QED
      BY <1>4, <3>3, <3>4, <3>5 DEF HeaderHandler, Recover
  <2>2. UNCHANGED writeVars \/ CloseSocket
    BY <1>4 DEF HeaderHandler, Recover
  <2>3. /\ writing' \in Nat /\ failed' \in Nat /\ written' \in Nat
        /\ wq' \in Seq(Packet) /\ sent' \in Seq(Packet)
    BY <2>2, WriteType DEF TypeOK, writeVars
  <2>4. socket' \in {"closed", socket} /\ buf' \in {buf, 0, need} /\ waiting' \in {waiting, 1}
    BY <1>4 DEF HeaderHandler, Recover, CloseSocket
  <2>5. thread' \in {"terminated", thread} /\ rd' \in {"none", rd, "bodyErr", "bodyWait"}
    BY <1>4 DEF HeaderHandler
  <2>6. UNCHANGED <<posted, typed, need, body, headers, expired>>
    BY <1>4 DEF HeaderHandler
  <2>7. QED
    BY <2>1, <2>3, <2>4, <2>5, <2>6 DEF TypeOK
<1>5. CASE ReadHandler
  <2>1. UNCHANGED writeVars \/ CloseSocket
    BY <1>5 DEF ReadHandler, Recover
  <2>2. /\ writing' \in Nat /\ failed' \in Nat /\ written' \in Nat
        /\ wq' \in Seq(Packet) /\ sent' \in Seq(Packet)
    BY <2>1, WriteType DEF TypeOK, writeVars
  <2>3. socket' \in {"closed", socket} /\ buf' \in {buf, 0, 2} /\ waiting' \in {waiting, 0}
    BY <1>5 DEF ReadHandler, Recover, ReadHeader, CloseSocket
  <2>4. thread' \in {"terminated", thread} /\ rd' \in {"none", rd, "hdrWait", "hdrErr"}
    BY <1>5 DEF ReadHandler, ReadHeader
  <2>5. queue' \in {<<>>, queue}
    BY <1>5 DEF ReadHandler, Recover
  <2>6. queue' \in Seq(Byte) /\ Len(queue') <= ReadQueueSize
    <3>1. CASE queue' = <<>>
      BY <3>1, ConstantsAssumption
    <3>2. CASE queue' = queue
      BY <3>2 DEF TypeOK
    <3>3. QED
      BY <2>5, <3>1, <3>2
  <2>7. UNCHANGED <<posted, typed, need, body, headers, expired>>
    BY <1>5 DEF ReadHandler
  <2>8. QED
    BY <2>2, <2>3, <2>4, <2>6, <2>7 DEF TypeOK
<1>6. CASE HandleDataTimeout
  <2>1. /\ writing' \in Nat /\ failed' \in Nat /\ written' \in Nat
        /\ wq' \in Seq(Packet) /\ sent' \in Seq(Packet)
    BY <1>6, WriteType DEF HandleDataTimeout, Recover
  <2>2. queue' \in Seq(Byte) /\ Len(queue') <= ReadQueueSize
    BY <1>6, ConstantsAssumption DEF HandleDataTimeout, Recover
  <2>3. rd' \in {rd, "connErr", "hdrErr", "bodyErr"}
    BY <1>6 DEF HandleDataTimeout, Cut
  <2>4. QED
    BY <1>6, <2>1, <2>2, <2>3 DEF HandleDataTimeout, Recover, CloseSocket, TypeOK
<1>7. CASE WriteImpl
  <2>1. Head(posted) \in Nat \ {0} /\ Tail(posted) \in Seq(Nat)
    BY <1>7 DEF WriteImpl, Close, TypeOK
  <2>2. wq' \in Seq(Packet)
    BY <1>7, <2>1, PacketsOfType DEF WriteImpl, TypeOK
  <2>3. writing' \in Nat /\ failed' \in Nat
    BY <1>7, WriteType DEF WriteImpl, TypeOK
  <2>4. QED
    BY <1>7, <2>1, <2>2, <2>3 DEF WriteImpl, TypeOK, readVars, timerVars
<1>8. CASE CloseImpl
  BY <1>8, WriteType DEF CloseImpl, TypeOK, Cut, timerVars
<1>9. CASE WriteHandler
  <2>1. CASE /\ written > 0
             /\ written' = written - 1 /\ wq' = Tail(wq) /\ sent' = Append(sent, Head(wq))
             /\ StartWrite \/ UNCHANGED <<writing, failed>>
             /\ UNCHANGED <<socket, rd>>
    <3>1. wq # <<>>
      BY <2>1 DEF OneWrite, TypeOK
    <3>2. wq' \in Seq(Packet) /\ sent' \in Seq(Packet)
      BY <2>1, <3>1 DEF TypeOK
    <3>3. writing' \in Nat /\ failed' \in Nat /\ written' \in Nat
      BY <2>1, WriteType DEF TypeOK
    <3>4. QED
      BY <1>9, <2>1, <3>2, <3>3 DEF WriteHandler, TypeOK, timerVars
  <2>2. CASE /\ failed > 0
             /\ socket' = "closed" /\ failed' = failed - 1 + writing /\ writing' = 0
             /\ rd' = Cut(rd) /\ UNCHANGED <<wq, written, sent>>
    BY <1>9, <2>2 DEF WriteHandler, TypeOK, Cut, timerVars
  <2>3. QED
    BY <1>9, <2>1, <2>2 DEF WriteHandler
<1>10. CASE RunReturns
  BY <1>10 DEF RunReturns, TypeOK, readVars, timerVars, writeVars
<1>11. CASE Connects
  BY <1>11 DEF Connects, TypeOK, readVars, timerVars, writeVars
<1>12. CASE ServerDrops
  BY <1>12 DEF ServerDrops, TypeOK, readVars, timerVars, writeVars
<1>13. CASE HeaderArrives
  <2>1. need' \in Nat
    <3>1. need' \in Uint16
      BY <1>13, ConstantsAssumption DEF HeaderArrives
    <3>2. QED
      BY <3>1, Uint16Is
  <2>2. QED
    BY <1>13, <2>1 DEF HeaderArrives, TypeOK, timerVars, writeVars
<1>14. CASE BodyArrives
  BY <1>14 DEF BodyArrives, TypeOK, readVars, timerVars, writeVars
<1>15. CASE ReadFails
  BY <1>15 DEF ReadFails, TypeOK, Cut, timerVars, writeVars
<1>16. CASE WriteDone
  BY <1>16 DEF WriteDone, TypeOK, readVars, timerVars, writeVars
<1>17. CASE WriteFails
  BY <1>17 DEF WriteFails, TypeOK, readVars, timerVars, writeVars
<1>18. CASE TimerFires
  BY <1>18 DEF TimerFires, TypeOK, readVars, timerVars, writeVars
<1>19. CASE UNCHANGED vars
  BY <1>19 DEF vars, TypeOK, readVars, timerVars, writeVars
<1>20. QED
  BY <1>1, <1>2, <1>3, <1>4, <1>5, <1>6, <1>7, <1>8, <1>9, <1>10,
     <1>11, <1>12, <1>13, <1>14, <1>15, <1>16, <1>17, <1>18, <1>19 DEF Next, Handlers, Environment

(* Every header holds a number of two bytes.                               *)
LEMMA TwoBytesStep ==
  ASSUME TwoBytes, [Next]_vars
  PROVE  TwoBytes'
<1>1. CASE Write
  BY <1>1 DEF Write, TwoBytes, readVars
<1>2. CASE PostClose
  BY <1>2 DEF PostClose, TwoBytes, readVars
<1>3. CASE OnConnect
  BY <1>3 DEF OnConnect, TwoBytes, readVars
<1>4. CASE HeaderHandler
  BY <1>4 DEF HeaderHandler, TwoBytes, readVars
<1>5. CASE ReadHandler
  BY <1>5 DEF ReadHandler, TwoBytes, readVars
<1>6. CASE HandleDataTimeout
  BY <1>6 DEF HandleDataTimeout, TwoBytes, readVars
<1>7. CASE WriteImpl
  BY <1>7 DEF WriteImpl, TwoBytes, readVars
<1>8. CASE CloseImpl
  BY <1>8 DEF CloseImpl, TwoBytes, readVars
<1>9. CASE WriteHandler
  BY <1>9 DEF WriteHandler, TwoBytes, readVars
<1>10. CASE RunReturns
  BY <1>10 DEF RunReturns, TwoBytes, readVars
<1>11. CASE Connects
  BY <1>11 DEF Connects, TwoBytes, readVars
<1>12. CASE ServerDrops
  BY <1>12 DEF ServerDrops, TwoBytes, readVars
<1>13. CASE HeaderArrives
  BY <1>13, ConstantsAssumption DEF HeaderArrives, TwoBytes
<1>14. CASE BodyArrives
  BY <1>14 DEF BodyArrives, TwoBytes, readVars
<1>15. CASE ReadFails
  BY <1>15 DEF ReadFails, TwoBytes, readVars
<1>16. CASE WriteDone
  BY <1>16 DEF WriteDone, TwoBytes, readVars
<1>17. CASE WriteFails
  BY <1>17 DEF WriteFails, TwoBytes, readVars
<1>18. CASE TimerFires
  BY <1>18 DEF TimerFires, TwoBytes, readVars
<1>19. CASE UNCHANGED vars
  BY <1>19 DEF vars, TwoBytes, readVars
<1>20. QED
  BY <1>1, <1>2, <1>3, <1>4, <1>5, <1>6, <1>7, <1>8, <1>9, <1>10,
     <1>11, <1>12, <1>13, <1>14, <1>15, <1>16, <1>17, <1>18, <1>19 DEF Next, Handlers, Environment

(* Who closes the socket also answers the connection attempt.              *)
LEMMA ConnectingStep ==
  ASSUME ConnectingFirst, [Next]_vars
  PROVE  ConnectingFirst'
<1>1. CASE Write
  BY <1>1 DEF Write, ConnectingFirst, readVars
<1>2. CASE PostClose
  BY <1>2 DEF PostClose, ConnectingFirst, readVars
<1>3. CASE OnConnect
  BY <1>3 DEF OnConnect, ConnectingFirst, Cut, Open, ReadHeader, readVars
<1>4. CASE HeaderHandler
  BY <1>4 DEF HeaderHandler, ConnectingFirst, Cut, Open, ReadHeader, readVars
<1>5. CASE ReadHandler
  BY <1>5 DEF ReadHandler, ConnectingFirst, Cut, Open, ReadHeader, readVars
<1>6. CASE HandleDataTimeout
  BY <1>6 DEF HandleDataTimeout, ConnectingFirst, Cut, Open, ReadHeader, readVars
<1>7. CASE WriteImpl
  BY <1>7 DEF WriteImpl, ConnectingFirst, readVars
<1>8. CASE CloseImpl
  BY <1>8 DEF CloseImpl, ConnectingFirst, Cut, Open, ReadHeader, readVars
<1>9. CASE WriteHandler
  BY <1>9 DEF WriteHandler, ConnectingFirst, Cut, Open, ReadHeader, readVars
<1>10. CASE RunReturns
  BY <1>10 DEF RunReturns, ConnectingFirst, readVars
<1>11. CASE Connects
  BY <1>11 DEF Connects, ConnectingFirst, readVars
<1>12. CASE ServerDrops
  BY <1>12 DEF ServerDrops, ConnectingFirst, readVars
<1>13. CASE HeaderArrives
  BY <1>13 DEF HeaderArrives, ConnectingFirst, readVars
<1>14. CASE BodyArrives
  BY <1>14 DEF BodyArrives, ConnectingFirst, readVars
<1>15. CASE ReadFails
  BY <1>15 DEF ReadFails, ConnectingFirst, Cut
<1>16. CASE WriteDone
  BY <1>16 DEF WriteDone, ConnectingFirst, readVars
<1>17. CASE WriteFails
  BY <1>17 DEF WriteFails, ConnectingFirst, readVars
<1>18. CASE TimerFires
  BY <1>18 DEF TimerFires, ConnectingFirst, readVars
<1>19. CASE UNCHANGED vars
  BY <1>19 DEF vars, ConnectingFirst, readVars
<1>20. QED
  BY <1>1, <1>2, <1>3, <1>4, <1>5, <1>6, <1>7, <1>8, <1>9, <1>10,
     <1>11, <1>12, <1>13, <1>14, <1>15, <1>16, <1>17, <1>18, <1>19 DEF Next, Handlers, Environment

(* What comes behind a sequence leaves its first element the first.        *)
LEMMA HeadOfConcat ==
  ASSUME NEW S, NEW s \in Seq(S), NEW t \in Seq(S), s # <<>>
  PROVE  Head(s \o t) = Head(s)
<1>1. Len(s) \in Nat /\ Len(t) \in Nat /\ Len(s) > 0
  OBVIOUS
<1>2. s \o t \in Seq(S) /\ Len(s \o t) = Len(s) + Len(t) /\ (s \o t)[1] = s[1]
  BY <1>1, ConcatProperties
<1>3. QED
  BY <1>1, <1>2

(* Nothing is left of a sequence whose only element is taken.              *)
LEMMA TailOfOne ==
  ASSUME NEW S, NEW s \in Seq(S), s # <<>>, ~(Len(s) > 1)
  PROVE  Tail(s) = <<>>
<1> DEFINE t == Tail(s)
<1>1. t \in Seq(S) /\ Len(t) = Len(s) - 1 /\ Len(s) \in Nat
  OBVIOUS
<1> HIDE DEF t
<1>2. ~(Len(t) > 0)
  BY <1>1
<1>3. t = <<>>
  BY <1>1, <1>2
<1>4. QED
  BY <1>3 DEF t

(* Closing the socket turns the write in the air into one that failed; a   *)
(* new write is only started when there is none.                           *)
LEMMA OneWriteStep ==
  ASSUME TypeOK, ConnectingFirst, OneWrite, [Next]_vars
  PROVE  OneWrite'
<1>1. CASE Write
  BY <1>1 DEF Write, TypeOK, OneWrite, writeVars
<1>2. CASE PostClose
  BY <1>2 DEF PostClose, TypeOK, OneWrite, writeVars
<1>3. CASE OnConnect
  <2>1. (UNCHANGED writeVars /\ UNCHANGED socket) \/ CloseSocket
    BY <1>3 DEF OnConnect, Recover
  <2>2. QED
    BY <2>1 DEF TypeOK, OneWrite, CloseSocket, writeVars
<1>4. CASE HeaderHandler
  <2>1. (UNCHANGED writeVars /\ UNCHANGED socket) \/ CloseSocket
    BY <1>4 DEF HeaderHandler, Recover
  <2>2. QED
    BY <2>1 DEF TypeOK, OneWrite, CloseSocket, writeVars
<1>5. CASE ReadHandler
  <2>1. (UNCHANGED writeVars /\ UNCHANGED socket) \/ CloseSocket
    BY <1>5 DEF ReadHandler, Recover
  <2>2. QED
    BY <2>1 DEF TypeOK, OneWrite, CloseSocket, writeVars
<1>6. CASE HandleDataTimeout
  <2>1. (UNCHANGED writeVars /\ UNCHANGED socket) \/ CloseSocket
    BY <1>6 DEF HandleDataTimeout, Recover
  <2>2. QED
    BY <2>1 DEF TypeOK, OneWrite, CloseSocket, writeVars
<1>7. CASE WriteImpl
  <2>1. wq' # <<>>
    <3>1. Head(posted) \in Nat \ {0}
      BY <1>7 DEF WriteImpl, Close, TypeOK
    <3>2. PacketsOf(Head(posted)) \in Seq(Packet) /\ PacketsOf(Head(posted)) # <<>>
      BY <3>1, PacketsOfType
    <3>3. wq' = wq \o PacketsOf(Head(posted)) /\ wq \in Seq(Packet)
      BY <1>7 DEF WriteImpl, TypeOK
    <3> HIDE DEF PacketsOf
    <3>4. QED
      BY <3>2, <3>3
  <2>2. CASE wq = <<>>
    <3>1. writing = 0 /\ written = 0 /\ failed = 0
      BY <2>2 DEF OneWrite, TypeOK
    <3>2. written' = 0 /\ <<writing', failed'>> \in {<<1, 0>>, <<0, 1>>}
      BY <1>7, <2>2, <3>1 DEF WriteImpl, StartWrite
    <3>3. QED
      BY <2>1, <3>2 DEF OneWrite
  <2>3. CASE wq # <<>>
    <3>1. UNCHANGED <<writing, written, failed, socket>>
      BY <1>7, <2>3 DEF WriteImpl
    <3>2. QED
      BY <2>1, <2>3, <3>1 DEF OneWrite
  <2>4. QED
    BY <2>2, <2>3
<1>8. CASE CloseImpl
  <2>1. (UNCHANGED writeVars /\ UNCHANGED socket) \/ CloseSocket
    BY <1>8 DEF CloseImpl, Recover
  <2>2. QED
    BY <2>1 DEF TypeOK, OneWrite, CloseSocket, writeVars
<1>9. CASE WriteHandler
  <2>1. CASE /\ written > 0 /\ written' = written - 1 /\ wq' = Tail(wq)
             /\ IF Len(wq) > 1 THEN StartWrite ELSE UNCHANGED <<writing, failed>>
    <3>1. written = 1 /\ writing = 0 /\ failed = 0 /\ wq # <<>> /\ wq \in Seq(Packet)
      BY <2>1 DEF OneWrite, TypeOK
    <3>2. CASE Len(wq) > 1
      <4>1. Tail(wq) \in Seq(Packet) /\ Len(Tail(wq)) = Len(wq) - 1
        BY <3>1
      <4>2. wq' # <<>>
        BY <2>1, <3>2, <4>1
      <4>3. written' = 0 /\ <<writing', failed'>> \in {<<1, 0>>, <<0, 1>>}
        BY <2>1, <3>1, <3>2 DEF StartWrite
      <4>4. writing' + written' + failed' = 1
        BY <4>3
      <4>5. QED
        BY <4>2, <4>4 DEF OneWrite
    <3>3. CASE ~(Len(wq) > 1)
      <4>1. wq' = <<>>
        BY <2>1, <3>1, <3>3, TailOfOne
      <4>2. writing' = 0 /\ written' = 0 /\ failed' = 0
        BY <2>1, <3>1, <3>3
      <4>3. QED
        BY <4>1, <4>2 DEF OneWrite
    <3>4. QED
      BY <3>2, <3>3
  <2>2. CASE /\ failed > 0
             /\ socket' = "closed" /\ failed' = failed - 1 + writing /\ writing' = 0
             /\ UNCHANGED <<wq, written, sent>>
    BY <2>2 DEF OneWrite, TypeOK
  <2>3. QED
    BY <1>9, <2>1, <2>2 DEF WriteHandler
<1>10. CASE RunReturns
  BY <1>10 DEF RunReturns, OneWrite, writeVars
<1>11. CASE Connects
  BY <1>11 DEF Connects, TypeOK, ConnectingFirst, OneWrite, writeVars
<1>12. CASE ServerDrops
  BY <1>12 DEF ServerDrops, TypeOK, OneWrite, writeVars
<1>13. CASE HeaderArrives
  BY <1>13 DEF HeaderArrives, TypeOK, OneWrite, writeVars
<1>14. CASE BodyArrives
  BY <1>14 DEF BodyArrives, TypeOK, OneWrite, writeVars
<1>15. CASE ReadFails
  BY <1>15 DEF ReadFails, TypeOK, OneWrite, writeVars
<1>16. CASE WriteDone
  BY <1>16 DEF WriteDone, TypeOK, OneWrite, writeVars
<1>17. CASE WriteFails
  BY <1>17 DEF WriteFails, TypeOK, OneWrite, writeVars
<1>18. CASE TimerFires
  BY <1>18 DEF TimerFires, TypeOK, OneWrite, writeVars
<1>19. CASE UNCHANGED vars
  BY <1>19 DEF vars, OneWrite, writeVars
<1>20. QED
  BY <1>1, <1>2, <1>3, <1>4, <1>5, <1>6, <1>7, <1>8, <1>9, <1>10,
     <1>11, <1>12, <1>13, <1>14, <1>15, <1>16, <1>17, <1>18, <1>19 DEF Next, Handlers, Environment

(* A body is only read once the timer was set, and who ends a body read    *)
(* cancels the timer or closes the socket.                                 *)
LEMMA TimerStep ==
  ASSUME TypeOK, ConnectingFirst, TimerFollowsBody, [Next]_vars
  PROVE  TimerFollowsBody'
<1>1. CASE Write
  BY <1>1 DEF Write, TypeOK, TimerFollowsBody, readVars, timerVars
<1>2. CASE PostClose
  BY <1>2 DEF PostClose, TypeOK, TimerFollowsBody, readVars, timerVars
<1>3. CASE OnConnect
  BY <1>3 DEF OnConnect, TypeOK, TimerFollowsBody, CloseSocket, Recover, ReadHeader, timerVars
<1>4. CASE HeaderHandler
  BY <1>4 DEF HeaderHandler, TypeOK, TimerFollowsBody, CloseSocket, Recover, ReadHeader, timerVars
<1>5. CASE ReadHandler
  BY <1>5 DEF ReadHandler, TypeOK, TimerFollowsBody, CloseSocket, Recover, ReadHeader, timerVars
<1>6. CASE HandleDataTimeout
  BY <1>6 DEF HandleDataTimeout, TypeOK, TimerFollowsBody, CloseSocket, Recover, Cut, timerVars
<1>7. CASE WriteImpl
  BY <1>7 DEF WriteImpl, TypeOK, TimerFollowsBody, readVars, timerVars
<1>8. CASE CloseImpl
  BY <1>8 DEF CloseImpl, TypeOK, TimerFollowsBody, CloseSocket, Recover, Cut, timerVars
<1>9. CASE WriteHandler
  BY <1>9 DEF WriteHandler, TypeOK, TimerFollowsBody, CloseSocket, Recover, Cut, timerVars
<1>10. CASE RunReturns
  BY <1>10 DEF RunReturns, TypeOK, TimerFollowsBody, readVars, timerVars
<1>11. CASE Connects
  BY <1>11 DEF Connects, TypeOK, ConnectingFirst, TimerFollowsBody, timerVars
<1>12. CASE ServerDrops
  BY <1>12 DEF ServerDrops, TypeOK, TimerFollowsBody, readVars, timerVars
<1>13. CASE HeaderArrives
  BY <1>13 DEF HeaderArrives, TypeOK, TimerFollowsBody, readVars, timerVars
<1>14. CASE BodyArrives
  BY <1>14 DEF BodyArrives, TypeOK, TimerFollowsBody, readVars, timerVars
<1>15. CASE ReadFails
  BY <1>15 DEF ReadFails, TypeOK, TimerFollowsBody, CloseSocket, Recover, Cut, timerVars
<1>16. CASE WriteDone
  BY <1>16 DEF WriteDone, TypeOK, TimerFollowsBody, readVars, timerVars
<1>17. CASE WriteFails
  BY <1>17 DEF WriteFails, TypeOK, TimerFollowsBody, readVars, timerVars
<1>18. CASE TimerFires
  BY <1>18 DEF TimerFires, TypeOK, TimerFollowsBody, readVars, timerVars
<1>19. CASE UNCHANGED vars
  BY <1>19 DEF vars, TimerFollowsBody, readVars, timerVars
<1>20. QED
  BY <1>1, <1>2, <1>3, <1>4, <1>5, <1>6, <1>7, <1>8, <1>9, <1>10,
     <1>11, <1>12, <1>13, <1>14, <1>15, <1>16, <1>17, <1>18, <1>19 DEF Next, Handlers, Environment

-----------------------------------------------------------------------------
(* What is posted, and in which order it is sent.                          *)

(* No Close is posted as long as the user has messages to type.            *)
LEMMA NoClose ==
  ASSUME TypeOK, CloseIsLast, typed < MaxMessages
  PROVE  Lines(posted) = Len(posted)
<1>1. Len(posted) \in Nat
  BY DEF TypeOK
<1>2. Lines(posted) \in {Len(posted), Len(posted) - 1}
  BY DEF Lines
<1>3. ~(Lines(posted) < Len(posted))
  BY ConstantsAssumption DEF CloseIsLast, InOrder, TypeOK
<1>4. QED
  BY <1>1, <1>2, <1>3

(* The user types the next message.                                        *)
LEMMA AppendLine ==
  ASSUME NEW p \in Seq(Nat), NEW t \in Nat, InOrder(p, t), Lines(p) = Len(p)
  PROVE  InOrder(Append(p, t + 1), t + 1) /\ Lines(Append(p, t + 1)) = Len(p) + 1
<1> DEFINE q == Append(p, t + 1)
<1>1. /\ q \in Seq(Nat) /\ Len(q) = Len(p) + 1 /\ q[Len(q)] = t + 1
      /\ \A i \in 1 .. Len(p) : q[i] = p[i]
  OBVIOUS
<1> HIDE DEF q
<1>2. Lines(q) = Len(q)
  BY <1>1 DEF Lines, Close
<1>3. \A i \in 1 .. Len(p) : p[i] = t - Len(p) + i
  BY DEF InOrder
<1>4. Len(p) <= t
  BY DEF InOrder
<1>5. QED
  BY <1>1, <1>2, <1>3, <1>4 DEF InOrder, q

(* The user closes the client after the last message.                      *)
LEMMA AppendClose ==
  ASSUME NEW p \in Seq(Nat), NEW t \in Nat, InOrder(p, t), Lines(p) = Len(p),
         t = MaxMessages
  PROVE  InOrder(Append(p, Close), t) /\ Lines(Append(p, Close)) = Len(p)
<1> DEFINE q == Append(p, Close)
<1>1. /\ q # <<>> /\ Len(q) = Len(p) + 1 /\ q[Len(q)] = Close
      /\ \A i \in 1 .. Len(p) : q[i] = p[i]
  BY DEF Close
<1> HIDE DEF q
<1>2. Lines(q) = Len(p)
  BY <1>1 DEF Lines
<1>3. Len(p) <= t /\ \A i \in 1 .. Len(p) : p[i] = t - Len(p) + i
  BY DEF InOrder
<1>4. QED
  BY <1>1, <1>2, <1>3 DEF InOrder, q

(* To take a message from the posted handlers leaves the later ones.       *)
LEMMA TakeLine ==
  ASSUME NEW p \in Seq(Nat), NEW t \in Nat, InOrder(p, t), p # <<>>, p[1] # Close
  PROVE  /\ InOrder(Tail(p), t) /\ Lines(Tail(p)) = Lines(p) - 1
         /\ Lines(p) > 0 /\ p[1] = t - Lines(p) + 1
<1> DEFINE q == Tail(p)
<1>1. Len(p) \in Nat \ {0}
  OBVIOUS
<1>2. /\ q \in Seq(Nat) /\ Len(q) = Len(p) - 1
      /\ \A i \in 1 .. Len(p) - 1 : q[i] = p[i + 1]
  OBVIOUS
<1> HIDE DEF q
<1>3. Lines(p) \in Nat \ {0} /\ Lines(p) <= Len(p)
  BY <1>1 DEF Lines
<1>4. Lines(q) = Lines(p) - 1
  <2>1. CASE Len(p) = 1
    BY <1>2, <1>3, <2>1 DEF Lines
  <2>2. CASE Len(p) # 1
    <3>1. q # <<>> /\ q[Len(q)] = p[Len(p)]
      BY <1>1, <1>2, <2>2
    <3>2. QED
      BY <1>1, <1>2, <3>1 DEF Lines
  <2>3. QED
    BY <2>1, <2>2
<1>5. \A i \in 1 .. Lines(p) - 1 : q[i] = p[i + 1]
  BY <1>1, <1>2, <1>3
<1>6. Lines(p) <= t /\ \A i \in 1 .. Lines(p) : p[i] = t - Lines(p) + i
  BY DEF InOrder
<1>7. \A i \in 1 .. Lines(p) - 1 : q[i] = t - (Lines(p) - 1) + i
  <2> TAKE i \in 1 .. Lines(p) - 1
  <2>1. q[i] = p[i + 1] /\ i + 1 \in 1 .. Lines(p)
    BY <1>3, <1>5
  <2>2. p[i + 1] = t - Lines(p) + (i + 1)
    BY <1>6, <2>1
  <2>3. QED
    BY <1>3, <2>1, <2>2
<1>8. Lines(q) < Len(q) => t = MaxMessages
  BY <1>1, <1>2, <1>3, <1>4 DEF InOrder
<1>9. InOrder(q, t)
  BY <1>3, <1>4, <1>6, <1>7, <1>8 DEF InOrder
<1>10. QED
  BY <1>3, <1>4, <1>6, <1>9 DEF q

(* A Close is taken when nothing else is posted.                           *)
LEMMA TakeClose ==
  ASSUME NEW p \in Seq(Nat), NEW t \in Nat, InOrder(p, t), p # <<>>, p[1] = Close
  PROVE  InOrder(Tail(p), t) /\ Lines(Tail(p)) = 0 /\ Lines(p) = 0
<1>1. Len(p) \in Nat /\ Len(p) > 0 /\ Lines(p) \in Nat /\ Lines(p) >= Len(p) - 1
  BY DEF Lines
<1>2. Lines(p) = 0
  BY <1>1 DEF InOrder, Close
<1>3. ~(Len(p) > 1)
  BY <1>1, <1>2
<1>4. Tail(p) = <<>>
  BY <1>1, <1>3, TailOfOne
<1>5. Lines(<<>>) = 0
  BY DEF Lines
<1>6. InOrder(<<>>, t)
  BY <1>5 DEF InOrder
<1>7. QED
  BY <1>2, <1>4, <1>5, <1>6

(* The user types on only before it closes; the handlers run in the order  *)
(* they were posted.                                                       *)
LEMMA CloseIsLastStep ==
  ASSUME TypeOK, CloseIsLast, [Next]_vars
  PROVE  CloseIsLast'
<1>1. CASE Write
  <2>1. Lines(posted) = Len(posted)
    BY <1>1, NoClose DEF Write
  <2>2. InOrder(Append(posted, typed + 1), typed + 1)
    BY <2>1, AppendLine DEF CloseIsLast, TypeOK
  <2>3. QED
    BY <1>1, <2>2 DEF Write, CloseIsLast
<1>2. CASE PostClose
  <2>1. Lines(posted) = Len(posted)
    BY <1>2 DEF PostClose, Lines, TypeOK
  <2>2. InOrder(Append(posted, Close), typed)
    BY <1>2, <2>1, AppendClose DEF PostClose, CloseIsLast, TypeOK
  <2>3. QED
    BY <1>2, <2>2 DEF PostClose, CloseIsLast
<1>3. CASE OnConnect
  BY <1>3 DEF OnConnect, CloseIsLast
<1>4. CASE HeaderHandler
  BY <1>4 DEF HeaderHandler, CloseIsLast
<1>5. CASE ReadHandler
  BY <1>5 DEF ReadHandler, CloseIsLast
<1>6. CASE HandleDataTimeout
  BY <1>6 DEF HandleDataTimeout, CloseIsLast
<1>7. CASE WriteImpl
  <2>1. posted # <<>> /\ posted[1] # Close
    BY <1>7 DEF WriteImpl, TypeOK
  <2>2. InOrder(Tail(posted), typed)
    BY <2>1, TakeLine DEF CloseIsLast, TypeOK
  <2>3. QED
    BY <1>7, <2>2 DEF WriteImpl, CloseIsLast
<1>8. CASE CloseImpl
  <2>1. posted # <<>> /\ posted[1] = Close
    BY <1>8 DEF CloseImpl, TypeOK
  <2>2. InOrder(Tail(posted), typed)
    BY <2>1, TakeClose DEF CloseIsLast, TypeOK
  <2>3. QED
    BY <1>8, <2>2 DEF CloseImpl, CloseIsLast
<1>9. CASE WriteHandler
  BY <1>9 DEF WriteHandler, CloseIsLast
<1>10. CASE RunReturns
  BY <1>10 DEF RunReturns, CloseIsLast
<1>11. CASE Connects
  BY <1>11 DEF Connects, CloseIsLast
<1>12. CASE ServerDrops
  BY <1>12 DEF ServerDrops, CloseIsLast
<1>13. CASE HeaderArrives
  BY <1>13 DEF HeaderArrives, CloseIsLast
<1>14. CASE BodyArrives
  BY <1>14 DEF BodyArrives, CloseIsLast
<1>15. CASE ReadFails
  BY <1>15 DEF ReadFails, CloseIsLast
<1>16. CASE WriteDone
  BY <1>16 DEF WriteDone, CloseIsLast
<1>17. CASE WriteFails
  BY <1>17 DEF WriteFails, CloseIsLast
<1>18. CASE TimerFires
  BY <1>18 DEF TimerFires, CloseIsLast
<1>19. CASE UNCHANGED vars
  BY <1>19 DEF vars, CloseIsLast
<1>20. QED
  BY <1>1, <1>2, <1>3, <1>4, <1>5, <1>6, <1>7, <1>8, <1>9, <1>10,
     <1>11, <1>12, <1>13, <1>14, <1>15, <1>16, <1>17, <1>18, <1>19 DEF Next, Handlers, Environment

(* The packets of the first n messages, in order.                          *)
UpTo(n) ==
  [k \in 1 .. n * Recipients |->
     [msg |-> 1 + ((k - 1) \div Recipients), to |-> 1 + ((k - 1) % Recipients)]]

(* Where the k-th packet comes from: its message and its recipient.        *)
LEMMA Position ==
  ASSUME NEW n \in Nat, NEW R \in Nat, R > 0, NEW j \in 1 .. R
  PROVE  /\ ((n * R + j) - 1) \div R = n
         /\ ((n * R + j) - 1) % R = j - 1
OBVIOUS

(* A function on 1 .. m is a sequence.                                     *)
LEMMA IsSequence ==
  ASSUME NEW S, NEW m \in Nat, NEW s \in [1 .. m -> S]
  PROVE  s \in Seq(S) /\ Len(s) = m
<1>1. s \in Seq(S)
  BY SeqDef
<1>2. QED
  BY <1>1, LenProperties

(* Two sequences one after the other, element by element.                  *)
LEMMA Glue ==
  ASSUME NEW S, NEW s \in Seq(S), NEW t \in Seq(S), NEW u \in Seq(S),
         Len(u) = Len(s) + Len(t),
         \A k \in 1 .. Len(s) : u[k] = s[k],
         \A j \in 1 .. Len(t) : u[Len(s) + j] = t[j]
  PROVE  s \o t = u
<1> DEFINE m == Len(s)
           r == Len(t)
<1>1. m \in Nat /\ r \in Nat /\ Len(u) = m + r
  OBVIOUS
<1>2. /\ s \o t \in Seq(S) /\ Len(s \o t) = m + r
      /\ \A k \in 1 .. m + r : (s \o t)[k] = IF k <= m THEN s[k] ELSE t[k - m]
  BY <1>1, ConcatProperties
<1>3. \A k \in 1 .. m + r : (s \o t)[k] = u[k]
  <2> TAKE k \in 1 .. m + r
  <2>1. CASE k <= m
    <3>1. k \in 1 .. m
      BY <2>1
    <3>2. QED
      BY <1>2, <2>1, <3>1
  <2>2. CASE ~(k <= m)
    <3>1. k - m \in 1 .. r /\ m + (k - m) = k
      BY <2>2
    <3>2. QED
      BY <1>2, <2>2, <3>1
  <2>3. QED
    BY <2>1, <2>2
<1>4. QED
  BY <1>1, <1>2, <1>3, SeqEqual

(* There is a packet of every message for every recipient.                 *)
LEMMA UpToType ==
  ASSUME NEW n \in Nat
  PROVE  UpTo(n) \in [1 .. n * Recipients -> Packet]
<1>1. Recipients \in Nat /\ Recipients > 0
  BY ConstantsAssumption
<1>2. ASSUME NEW k \in 1 .. n * Recipients
      PROVE  [msg |-> 1 + ((k - 1) \div Recipients), to |-> 1 + ((k - 1) % Recipients)] \in Packet
  <2>1. k - 1 \in Nat
    BY <1>1
  <2>2. (k - 1) \div Recipients \in Nat /\ (k - 1) % Recipients \in 0 .. Recipients - 1
    BY <1>1, <2>1
  <2>3. /\ 1 + ((k - 1) \div Recipients) \in Nat \ {0}
        /\ 1 + ((k - 1) % Recipients) \in 1 .. Recipients
    BY <1>1, <2>2
  <2>4. QED
    BY <2>3 DEF Packet
<1>3. QED
  BY <1>2 DEF UpTo

(* The packets of one more message come after those of the first n.        *)
LEMMA OneMore ==
  ASSUME NEW n \in Nat
  PROVE  UpTo(n) \o PacketsOf(n + 1) = UpTo(n + 1)
<1> DEFINE R == Recipients
<1> DEFINE m == n * R
<1>1. R \in Nat /\ R > 0 /\ m \in Nat
  BY ConstantsAssumption
<1>2. (n + 1) * R = m + R
  BY <1>1
<1>3. UpTo(n) \in [1 .. m -> Packet] /\ UpTo(n + 1) \in [1 .. m + R -> Packet]
  <2>1. n + 1 \in Nat
    OBVIOUS
  <2>2. QED
    BY <1>2, <2>1, UpToType
<1>4. /\ PacketsOf(n + 1) \in [1 .. R -> Packet]
      /\ \A i \in 1 .. R : PacketsOf(n + 1)[i] = [msg |-> n + 1, to |-> i]
  <2>1. \A i \in 1 .. R : [msg |-> n + 1, to |-> i] \in Packet
    BY <1>1 DEF Packet
  <2>2. QED
    BY <2>1 DEF PacketsOf
<1>5. \A k \in 1 .. m : UpTo(n + 1)[k] = UpTo(n)[k]
  BY <1>1, <1>2 DEF UpTo
<1>6. \A j \in 1 .. R : UpTo(n + 1)[m + j] = PacketsOf(n + 1)[j]
  <2> TAKE j \in 1 .. R
  <2>1. m + j \in 1 .. (n + 1) * R
    BY <1>1, <1>2
  <2>2. ((m + j) - 1) \div R = n /\ ((m + j) - 1) % R = j - 1
    BY <1>1, Position
  <2>3. QED
    BY <1>1, <1>4, <2>1, <2>2 DEF UpTo
<1>7. UpTo(n) \in Seq(Packet) /\ Len(UpTo(n)) = m
  BY <1>1, <1>3, IsSequence
<1>8. UpTo(n + 1) \in Seq(Packet) /\ Len(UpTo(n + 1)) = m + R
  <2>1. m + R \in Nat
    BY <1>1
  <2>2. QED
    BY <1>3, <2>1, IsSequence
<1>9. PacketsOf(n + 1) \in Seq(Packet) /\ Len(PacketsOf(n + 1)) = R
  BY <1>1, <1>4, IsSequence
<1> DEFINE s == UpTo(n)
           t == PacketsOf(n + 1)
           u == UpTo(n + 1)
<1>10. /\ s \in Seq(Packet) /\ t \in Seq(Packet) /\ u \in Seq(Packet)
       /\ Len(u) = Len(s) + Len(t)
       /\ \A k \in 1 .. Len(s) : u[k] = s[k]
       /\ \A j \in 1 .. Len(t) : u[Len(s) + j] = t[j]
  BY <1>5, <1>6, <1>7, <1>8, <1>9
<1> HIDE DEF s, t, u
<1>11. s \o t = u
  BY <1>10, Glue
<1>12. QED
  BY <1>11 DEF s, t, u

(* The packets taken so far are those of the messages no longer posted.    *)
LEMMA TakenIs ==
  TypeOK /\ CloseIsLast => Taken = UpTo(typed - Lines(posted))
<1> SUFFICES ASSUME TypeOK, CloseIsLast
             PROVE  Taken = UpTo(typed - Lines(posted))
  OBVIOUS
<1> DEFINE left == {i \in 1 .. Len(posted) : posted[i] # Close}
           least == CHOOSE i \in left : \A j \in left : i <= j
           messages == IF left = {} THEN typed ELSE posted[least] - 1
<1>1. Len(posted) \in Nat /\ Lines(posted) \in Nat /\ Lines(posted) <= Len(posted)
  <2>1. Len(posted) \in Nat /\ (posted # <<>> => Len(posted) > 0)
    BY DEF TypeOK
  <2>2. QED
    BY <2>1 DEF Lines
<1>2. \A i \in 1 .. Lines(posted) : posted[i] = typed - Lines(posted) + i /\ posted[i] # Close
  BY <1>1 DEF CloseIsLast, InOrder, Close, TypeOK
<1>3. \A i \in 1 .. Len(posted) : i > Lines(posted) => posted[i] = Close
  BY <1>1 DEF Lines
<1>4. left = 1 .. Lines(posted)
  BY <1>1, <1>2, <1>3
<1>5. messages = typed - Lines(posted)
  <2>1. CASE Lines(posted) = 0
    BY <1>4, <2>1 DEF TypeOK
  <2>2. CASE Lines(posted) # 0
    <3>1. 1 \in left /\ \A j \in left : 1 <= j
      BY <1>1, <1>4, <2>2
    <3>2. least \in left /\ \A j \in left : least <= j
      BY <3>1
    <3>3. least = 1
      BY <1>1, <1>4, <3>1, <3>2
    <3>4. posted[1] = typed - Lines(posted) + 1
      BY <1>1, <1>2, <2>2
    <3>5. messages = posted[1] - 1
      BY <3>1, <3>3
    <3>6. typed \in Nat
      BY DEF TypeOK
    <3> HIDE DEF messages
    <3>7. QED
      BY <1>1, <3>4, <3>5, <3>6
  <2>3. QED
    BY <2>1, <2>2
<1>6. Taken = UpTo(messages)
  BY DEF Taken, UpTo
<1>7. QED
  BY <1>5, <1>6

(* After a step as well.                                                   *)
LEMMA TakenIsNext ==
  ASSUME TypeOK', CloseIsLast'
  PROVE  Taken' = UpTo(typed' - Lines(posted)')
<1>1. (TypeOK /\ CloseIsLast => Taken = UpTo(typed - Lines(posted)))'
  BY TakenIs, PTL
<1>2. QED
  BY <1>1

(* Nothing changes when as many messages wait for WriteImpl as before.     *)
LEMMA SameTaken ==
  ASSUME TypeOK, CloseIsLast, TypeOK', CloseIsLast', SendsInOrder,
         typed' - Lines(posted)' = typed - Lines(posted),
         sent' \o wq' = sent \o wq
  PROVE  SendsInOrder'
BY TakenIs, TakenIsNext DEF SendsInOrder

(* A packet that moves from the front of the queue to the end of what was  *)
(* sent keeps its place between the two.                                   *)
LEMMA MoveHead ==
  ASSUME NEW S, NEW s \in Seq(S), NEW q \in Seq(S), q # <<>>
  PROVE  Append(s, Head(q)) \o Tail(q) = s \o q
<1> DEFINE h == <<Head(q)>>
<1>1. Head(q) \in S /\ Tail(q) \in Seq(S) /\ h \in Seq(S)
  OBVIOUS
<1>2. h \o Tail(q) = q
  BY HeadTailProperties
<1>3. Append(s, Head(q)) = s \o h
  BY <1>1, AppendIsConcat
<1> HIDE DEF h
<1>4. (s \o h) \o Tail(q) = s \o (h \o Tail(q))
  BY <1>1, ConcatAssociative
<1>5. QED
  BY <1>2, <1>3, <1>4

(* WriteImpl adds the packets of the next message; WriteHandler takes the  *)
(* packet that was written.                                                *)
LEMMA SendsInOrderStep ==
  ASSUME TypeOK, CloseIsLast, TypeOK', CloseIsLast', OneWrite, SendsInOrder, [Next]_vars
  PROVE  SendsInOrder'
<1>1. CASE Write
  <2>1. UNCHANGED <<sent, wq>>
    BY <1>1 DEF Write, writeVars
  <2>2. typed' - Lines(posted)' = typed - Lines(posted)
    <3>1. Lines(posted) = Len(posted)
      BY <1>1, NoClose DEF Write
    <3>2. Lines(Append(posted, typed + 1)) = Len(posted) + 1
      <4>1. posted \in Seq(Nat) /\ typed \in Nat /\ InOrder(posted, typed)
        BY DEF TypeOK, CloseIsLast
      <4>2. QED
        BY <3>1, <4>1, AppendLine
    <3>3. typed \in Nat /\ Len(posted) \in Nat
      BY DEF TypeOK
    <3>4. QED
      BY <1>1, <3>1, <3>2, <3>3 DEF Write
  <2>3. QED
    BY <2>1, <2>2, SameTaken
<1>2. CASE PostClose
  <2>1. UNCHANGED <<sent, wq>>
    BY <1>2 DEF PostClose, writeVars
  <2>2. typed' - Lines(posted)' = typed - Lines(posted)
    <3>1. Lines(posted) = Len(posted)
      <4>1. posted \in Seq(Nat) /\ \A i \in 1 .. Len(posted) : posted[i] # Close
        BY <1>2 DEF PostClose, TypeOK
      <4>2. posted # <<>> => Len(posted) \in 1 .. Len(posted)
        BY <4>1
      <4>3. QED
        BY <4>1, <4>2 DEF Lines
    <3>2. Lines(Append(posted, Close)) = Len(posted)
      <4>1. posted \in Seq(Nat) /\ typed \in Nat /\ InOrder(posted, typed)
        BY DEF TypeOK, CloseIsLast
      <4>2. typed = MaxMessages
        BY <1>2 DEF PostClose
      <4>3. QED
        BY <3>1, <4>1, <4>2, AppendClose
    <3>3. QED
      BY <1>2, <3>1, <3>2 DEF PostClose, TypeOK
  <2>3. QED
    BY <2>1, <2>2, SameTaken
<1>3. CASE OnConnect
  <2>1. UNCHANGED <<sent, wq>>
    BY <1>3 DEF OnConnect, CloseSocket, Recover, writeVars
  <2>2. typed' - Lines(posted)' = typed - Lines(posted)
    BY <1>3 DEF OnConnect
  <2>3. QED
    BY <2>1, <2>2, SameTaken
<1>4. CASE HeaderHandler
  <2>1. UNCHANGED <<sent, wq>>
    BY <1>4 DEF HeaderHandler, CloseSocket, Recover, writeVars
  <2>2. typed' - Lines(posted)' = typed - Lines(posted)
    BY <1>4 DEF HeaderHandler
  <2>3. QED
    BY <2>1, <2>2, SameTaken
<1>5. CASE ReadHandler
  <2>1. UNCHANGED <<sent, wq>>
    BY <1>5 DEF ReadHandler, CloseSocket, Recover, writeVars
  <2>2. typed' - Lines(posted)' = typed - Lines(posted)
    BY <1>5 DEF ReadHandler
  <2>3. QED
    BY <2>1, <2>2, SameTaken
<1>6. CASE HandleDataTimeout
  <2>1. UNCHANGED <<sent, wq>>
    BY <1>6 DEF HandleDataTimeout, CloseSocket, Recover, writeVars
  <2>2. typed' - Lines(posted)' = typed - Lines(posted)
    BY <1>6 DEF HandleDataTimeout
  <2>3. QED
    BY <2>1, <2>2, SameTaken
<1>7. CASE WriteImpl
  <2> DEFINE n == typed - Lines(posted)
  <2>1. posted # <<>> /\ posted[1] # Close /\ Head(posted) = posted[1]
    BY <1>7 DEF WriteImpl, TypeOK
  <2>2. /\ Lines(Tail(posted)) = Lines(posted) - 1
        /\ Lines(posted) > 0 /\ posted[1] = n + 1
    BY <2>1, TakeLine DEF CloseIsLast, TypeOK
  <2>3. n \in Nat /\ Lines(posted) \in Nat /\ typed \in Nat
    <3>1. typed \in Nat /\ Lines(posted) <= typed
      BY DEF CloseIsLast, InOrder, TypeOK
    <3>2. Lines(posted) \in Nat
      <4>1. Len(posted) \in Nat /\ Lines(posted) \in {Len(posted), Len(posted) - 1}
        BY DEF Lines, TypeOK
      <4>2. QED
        BY <2>2, <4>1
    <3>3. QED
      BY <3>1, <3>2
  <2>4. posted' = Tail(posted) /\ typed' = typed /\ wq' = wq \o PacketsOf(n + 1) /\ sent' = sent
    BY <1>7, <2>1, <2>2 DEF WriteImpl
  <2>5. typed' - Lines(posted)' = n + 1
    BY <2>2, <2>3, <2>4
  <2> HIDE DEF n
  <2>6. sent' \o wq' = (sent \o wq) \o PacketsOf(n + 1)
    <3>1. PacketsOf(n + 1) \in Seq(Packet)
      BY <2>3, PacketsOfType
    <3>2. wq \in Seq(Packet) /\ sent \in Seq(Packet)
      BY DEF TypeOK
    <3>3. QED
      BY <2>4, <3>1, <3>2, ConcatAssociative
  <2>7. sent \o wq = UpTo(n)
    BY TakenIs DEF SendsInOrder, n
  <2>8. sent' \o wq' = UpTo(n + 1)
    BY <2>3, <2>6, <2>7, OneMore
  <2>9. QED
    BY <2>5, <2>8, TakenIsNext DEF SendsInOrder
<1>8. CASE CloseImpl
  <2>1. UNCHANGED <<sent, wq>>
    BY <1>8 DEF CloseImpl, CloseSocket
  <2>2. typed' - Lines(posted)' = typed - Lines(posted)
    <3>1. posted # <<>> /\ posted[1] = Close
      BY <1>8 DEF CloseImpl, TypeOK
    <3>2. Lines(Tail(posted)) = 0 /\ Lines(posted) = 0
      BY <3>1, TakeClose DEF CloseIsLast, TypeOK
    <3>3. QED
      BY <1>8, <3>2 DEF CloseImpl
  <2>3. QED
    BY <2>1, <2>2, SameTaken
<1>9. CASE WriteHandler
  <2>1. typed' - Lines(posted)' = typed - Lines(posted)
    BY <1>9 DEF WriteHandler
  <2>2. sent' \o wq' = sent \o wq
    <3>1. CASE written > 0 /\ wq' = Tail(wq) /\ sent' = Append(sent, Head(wq))
      <4>1. wq # <<>>
        BY <3>1 DEF OneWrite, TypeOK
      <4>2. QED
        BY <3>1, <4>1, MoveHead DEF TypeOK
    <3>2. CASE UNCHANGED <<wq, sent>>
      BY <3>2
    <3>3. QED
      BY <1>9, <3>1, <3>2 DEF WriteHandler
  <2>3. QED
    BY <2>1, <2>2, SameTaken
<1>10. CASE RunReturns
  <2>1. UNCHANGED <<sent, wq>>
    BY <1>10 DEF RunReturns, CloseSocket, Recover, writeVars
  <2>2. typed' - Lines(posted)' = typed - Lines(posted)
    BY <1>10 DEF RunReturns
  <2>3. QED
    BY <2>1, <2>2, SameTaken
<1>11. CASE Connects
  <2>1. UNCHANGED <<sent, wq>>
    BY <1>11 DEF Connects, CloseSocket, Recover, writeVars
  <2>2. typed' - Lines(posted)' = typed - Lines(posted)
    BY <1>11 DEF Connects
  <2>3. QED
    BY <2>1, <2>2, SameTaken
<1>12. CASE ServerDrops
  <2>1. UNCHANGED <<sent, wq>>
    BY <1>12 DEF ServerDrops, CloseSocket, Recover, writeVars
  <2>2. typed' - Lines(posted)' = typed - Lines(posted)
    BY <1>12 DEF ServerDrops
  <2>3. QED
    BY <2>1, <2>2, SameTaken
<1>13. CASE HeaderArrives
  <2>1. UNCHANGED <<sent, wq>>
    BY <1>13 DEF HeaderArrives, CloseSocket, Recover, writeVars
  <2>2. typed' - Lines(posted)' = typed - Lines(posted)
    BY <1>13 DEF HeaderArrives
  <2>3. QED
    BY <2>1, <2>2, SameTaken
<1>14. CASE BodyArrives
  <2>1. UNCHANGED <<sent, wq>>
    BY <1>14 DEF BodyArrives, CloseSocket, Recover, writeVars
  <2>2. typed' - Lines(posted)' = typed - Lines(posted)
    BY <1>14 DEF BodyArrives
  <2>3. QED
    BY <2>1, <2>2, SameTaken
<1>15. CASE ReadFails
  <2>1. UNCHANGED <<sent, wq>>
    BY <1>15 DEF ReadFails, CloseSocket, Recover, writeVars
  <2>2. typed' - Lines(posted)' = typed - Lines(posted)
    BY <1>15 DEF ReadFails
  <2>3. QED
    BY <2>1, <2>2, SameTaken
<1>16. CASE WriteDone
  <2>1. UNCHANGED <<sent, wq>>
    BY <1>16 DEF WriteDone, CloseSocket, Recover, writeVars
  <2>2. typed' - Lines(posted)' = typed - Lines(posted)
    BY <1>16 DEF WriteDone
  <2>3. QED
    BY <2>1, <2>2, SameTaken
<1>17. CASE WriteFails
  <2>1. UNCHANGED <<sent, wq>>
    BY <1>17 DEF WriteFails, CloseSocket, Recover, writeVars
  <2>2. typed' - Lines(posted)' = typed - Lines(posted)
    BY <1>17 DEF WriteFails
  <2>3. QED
    BY <2>1, <2>2, SameTaken
<1>18. CASE TimerFires
  <2>1. UNCHANGED <<sent, wq>>
    BY <1>18 DEF TimerFires, CloseSocket, Recover, writeVars
  <2>2. typed' - Lines(posted)' = typed - Lines(posted)
    BY <1>18 DEF TimerFires
  <2>3. QED
    BY <2>1, <2>2, SameTaken
<1>19. CASE UNCHANGED vars
  <2>1. UNCHANGED <<sent, wq>>
    BY <1>19 DEF vars, writeVars
  <2>2. typed' - Lines(posted)' = typed - Lines(posted)
    BY <1>19 DEF vars
  <2>3. QED
    BY <2>1, <2>2, SameTaken
<1>20. QED
  BY <1>1, <1>2, <1>3, <1>4, <1>5, <1>6, <1>7, <1>8, <1>9, <1>10,
     <1>11, <1>12, <1>13, <1>14, <1>15, <1>16, <1>17, <1>18, <1>19 DEF Next, Handlers, Environment

-----------------------------------------------------------------------------
(* The theorems.                                                           *)

(* Before the connection nothing was typed, read or written.               *)
LEMMA InitInv == Init => IInv
<1> SUFFICES ASSUME Init PROVE IInv
  OBVIOUS
<1>1. TypeOK /\ TwoBytes
  BY TypeInit
<1>2. ConnectingFirst /\ OneWrite /\ TimerFollowsBody
  BY DEF Init, ConnectingFirst, OneWrite, TimerFollowsBody
<1>3. Lines(posted) = 0 /\ CloseIsLast
  BY DEF Init, CloseIsLast, InOrder, Lines
<1>4. UpTo(0) = <<>>
  BY ConstantsAssumption DEF UpTo
<1>5. Taken = UpTo(0)
  BY <1>1, <1>3, TakenIs DEF Init
<1>6. SendsInOrder
  BY <1>4, <1>5 DEF Init, SendsInOrder
<1>7. QED
  BY <1>1, <1>2, <1>3, <1>6 DEF IInv

(* Every handler, and every step of the environment, preserves all of it.  *)
LEMMA NextInv == IInv /\ [Next]_vars => IInv'
<1> SUFFICES ASSUME IInv, [Next]_vars PROVE IInv'
  OBVIOUS
<1> USE DEF IInv
<1>1. TypeOK' /\ TwoBytes'
  BY TypeStep, TwoBytesStep
<1>2. ConnectingFirst' /\ OneWrite' /\ TimerFollowsBody'
  BY ConnectingStep, OneWriteStep, TimerStep
<1>3. CloseIsLast'
  BY CloseIsLastStep
<1>4. SendsInOrder'
  BY <1>1, <1>3, SendsInOrderStep
<1>5. QED
  BY <1>1, <1>2, <1>3, <1>4

(* The inductive invariant.                                                *)
THEOREM Invariance == Spec => []IInv
BY InitInv, NextInv, PTL DEF Spec

(* Every state variable has its type, and read_queue_ never keeps more     *)
(* than READ_QUEUE_SIZE bytes, whatever lengths the server sends.          *)
THEOREM TypeCorrect == Spec => []TypeOK
<1>1. IInv => TypeOK
  BY DEF IInv
<1>2. QED
  BY <1>1, Invariance, PTL

(* Client::WriteImpl and WriteHandler have one async_write at a time, of a *)
(* packet that is still queued, and none is missing while packets wait.    *)
THEOREM OneWriteAtATime == Spec => []OneWrite
<1>1. IInv => OneWrite
  BY DEF IInv
<1>2. QED
  BY <1>1, Invariance, PTL

(* What is sent and what is queued are the packets of every message taken, *)
(* one for each recipient, in the order typed, however many of either.     *)
THEOREM OrderCorrect == Spec => []SendsInOrder
<1>1. IInv => SendsInOrder
  BY DEF IInv
<1>2. QED
  BY <1>1, Invariance, PTL

(* read_timeout_timer_ runs over every body read and, on a connection that *)
(* is open, over nothing else.                                             *)
THEOREM TimerCorrect == Spec => []TimerFollowsBody
<1>1. IInv => TimerFollowsBody
  BY DEF IInv
<1>2. QED
  BY <1>1, Invariance, PTL

-----------------------------------------------------------------------------
(* The client implements the promise of LineRelay.                         *)

(* The steps that send nothing and at most close the socket.               *)
Quiet ==
  /\ UNCHANGED <<typed, sent, wq, written>>
  /\ socket' = socket \/ socket' = "closed"

(* They close the connection of the relay, or leave it as it is.           *)
LEMMA QuietStep ==
  ASSUME Quiet
  PROVE  [Relay!Next]_(Relay!vars)
<1>1. Wire' = Wire /\ typed' = typed
  BY DEF Quiet, Wire
<1>2. CASE socket' = socket
  <2>1. Conn' = Conn
    BY <1>2 DEF Conn
  <2>2. QED
    BY <1>1, <2>1 DEF Relay!vars
<1>3. CASE socket' = "closed"
  <2>1. Conn' = "closed"
    BY <1>3 DEF Conn
  <2>2. Relay!Shut
    BY <1>1, <2>1 DEF Relay!Shut
  <2>3. QED
    BY <2>2 DEF Relay!Next
<1>4. QED
  BY <1>2, <1>3 DEF Quiet

(* A client that has just started has nothing typed and nothing sent.      *)
LEMMA RelayInit == Init => Relay!Init
BY DEF Init, Relay!Init, Conn, Wire

(* The first packet of the queue is the one behind those that were sent,   *)
(* in the order of the lines.                                              *)
LEMMA HeadIsNext ==
  ASSUME TypeOK, CloseIsLast, SendsInOrder, wq # <<>>
  PROVE  /\ Len(sent) < typed * Recipients
         /\ Head(wq) = Relay!Nth(Len(sent))
<1> DEFINE n == Len(sent)
           m == typed - Lines(posted)
           R == Recipients
<1>1. sent \in Seq(Packet) /\ wq \in Seq(Packet) /\ n \in Nat /\ Len(wq) \in Nat
  BY DEF TypeOK
<1>2. Len(wq) > 0 /\ Head(wq) = wq[1]
  BY <1>1
<1>3. Lines(posted) \in Nat /\ typed \in Nat /\ m \in Nat /\ m <= typed
  <2>1. Len(posted) \in Nat /\ (posted # <<>> => Len(posted) > 0) /\ typed \in Nat
    BY DEF TypeOK
  <2>2. Lines(posted) \in Nat /\ Lines(posted) <= typed
    BY <2>1 DEF Lines, CloseIsLast, InOrder
  <2>3. QED
    BY <2>1, <2>2
<1>4. sent \o wq = UpTo(m)
  BY TakenIs DEF SendsInOrder
<1> HIDE DEF m
<1>5. R \in Nat /\ R > 0 /\ m * R \in Nat /\ m * R <= typed * R
  <2>1. R \in Nat /\ R > 0
    BY ConstantsAssumption
  <2> HIDE DEF R
  <2>2. PICK d \in Nat : typed = m + d
    <3>1. typed - m \in Nat /\ typed = m + (typed - m)
      BY <1>3
    <3>2. QED
      BY <3>1
  <2>3. typed * R = m * R + d * R /\ d * R \in Nat /\ m * R \in Nat
    BY <1>3, <2>1, <2>2
  <2>4. QED
    BY <2>1, <2>3
<1>6. Len(UpTo(m)) = m * R
  BY <1>3, <1>5, UpToType, IsSequence
<1>7. Len(sent \o wq) = n + Len(wq) /\ (sent \o wq)[n + 1] = wq[1]
  BY <1>1, <1>2, ConcatProperties
<1>8. n + 1 \in 1 .. m * R /\ n < typed * R
  <2>1. m * R = n + Len(wq)
    BY <1>4, <1>6, <1>7
  <2>2. typed * R \in Nat
    BY <1>3, <1>5
  <2> HIDE DEF n, R
  <2>3. QED
    BY <1>1, <1>2, <1>5, <2>1, <2>2
<1>9. UpTo(m)[n + 1] = [msg |-> 1 + (n \div R), to |-> 1 + (n % R)]
  <2>1. (n + 1) - 1 = n
    BY <1>1
  <2>2. QED
    BY <1>8, <2>1 DEF UpTo
<1>10. QED
  BY <1>2, <1>4, <1>7, <1>8, <1>9 DEF Relay!Nth

(* Every handler, and every step of the environment, is a step of the      *)
(* relay or changes nothing of it.                                         *)
LEMMA RelayStep ==
  ASSUME IInv, [Next]_vars
  PROVE  [Relay!Next]_(Relay!vars)
<1> USE DEF IInv
<1>1. CASE Write
  <2>1. Wire' = Wire /\ Conn' = Conn /\ typed' = typed + 1
    BY <1>1 DEF Write, writeVars, Wire, Conn
  <2>2. Relay!Type
    BY <2>1 DEF Relay!Type
  <2>3. QED
    BY <2>2 DEF Relay!Next
<1>2. CASE PostClose
  BY <1>2, QuietStep DEF PostClose, writeVars, Quiet
<1>3. CASE OnConnect
  BY <1>3, QuietStep DEF OnConnect, CloseSocket, writeVars, Quiet
<1>4. CASE HeaderHandler
  BY <1>4, QuietStep DEF HeaderHandler, Recover, CloseSocket, writeVars, Quiet
<1>5. CASE ReadHandler
  BY <1>5, QuietStep DEF ReadHandler, Recover, CloseSocket, writeVars, Quiet
<1>6. CASE HandleDataTimeout
  BY <1>6, QuietStep DEF HandleDataTimeout, Recover, CloseSocket, Quiet
<1>7. CASE WriteImpl
  <2>1. UNCHANGED <<typed, socket, sent, written>>
    BY <1>7 DEF WriteImpl
  <2>2. CASE written > 0
    <3>1. wq # <<>>
      BY <2>2 DEF OneWrite, TypeOK
    <3> DEFINE p == PacketsOf(Head(posted))
    <3>2. wq' = wq \o p
      BY <1>7 DEF WriteImpl
    <3>3. wq \in Seq(Packet) /\ p \in Seq(Packet)
      <4>1. posted # <<>> /\ Head(posted) # Close /\ posted \in Seq(Nat)
        BY <1>7 DEF WriteImpl, TypeOK
      <4>2. Head(posted) \in Nat \ {0}
        BY <4>1 DEF Close
      <4>3. QED
        BY <4>2, PacketsOfType DEF TypeOK
    <3> HIDE DEF p
    <3>4. Head(wq \o p) = Head(wq)
      BY <3>1, <3>3, HeadOfConcat
    <3>5. Wire' = Wire /\ Conn' = Conn
      BY <2>1, <3>2, <3>4 DEF Wire, Conn
    <3>6. QED
      BY <2>1, <3>5 DEF Relay!vars
  <2>3. CASE ~(written > 0)
    BY <2>1, <2>3 DEF Wire, Conn, Relay!vars
  <2>4. QED
    BY <2>2, <2>3
<1>8. CASE CloseImpl
  BY <1>8, QuietStep DEF CloseImpl, CloseSocket, Quiet
<1>9. CASE WriteHandler
  <2>1. CASE written > 0 /\ written' = written - 1 /\ sent' = Append(sent, Head(wq))
             /\ UNCHANGED <<typed, socket>>
    <3>1. written' = 0
      BY <2>1 DEF OneWrite, TypeOK
    <3>2. Wire' = Wire /\ Conn' = Conn
      BY <2>1, <3>1 DEF Wire, Conn
    <3>3. QED
      BY <2>1, <3>2 DEF Relay!vars
  <2>2. CASE failed > 0 /\ socket' = "closed" /\ UNCHANGED <<typed, wq, written, sent>>
    BY <2>2, QuietStep DEF Quiet
  <2>3. QED
    BY <1>9, <2>1, <2>2 DEF WriteHandler
<1>10. CASE RunReturns
  BY <1>10, QuietStep DEF RunReturns, writeVars, Quiet
<1>11. CASE Connects
  <2>1. Wire' = Wire /\ typed' = typed
    BY <1>11 DEF Connects, writeVars, Wire
  <2>2. CASE socket' = "up"
    <3>1. socket = "connecting"
      BY <1>11 DEF Connects, ConnectingFirst
    <3>2. Conn = "connecting" /\ Conn' = "up"
      BY <2>2, <3>1 DEF Conn
    <3>3. Relay!Connect
      BY <2>1, <3>2 DEF Relay!Connect
    <3>4. QED
      BY <3>3 DEF Relay!Next
  <2>3. CASE socket' = socket
    BY <2>1, <2>3 DEF Conn, Relay!vars
  <2>4. QED
    BY <1>11, <2>2, <2>3 DEF Connects
<1>12. CASE ServerDrops
  BY <1>12 DEF ServerDrops, writeVars, Wire, Conn, Relay!vars
<1>13. CASE HeaderArrives
  BY <1>13, QuietStep DEF HeaderArrives, writeVars, Quiet
<1>14. CASE BodyArrives
  BY <1>14, QuietStep DEF BodyArrives, writeVars, Quiet
<1>15. CASE ReadFails
  BY <1>15, QuietStep DEF ReadFails, writeVars, Quiet
<1>16. CASE WriteDone
  <2>1. writing > 0 /\ socket \in {"up", "broken"} /\ written' = written + 1
    BY <1>16 DEF WriteDone
  <2>2. UNCHANGED <<typed, socket, wq, sent>>
    BY <1>16 DEF WriteDone
  <2>3. written = 0 /\ written' = 1 /\ wq # <<>>
    <3>1. writing \in Nat /\ written \in Nat /\ failed \in Nat
      BY DEF TypeOK
    <3>2. written = 0 /\ writing + written + failed = 1
      BY <2>1, <3>1 DEF OneWrite
    <3>3. QED
      BY <2>1, <3>2 DEF OneWrite
  <2>4. Wire = sent /\ Wire' = Append(sent, Head(wq))
    BY <2>2, <2>3 DEF Wire
  <2>5. Conn = "up" /\ Conn' = Conn
    BY <2>1, <2>2 DEF Conn
  <2>6. Len(sent) < typed * Recipients /\ Head(wq) = Relay!Nth(Len(sent))
    BY <2>3, HeadIsNext
  <2>7. Relay!Send
    BY <2>2, <2>4, <2>5, <2>6 DEF Relay!Send
  <2>8. QED
    BY <2>7 DEF Relay!Next
<1>17. CASE WriteFails
  BY <1>17, QuietStep DEF WriteFails, Quiet
<1>18. CASE TimerFires
  BY <1>18, QuietStep DEF TimerFires, writeVars, Quiet
<1>19. CASE UNCHANGED vars
  BY <1>19, QuietStep DEF vars, writeVars, Quiet
<1>20. QED
  BY <1>1, <1>2, <1>3, <1>4, <1>5, <1>6, <1>7, <1>8, <1>9, <1>10,
     <1>11, <1>12, <1>13, <1>14, <1>15, <1>16, <1>17, <1>18, <1>19 DEF Next, Handlers, Environment

(* The handlers of Client.cpp implement LineRelay: for any number of lines *)
(* and recipients, packet after packet goes out in the order typed, and    *)
(* none before the connection is made or after it was closed.              *)
THEOREM ClientImplementsRelay == Spec => LineRelaySpec
<1>1. IInv /\ [Next]_vars => [Relay!Next]_(Relay!vars)
  BY RelayStep
<1>2. QED
  BY RelayInit, <1>1, Invariance, PTL DEF Spec, LineRelaySpec, Relay!Spec
=============================================================================
